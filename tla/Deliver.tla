------------------------------ MODULE Deliver ------------------------------
(***************************************************************************)
(* The DELIVER phase: how the header set of a response is put together on  *)
(* each of the ways a response leaves the server (a MISS streamed from the *)
(* origin, a later HIT rebuilt from the stored metadata, a forwarded       *)
(* origin error), and the directives applied to it: `header`,              *)
(* `strip_cookies` and `cors`.                                             *)
(*                                                                         *)
(* A header set is a function from the field names to the sequence of      *)
(* values of each field (the empty sequence: absent).  A site's directives *)
(* are written as their arguments: a word is a pair of its sign ("-", "+", *)
(* or none) and the rest, and a scope is a record that holds for every     *)
(* response, for one Content-Type, or for a field the response carries.    *)
(* What EvalResponse decides about storing is an input here (Decision      *)
(* models it): the record sd of Storable below.                            *)
(***************************************************************************)
EXTENDS Naturals, Sequences, SequencesExt, TLC

CONSTANTS Names,        \* the field names
          Hop           \* the hop-by-hop ones

Absent == <<>>
NoHeaders == [n \in Names |-> Absent]

Get(h, n) == IF h[n] = Absent THEN "" ELSE Head(h[n])
Set(h, n, v) == [h EXCEPT ![n] = <<v>>]
Add(h, n, v) == [h EXCEPT ![n] = Append(@, v)]
Del(h, ns) == [n \in Names |-> IF n \in ns THEN Absent ELSE h[n]]
SetIfNonEmpty(h, n, v) == IF v = "" THEN h ELSE Set(h, n, v)

(***************************************************************************)
(* `header` and `cors` arguments.                                          *)
(***************************************************************************)
Raw(w) == w[1] \o w[2]
Op(op, name, value) == [op |-> op, name |-> name, value |-> value]
Specials == {"cache_status", "cache_age", "cache_key"}
Failed == [ok |-> FALSE, ops |-> <<>>]

\* parseHeaderOps: the operations of one directive, read left to right.
RECURSIVE ParseHeaderOps(_, _)
ParseHeaderOps(args, ops) ==
    LET tok == Head(args)
        valued(op, name) == ParseHeaderOps(SubSeq(args, 3, Len(args)), Append(ops, Op(op, name, Raw(args[2]))))
        special == ParseHeaderOps(SubSeq(args, 3, Len(args)), Append(ops, Op(tok[2], Raw(args[2]), "")))
        raw == IF Raw(args[3]) # "raw" THEN Failed
               ELSE ParseHeaderOps(SubSeq(args, 4, Len(args)), Append(ops, Op("cache_key", Raw(args[2]), "raw")))
    IN  CASE args = <<>> -> [ok |-> ops # <<>>, ops |-> ops]
          [] args # <<>> /\ tok[1] = "-" -> ParseHeaderOps(Tail(args), Append(ops, Op("remove", tok[2], "")))
          [] args # <<>> /\ tok[1] # "-" /\ Len(args) = 1 -> Failed
          [] Len(args) > 2 /\ tok = <<"+", "cache_key">> -> raw
          [] Len(args) > 1 /\ tok[1] = "+" /\ tok[2] \in Specials /\ ~(Len(args) > 2 /\ tok[2] = "cache_key") -> special
          [] Len(args) > 1 /\ tok[1] = "+" /\ tok[2] \notin Specials -> valued("append", tok[2])
          [] Len(args) > 1 /\ tok[1] = "" -> valued("set", tok[2])

\* compileCORS: `*` or the allow-list, then the methods list (the headers list
\* has the same form and is left out).
CompileCORS(args) ==
    LET all == args # <<>> /\ Head(args) = "*"
        rest == IF all THEN Tail(args) ELSE args
        cut == SelectInSeq(rest, LAMBDA a : a = "methods")
        origins == IF cut = 0 THEN rest ELSE SubSeq(rest, 1, cut - 1)
    IN  [ok |-> args # <<>> /\ (all => origins = <<>>),
         all |-> all,
         origins |-> IF all THEN {} ELSE ToSet(origins),
         methods |-> IF cut = 0 THEN <<>> ELSE SubSeq(rest, cut + 1, Len(rest))]

(***************************************************************************)
(* The phase itself.                                                       *)
(***************************************************************************)
\* scopeMatches, against the header set the phase is given.
ScopeMatches(scope, h) ==
    CASE scope.on = "all" -> TRUE
      [] scope.on = "content_type" -> Get(h, "Content-Type") = scope.of
      [] scope.on = "resp_header" -> h[scope.of] # Absent

Expand(value, req) == IF value = "{http.Origin}" THEN req.origin ELSE value

\* applyHeaderRules: the operations of every rule in scope, resolved.
ApplyHeaderRules(rules, h, req, status) ==
    LET inScope == SelectSeq(rules, LAMBDA r : ScopeMatches(r.scope, h))
        ops == FlattenSeq([i \in DOMAIN inScope |-> inScope[i].ops])
        kept == SelectSeq(ops, LAMBDA o : o.op \notin {"cache_key", "cache_age"})
    IN  [i \in DOMAIN kept |->
            IF kept[i].op = "cache_status" THEN Op("set", kept[i].name, status)
            ELSE Op(kept[i].op, kept[i].name, Expand(kept[i].value, req))]

\* The target of the last special operation of a kind that is in scope.
Surfaced(rules, h, kind) ==
    LET inScope == SelectSeq(rules, LAMBDA r : ScopeMatches(r.scope, h))
        ops == FlattenSeq([i \in DOMAIN inScope |-> inScope[i].ops])
        found == SelectSeq(ops, LAMBDA o : o.op = kind)
    IN  IF found = <<>> THEN Op(kind, "", "") ELSE Last(found)

EvalDeliver(site, h, req, status) ==
    [ops   |-> ApplyHeaderRules(site.rules, h, req, status),
     key   |-> Surfaced(site.rules, h, "cache_key"),
     age   |-> Surfaced(site.rules, h, "cache_age").name,
     strip |-> \E sc \in site.strip : ScopeMatches(sc, h),
     cors  |-> site.cors.ok /\ ScopeMatches(site.corsScope, h)]

ApplyHeaderOps(h, ops) ==
    FoldLeft(LAMBDA acc, o : CASE o.op = "set" -> Set(acc, o.name, o.value)
                               [] o.op = "append" -> Add(acc, o.name, o.value)
                               [] o.op = "remove" -> Del(acc, {o.name}), h, ops)

ApplyCORS(h, c, origin) ==
    LET allowed == IF c.all THEN Set(h, "ACAO", "*")
                   ELSE IF origin # "" /\ origin \in c.origins
                        THEN Add(Set(h, "ACAO", origin), "Vary", "Origin")
                        ELSE h
    IN  IF c.methods = <<>> THEN allowed ELSE Set(allowed, "ACAM", FoldLeft(LAMBDA a, m : a \o m, "", c.methods))

\* applyDeliver: the decision, then its operations in this order.  The age is
\* that of the freshness index (-1: the key is not in it).
Stripped(h, dd) == IF dd.strip THEN Del(h, {"Set-Cookie"}) ELSE h
Shared(h, dd, site, req) == IF dd.cors THEN ApplyCORS(h, site.cors, req.origin) ELSE h
WithKey(h, dd, key) ==
    IF dd.key.name = "" \/ key = "" THEN h
    ELSE Set(h, dd.key.name, IF dd.key.value = "raw" THEN key ELSE "hash of " \o key)
WithAge(h, dd, status, age) ==
    IF dd.age = "" \/ status = "MISS" \/ age < 0 THEN h ELSE Set(h, dd.age, ToString(age))

Delivered(h, dd, site, req, status, key, age) ==
    WithAge(WithKey(Shared(Stripped(ApplyHeaderOps(h, dd.ops), dd), dd, site, req), dd, key),
            dd, status, age)

ApplyDeliver(h, site, req, status, key, age) ==
    Delivered(h, EvalDeliver(site, h, req, status), site, req, status, key, age)

\* connectionTokens, copyOriginHeaders: a field the origin's own Connection
\* list names is dropped with the hop-by-hop ones.
ConnectionTokens(h) == ToSet(h["Connection"])
CopyOriginHeaders(src) == Del(src, Hop \cup ConnectionTokens(src))

\* setSharedFreshness
SetSharedFreshness(h, ttl, private) ==
    Del(Set(h, "Cache-Control", (IF private THEN "private, max-age=" ELSE "public, max-age=") \o ToString(ttl)),
        {"Expires"})

(***************************************************************************)
(* The ways out.                                                           *)
(***************************************************************************)
\* What EvalResponse lets be stored: a Set-Cookie only in a credentialed store
\* or when a strip_cookies rule covers the response.
Storable(site, resp, sd) ==
    sd.store => \/ sd.credentialed
                \/ resp["Set-Cookie"] = Absent
                \/ \E sc \in site.strip : ScopeMatches(sc, resp)

\* Mutant: cadish's own freshness overrides what the operator's directives set.
FreshnessLast(site, req, resp, sd, key) ==
    LET copied == Del(CopyOriginHeaders(resp), sd.consumed)
        cleaned == IF sd.store /\ sd.credentialed THEN Del(copied, {"Set-Cookie", "Pragma"}) ELSE copied
        done == ApplyDeliver(cleaned, site, req, "MISS", key, -1)
    IN  IF sd.store THEN SetSharedFreshness(done, sd.ttl, sd.private) ELSE done
\* serveOrigin's header assembly.
Miss(site, req, resp, sd, key) ==
    LET copied == Del(CopyOriginHeaders(resp), sd.consumed)
        cleaned == IF sd.store /\ sd.credentialed THEN Del(copied, {"Set-Cookie", "Pragma"}) ELSE copied
        fresh == IF sd.store THEN SetSharedFreshness(cleaned, sd.ttl, sd.private) ELSE cleaned
    IN  ApplyDeliver(fresh, site, req, "MISS", key, -1)

\* The ObjectMeta stored beside the body.
ObjectMeta(resp, sd) ==
    [type |-> Get(resp, "Content-Type"), etag |-> Get(resp, "ETag"),
     vary |-> Get(resp, "Vary"), private |-> sd.private]

\* serveFromCache's header assembly: nothing of the origin's but the metadata.
Hit(site, req, meta, ttl, key, age) ==
    LET typed == SetIfNonEmpty(NoHeaders, "Content-Type", meta.type)
        tagged == SetIfNonEmpty(typed, "ETag", meta.etag)
        varied == SetIfNonEmpty(tagged, "Vary", meta.vary)
        fresh == SetSharedFreshness(varied, ttl, meta.private)
    IN  ApplyDeliver(fresh, site, req, "HIT", key, age)

\* streamOriginError: the forwarded error, never stored.
StreamOriginError(site, req, resp, consumed, key) ==
    ApplyDeliver(Del(CopyOriginHeaders(resp), consumed), site, req, "MISS", key, -1)

-----------------------------------------------------------------------------
(***************************************************************************)
(* Properties, of a site, a request, an origin response and a decision.    *)
(***************************************************************************)
Represented == {"Content-Type", "ETag", "Vary", "Cache-Control", "Expires", "Set-Cookie", "ACAM"}

\* The fields a debug directive fills with the cache status or the age.
Debugged(site) ==
    {o.name : o \in {p \in UNION {ToSet(site.rules[i].ops) : i \in DOMAIN site.rules} : p.op \in {"cache_status", "cache_age"}}}

\* Every scope reads only what a HIT rebuilds of the origin's fields.
Replayable(site) ==
    \A sc \in {site.rules[i].scope : i \in DOMAIN site.rules} \cup site.strip \cup {site.corsScope} :
        sc.on = "resp_header" => sc.of \in {"Content-Type", "ETag", "Vary"}

\* The entry keeps the first line of a Vary in several lines.
FirstVary(resp) == [resp EXCEPT !["Vary"] = IF @ = Absent THEN Absent ELSE <<Head(@)>>]

\* A stored response tells the client the same on the MISS that stored it and
\* on a later HIT: the same type, validator, variance, freshness and methods,
\* and no Set-Cookie that only the first client would see (handler.go: "a MISS
\* emits the SAME Cache-Control a later HIT will").  Of a Vary in several lines the HIT
\* has the first, and a site with a resp_header scope on a field a HIT does not rebuild
\* is left out.
HitSaysWhatMissSaid(site, req, resp, sd) ==
    (sd.store /\ Storable(site, resp, sd) /\ Replayable(site)
        /\ Hop \cap Represented = {} /\ ConnectionTokens(resp) \cap Represented = {}) =>
    \A miss \in {Miss(site, req, FirstVary(resp), sd, "k")}, hit \in {Hit(site, req, ObjectMeta(resp, sd), sd.ttl, "k", 3)} :
        \A n \in Represented \ Debugged(site) : miss[n] = hit[n]

Edited(site) == {o.name : o \in UNION {ToSet(site.rules[i].ops) : i \in DOMAIN site.rules}}
\* Whichever way a response leaves, no field the origin scoped to its own
\* connection, no control field a cache_ttl rule consumed, and no Set-Cookie
\* under an unconditional strip_cookies is in it, unless a `header` directive
\* names the field (streamOriginError: "the forwarded error response strips
\* them identically").
DroppedEverywhere(site, req, resp, sd) ==
    LET dropped == (Names \cap (Hop \cup ConnectionTokens(resp) \cup sd.consumed)) \ (Edited(site) \cup {"Vary", "ACAO", "ACAM"}
                        \cup (IF sd.store THEN {"Cache-Control"} ELSE {}))
        out == {Miss(site, req, resp, sd, "k"), StreamOriginError(site, req, resp, sd.consumed, "")}
    IN  \A h \in out : /\ \A n \in dropped : h[n] = Absent
                       /\ [on |-> "all", of |-> ""] \in site.strip => h["Set-Cookie"] = Absent
=============================================================================
