---------------------------- MODULE Credentials ----------------------------
(***************************************************************************)
(* How a request's credentials meet the cache key (internal/pipeline):      *)
(* which recipe builds the key, which cookies are filtered before it and    *)
(* stripped after it, and when a request that still carries a credential    *)
(* must bypass the shared cache.                                            *)
(*                                                                          *)
(* A request r is a record: cookies, the sequence of [n, v] pairs of its    *)
(* one canonical Cookie line in order, duplicates included; hdr, the lines  *)
(* of each other header; attr, the value of every key token that reads      *)
(* neither (method, host, path, query, device, geo, literal...); clientIP;  *)
(* and sel, the recipe EvalRequest captured (Uncaptured before it).         *)
(* A site s has keyRules, cookieAllow (a set of names, or NoAllow) and      *)
(* sticky.  A key token t has a kind, an arg and, for a classify token, the *)
(* cookies its axis derives from and those it forwards.                     *)
(*                                                                          *)
(* A key is the sequence of its token values.  writeKeyValue drops the      *)
(* separator byte from every value, so the joined string determines that    *)
(* sequence.                                                                *)
(***************************************************************************)
EXTENDS Naturals, Sequences
LOCAL INSTANCE SequencesExt

CONSTANTS SelMatches(_, _, _),  \* selector of a rule of site s matches r
          Classify(_, _, _)     \* value of a classify token of s on r

\* No recipe captured yet, and no cookie_allow configured: values that no
\* recipe and no allow list has.
Uncaptured == <<[kind |-> "uncaptured", arg |-> "", derives |-> {}, forward |-> {}]>>
NoAllow    == {"no cookie_allow"}

----------------------------------------------------------------------------
Occurrences(r, n) == {i \in DOMAIN r.cookies : r.cookies[i].n = n}
CookieNames(r)    == {r.cookies[i].n : i \in DOMAIN r.cookies}

\* request.go cookie: the first occurrence, "" when there is none.
Cookie(r, n) ==
    IF Occurrences(r, n) = {} THEN ""
    ELSE r.cookies[CHOOSE i \in Occurrences(r, n) :
                     \A j \in Occurrences(r, n) : i <= j].v

\* request.go headerCombined: every field-line of the header, joined.
HeaderCombined(r, h) == r.hdr[h]

----------------------------------------------------------------------------
DefaultKeyTokens ==
    [i \in 1..3 |-> [kind |-> <<"method", "host", "path">>[i], arg |-> "",
                     derives |-> {}, forward |-> {}]]

Tokens(toks) == {toks[i] : i \in DOMAIN toks}

\* selectKeyTokens: the first rule whose selector matches; the built-in
\* method host path when none does (or the recipe is empty).
TokensOf(s, i) ==
    IF i = 0 \/ s.keyRules[i].toks = <<>> THEN DefaultKeyTokens ELSE s.keyRules[i].toks

SelectKeyTokens(s, r) ==
    TokensOf(s, SelectInSeq(s.keyRules, LAMBDA u : SelMatches(s, u.sel, r)))

\* Mutant: the recipe is selected again on the request as it is now.
Reselected(s, r) == SelectKeyTokens(s, r)

\* resolvedKeyTokens / recipeTokensForReq: the recipe that built the key.
RecipeTokens(s, r) ==
    IF r.sel # Uncaptured THEN r.sel ELSE SelectKeyTokens(s, r)

WriteToken(s, t, r) ==
    CASE t.kind = "cookie"   -> Cookie(r, t.arg)
      [] t.kind = "header"   -> IF t.arg = "Cookie" THEN r.cookies
                                ELSE HeaderCombined(r, t.arg)
      [] t.kind = "sticky"   -> IF s.sticky # "" /\ Cookie(r, s.sticky) # ""
                                THEN Cookie(r, s.sticky) ELSE r.clientIP
      [] t.kind = "classify" -> Classify(s, t, r)
      [] OTHER               -> r.attr[t.kind]

BuildKey(s, toks, r) == [i \in DOMAIN toks |-> WriteToken(s, toks[i], r)]

----------------------------------------------------------------------------
\* derivedSurviveCookies, computed at compile time: the cookies a classify
\* token of any recipe derives from.
DerivedSurvive(s) ==
    UNION {UNION {t.derives : t \in Tokens(s.keyRules[i].toks)}
             : i \in DOMAIN s.keyRules}

Keep(r, names) == [r EXCEPT !.cookies = SelectSeq(r.cookies, LAMBDA c : c.n \in names)]

\* FilterRequestCookies: keep the allow-listed cookies, and the inputs of an
\* axis, so that the classifier still reads them.
FilterRequestCookies(s, r) ==
    IF s.cookieAllow = NoAllow THEN r
    ELSE Keep(r, s.cookieAllow \cup DerivedSurvive(s))

SelectedForward(s, r) == UNION {t.forward : t \in Tokens(RecipeTokens(s, r))}
SelectedStrip(s, r)   ==
    UNION {t.derives \ t.forward : t \in Tokens(RecipeTokens(s, r))}

\* StripDerivedCookies' rule for one cookie.
Removed(s, n, forward, strip) ==
    /\ n \in DerivedSurvive(s)
    /\ n \notin forward
    /\ \/ n \in strip
       \/ s.cookieAllow # NoAllow /\ n \notin s.cookieAllow

StripDerivedCookies(s, r) ==
    Keep(r, {n \in CookieNames(r) :
               ~Removed(s, n, SelectedForward(s, r), SelectedStrip(s, r))})

----------------------------------------------------------------------------
Values(r, n) == {r.cookies[i].v : i \in Occurrences(r, n)}
Single(r, n) == \A i, j \in Occurrences(r, n) : i = j

\* keyCoversAllCookies, called with at least one cookie present: the whole
\* Cookie header is keyed, or each cookie is keyed raw and sent once, or is
\* covered by a forward axis alone and every occurrence has one value.
KeyCoversAllCookies(toks, r, fwd) ==
    LET keyed == {t.arg : t \in {u \in Tokens(toks) : u.kind = "cookie"}}
    IN  \/ \E t \in Tokens(toks) : t.kind = "header" /\ t.arg = "Cookie"
        \/ \A n \in CookieNames(r) :
             \/ n \in keyed /\ Single(r, n)
             \/ /\ n \in fwd \ keyed
                /\ \A v, w \in Values(r, n) : v = w

CoversAuth(toks) ==
    \E t \in Tokens(toks) : t.kind = "header" /\ t.arg = "Authorization"

\* computeKeyCanCoverCred: some recipe has a token that can cover a credential.
KeyCanCoverCred(s) ==
    \E i \in DOMAIN s.keyRules : \E t \in Tokens(s.keyRules[i].toks) :
        \/ t.kind = "cookie"
        \/ t.kind = "header" /\ t.arg \in {"Cookie", "Authorization"}
        \/ t.kind = "classify" /\ t.forward # {}

AuthLines(r) == r.hdr["Authorization"]

HasAuth(r) == \E i \in DOMAIN AuthLines(r) : AuthLines(r)[i] # ""

\* BypassForCredentials, with the recipe that built the key.
Bypasses(s, r, toks) ==
    /\ r.cookies # <<>> \/ HasAuth(r)
    /\ \/ ~KeyCanCoverCred(s)
       \/ HasAuth(r) /\ (~CoversAuth(toks) \/ Len(AuthLines(r)) > 1)
       \/ /\ r.cookies # <<>>
          /\ ~KeyCoversAllCookies(toks, r, SelectedForward(s, r))

BypassForCredentials(s, r) == Bypasses(s, r, RecipeTokens(s, r))

\* checkDerivedCookieModeConflict: no recipe both strips and forwards a cookie.
Compiles(s) ==
    \A i \in DOMAIN s.keyRules :
        \A t, u \in Tokens(s.keyRules[i].toks) :
            /\ t.forward \subseteq t.derives
            /\ t.forward \cap (u.derives \ u.forward) = {}

----------------------------------------------------------------------------
\* What the handler does with the request's cookies before the lookup:
\* filter, evaluate (capturing the recipe and the key), strip.
Captured(s, f, sel) ==
    [req |-> StripDerivedCookies(s, [f EXCEPT !.sel = sel]), key |-> BuildKey(s, sel, f)]

Normalized(s, r0) ==
    LET f == FilterRequestCookies(s, [r0 EXCEPT !.sel = Uncaptured])
    IN  Captured(s, f, SelectKeyTokens(s, f))

\* The credentials the origin sees in r: the values of each cookie that is not
\* forwarded under an axis, in order, and the Authorization lines.  An empty
\* value is no credential.
OriginCookie(r, n) ==
    SelectSeq(r.cookies, LAMBDA c : c.n = n /\ c.v # "")
OriginAuth(r) == SelectSeq(AuthLines(r), LAMBDA v : v # "")

SameCredentials(s, a, b) ==
    /\ OriginAuth(a) = OriginAuth(b)
    /\ \A n \in (CookieNames(a) \cup CookieNames(b)) \ SelectedForward(s, a) :
          OriginCookie(a, n) = OriginCookie(b, n)
=============================================================================
