------------------------------ MODULE KeyText ------------------------------
(***************************************************************************)
(* The text side of a request: how the client's path and query become the  *)
(* path the matchers and the origin see, the wildcard patterns they are    *)
(* matched with, and the text of the cache key.                            *)
(*                                                                         *)
(* A string is a sequence of characters.  "|" is the unit separator 0x1f,  *)
(* the one control byte modelled; "_" is the space; an escape is "%" and   *)
(* one digit, its place in Reserved.                                       *)
(***************************************************************************)
EXTENDS Integers, SequencesExt

Sep == "|"
Space == "_"
Reserved == <<"&", "=", "%", "+", "/", "?", "*", Sep>>
Digits == <<"1", "2", "3", "4", "5", "6", "7", "8">>
CharOrder == <<Sep, "%", "&", "*", "+", ".", "/">> \o Digits \o <<"=", "?", "_", "a", "b">>

-----------------------------------------------------------------------------
(* Strings *)

HasPrefix(s, p) == Len(p) <= Len(s) /\ SubSeq(s, 1, Len(p)) = p
HasSuffix(s, p) == Len(p) <= Len(s) /\ SubSeq(s, Len(s) - Len(p) + 1, Len(s)) = p
Drop(s, n) == SubSeq(s, n + 1, Len(s))

\* strings.Index of a non-empty p: the first position, or 0.
Index(s, p) ==
  LET at == {i \in 1..Len(s) : HasPrefix(Drop(s, i - 1), p)}
  IN IF at = {} THEN 0 ELSE CHOOSE i \in at : \A j \in at : i <= j

\* strings.Split on the one character c.
RECURSIVE Split(_, _)
Split(s, c) ==
  LET i == Index(s, <<c>>)
  IN IF i = 0 THEN <<s>> ELSE <<SubSeq(s, 1, i - 1)>> \o Split(Drop(s, i), c)

PosIn(list, c) == CHOOSE i \in DOMAIN list : list[i] = c

\* The order of sort.Strings.
Before(s, t) ==
  \/ HasPrefix(t, s) /\ s # t
  \/ \E i \in 1..Len(s) : /\ i <= Len(t) /\ SubSeq(s, 1, i - 1) = SubSeq(t, 1, i - 1)
                          /\ PosIn(CharOrder, s[i]) < PosIn(CharOrder, t[i])

-----------------------------------------------------------------------------
(* Wildcards (glob.go) *)

CompileGlob(pat) ==
  [lead |-> HasPrefix(pat, <<"*">>), trail |-> HasSuffix(pat, <<"*">>),
   parts |-> SelectSeq(Split(pat, "*"), LAMBDA p : p # << >>)]

\* Mutant: the search goes on at the start of the part just found.
FromHit(s, i, p) == Drop(s, i - 1)

\* What is left to search after a part was found at i.
AfterHit(s, i, p) == Drop(s, i + Len(p) - 1)

RECURSIVE InOrder(_, _)
\* The rest of s after all parts were found in order, or <<"none">>.
InOrder(s, parts) ==
  IF parts = << >> THEN [ok |-> TRUE, rest |-> s]
  ELSE LET i == Index(s, Head(parts))
       IN IF i = 0 THEN [ok |-> FALSE, rest |-> s]
          ELSE InOrder(AfterHit(s, i, Head(parts)), Tail(parts))

GlobMatch(g, s) ==
  LET anchored == g.parts # << >> /\ ~g.lead
      s1 == IF anchored THEN Drop(s, Len(g.parts[1])) ELSE s
      p1 == IF anchored THEN Tail(g.parts) ELSE g.parts
      ends == ~g.trail /\ p1 # << >>
      mid == InOrder(s1, IF ends THEN Front(p1) ELSE p1)
  IN \/ g.parts = << >>
     \/ /\ anchored => HasPrefix(s, g.parts[1])
        /\ mid.ok
        /\ ends => HasSuffix(mid.rest, Last(p1))

Stars(pat) == Cardinality({i \in DOMAIN pat : pat[i] = "*"})

\* pathSet.add: each pattern goes to the cheapest structure that answers it.
PathSet(pats) ==
  LET prefix == {p \in pats : p # <<"*">> /\ Stars(p) = 1 /\ Last(p) = "*"}
      exact == {p \in pats : Stars(p) = 0}
  IN [matchAll |-> <<"*">> \in pats,
      exact |-> exact,
      prefixes |-> {Front(p) : p \in prefix},
      globs |-> {CompileGlob(p) : p \in pats \ (exact \cup prefix \cup {<<"*">>})}]

\* trieNode.hasPrefixOf: the walk passes through the end of a stored prefix.
HasPrefixOf(prefixes, s) == \E n \in 0..Len(s) : SubSeq(s, 1, n) \in prefixes

PathSetMatch(ps, s) ==
  ps.matchAll \/ s \in ps.exact \/ HasPrefixOf(ps.prefixes, s) \/ \E g \in ps.globs : GlobMatch(g, s)

\* nameGlobSet: no prefix structure, every wildcard name is a glob.
NameGlobSet(names) ==
  [matchAll |-> <<"*">> \in names, exact |-> {n \in names : Stars(n) = 0},
   globs |-> {CompileGlob(n) : n \in {x \in names : Stars(x) > 0 /\ x # <<"*">>}}]

NameMatch(set, n) == set.matchAll \/ n \in set.exact \/ \E g \in set.globs : GlobMatch(g, n)

-----------------------------------------------------------------------------
(* Paths.  CleanPath is path.Clean. *)

RECURSIVE CleanSegs(_, _, _)
CleanSegs(segs, rooted, out) ==
  IF segs = << >> THEN out
  ELSE CleanSegs(Tail(segs), rooted,
         CASE Head(segs) \in {<< >>, <<".">>} -> out
           [] Head(segs) = <<".", ".">> ->
                IF out # << >> /\ Last(out) # <<".", ".">> THEN Front(out)
                ELSE IF rooted THEN out ELSE Append(out, <<".", ".">>)
           [] OTHER -> Append(out, Head(segs)))

Join(segs, sep) == FlattenSeq([i \in DOMAIN segs |-> IF i = 1 THEN segs[i] ELSE <<sep>> \o segs[i]])

Rooted(p) == HasPrefix(p, <<"/">>)
PathOf(rooted, out) == IF rooted THEN <<"/">> \o out ELSE IF out = << >> THEN <<".">> ELSE out

CleanPath(p) == PathOf(Rooted(p), Join(CleanSegs(Split(p, "/"), Rooted(p), << >>), "/"))

\* A trailing slash is kept: it tells a directory from a file.
KeepSlash(p, cleaned) ==
  IF Len(p) > 1 /\ Last(p) = "/" /\ cleaned # <<"/">> THEN cleaned \o <<"/">> ELSE cleaned

\* Mutant: the control bytes are stripped from the cleaned path.
CleanThenStrip(raw) == SelectSeq(KeepSlash(raw, CleanPath(raw)), LAMBDA c : c # Sep)

Normalized(p, cleaned) ==
  IF p = << >> THEN <<"/">> ELSE IF cleaned = p THEN p ELSE KeepSlash(p, cleaned)

NormalizePath(raw) ==
  LET p == SelectSeq(raw, LAMBDA c : c # Sep) IN Normalized(p, CleanPath(p))

\* urlFor of the HTTP origin: << >> is the refusal to leave the base path.
Within(basePath, cleaned) ==
  IF cleaned = basePath \/ HasPrefix(cleaned, basePath \o <<"/">>) THEN cleaned ELSE << >>
SlashKept(joined, c) == IF Last(joined) = "/" /\ c # <<"/">> THEN c \o <<"/">> ELSE c

URLFor(base, key) ==
  LET rel == IF HasPrefix(key, <<"/">>) THEN Tail(key) ELSE key
      basePath == IF HasSuffix(base, <<"/">>) THEN Front(base) ELSE base
      joined == basePath \o <<"/">> \o rel
  IN Within(basePath, SlashKept(joined, CleanPath(joined)))

-----------------------------------------------------------------------------
(* Queries *)

\* Mutant: key and value are written as they are.
Verbatim(s) == s

\* url.QueryEscape.
QueryEscape(s) ==
  FlattenSeq([i \in DOMAIN s |-> IF s[i] = Space THEN <<"+">>
                                 ELSE IF s[i] \in Range(Reserved) THEN <<"%", Digits[PosIn(Reserved, s[i])]>>
                                 ELSE <<s[i]>>])

\* url.QueryUnescape; a "%" without a digit after it is the invalid escape.
RECURSIVE QueryUnescape(_)
QueryUnescape(s) ==
  IF s = << >> THEN [ok |-> TRUE, s |-> << >>]
  ELSE IF s[1] = "%" /\ (Len(s) = 1 \/ s[2] \notin Range(Digits)) THEN [ok |-> FALSE, s |-> << >>]
  ELSE LET n == IF s[1] = "%" THEN 2 ELSE 1
           c == IF s[1] = "%" THEN Reserved[PosIn(Digits, s[2])] ELSE IF s[1] = "+" THEN Space ELSE s[1]
           rest == QueryUnescape(Drop(s, n))
       IN [ok |-> rest.ok, s |-> <<c>> \o rest.s]

\* parseQueryLossless: the pairs in order; a pair that does not unescape is skipped.
Pair(seg) ==
  LET i == Index(seg, <<"=">>)
      k == QueryUnescape(IF i = 0 THEN seg ELSE SubSeq(seg, 1, i - 1))
      v == QueryUnescape(IF i = 0 THEN << >> ELSE Drop(seg, i))
  IN [ok |-> seg # << >> /\ k.ok /\ v.ok, k |-> k.s, v |-> v.s]

ParseQueryLossless(raw) ==
  SelectSeq([i \in DOMAIN Split(raw, "&") |-> Pair(Split(raw, "&")[i])], LAMBDA p : p.ok)

\* writeCanonicalQuery: the pairs whose name allow and deny let through, sorted
\* by name and then by value, each name and value escaped again. A nil name set
\* is the empty set, any other the set of it alone.
CanonicalQuery(query, prefix, allow, deny) ==
  LET kept(k) == /\ \A names \in allow : NameMatch(names, k)
                 /\ \A names \in deny : ~NameMatch(names, k)
      pairs == SortSeq(SelectSeq(query, LAMBDA p : kept(p.k)),
                 LAMBDA p, q : Before(p.k, q.k) \/ (p.k = q.k /\ Before(p.v, q.v)))
      text == FlattenSeq([i \in DOMAIN pairs |->
                (IF i > 1 THEN <<"&">> ELSE IF prefix THEN <<"?">> ELSE << >>)
                \o QueryEscape(pairs[i].k) \o <<"=">> \o QueryEscape(pairs[i].v)])
  IN text

\* writeKeyValue: the separator never appears inside a value.
WriteKeyValue(s) == SelectSeq(s, LAMBDA c : c # Sep)

\* Recipe tokens: "path", "url", "query", or a query_allow / query_strip record.
WriteToken(t, path, query) ==
  CASE t.kind = "path" -> WriteKeyValue(path)
    [] t.kind = "url" -> WriteKeyValue(path) \o CanonicalQuery(query, TRUE, {}, {})
    [] t.kind = "query" -> CanonicalQuery(query, FALSE, {}, {})
    [] t.kind = "query_allow" -> CanonicalQuery(query, FALSE, {t.names}, {})
    [] t.kind = "query_strip" -> CanonicalQuery(query, FALSE, {}, {t.names})

BuildKey(toks, path, query) ==
  Join([i \in DOMAIN toks |-> WriteToken(toks[i], path, query)], Sep)

-----------------------------------------------------------------------------
(* Properties *)

\* Reference: "*" stands for any run of characters.
RECURSIVE Wild(_, _)
Wild(pat, s) ==
  IF pat = << >> THEN s = << >>
  ELSE IF Head(pat) = "*" THEN \E n \in 0..Len(s) : Wild(Tail(pat), Drop(s, n))
  ELSE s # << >> /\ Head(s) = Head(pat) /\ Wild(Tail(pat), Tail(s))

\* A pattern matches exactly the strings its wildcards can be filled to, whichever
\* of exact set, prefix trie, match-all flag or part list it was sorted into, and
\* a parameter name list agrees with a path set (pathSet.add, glob.match).
GlobExact(pat, strs) ==
  \A s \in strs : /\ PathSetMatch(PathSet({pat}), s) = Wild(pat, s)
                  /\ NameMatch(NameGlobSet({pat}), s) = Wild(pat, s)

\* The path the matchers and the cache key see is the path the origin is asked
\* for (urlFor's comment still has the key built from the raw path): normalizing is final, leaves no control byte, keeps a trailing slash, and a second cleaning by the
\* HTTP origin changes nothing; under a base path the origin is never asked for
\* anything outside it (normalizePath, urlFor).
DialedAsMatched(raw, bases) ==
  \A p \in {NormalizePath(raw)} :
     /\ NormalizePath(p) = p
     /\ Sep \notin Range(p)
     /\ raw # << >> /\ Last(raw) = "/" => Last(p) = "/"
     /\ URLFor(<< >>, p) = p
     /\ \A b \in bases : URLFor(b, p) = b \o p
     /\ \A b \in bases : URLFor(b, raw) # << >> => HasPrefix(URLFor(b, raw), b)

\* The multiset of pairs, as a function from pair to count.
Counts(query) == [p \in Range(query) |-> Cardinality({i \in DOMAIN query : query[i] = p})]

Kept(t, query) ==
  CASE t.kind = "path" -> << >>
    [] t.kind \in {"url", "query"} -> query
    [] t.kind = "query_allow" -> SelectSeq(query, LAMBDA p : NameMatch(t.names, p.k))
    [] t.kind = "query_strip" -> SelectSeq(query, LAMBDA p : ~NameMatch(t.names, p.k))

\* The pairs of the query the origin is sent that the key can tell: every "%" of them
\* begins an escape.
WellEscaped(seg) == \A i \in DOMAIN seg : seg[i] = "%" => i < Len(seg) /\ seg[i + 1] \in Range(Digits)
Tellable(raw) == SelectSeq(Split(raw, "&"), LAMBDA seg : seg # << >> /\ WellEscaped(seg))

\* A key of a path token and a query token can be read back: there is one
\* separator, the path stands before it, and what follows it parses to the very
\* parameters the recipe keeps, so two requests share the key only if they have
\* the same path and the same kept parameters up to order, where a pair with an
\* invalid escape is no parameter: it is sent to the origin and left out of the key.
\* A recipe of the whole query leaves out nothing else (buildKey,
\* parseQueryLossless, writeCanonicalQuery, writeKeyValue).
KeyReadsBack(rawPath, rawQuery, t) ==
  \A path \in {NormalizePath(rawPath)}, query \in {ParseQueryLossless(rawQuery)} :
  \A parts \in {Split(BuildKey(<<[kind |-> "path"], t>>, path, query), Sep)} :
     /\ Len(parts) = 2
     /\ parts[1] = path
     /\ Counts(ParseQueryLossless(parts[2])) = Counts(Kept(t, query))
     /\ t.kind = "query" => Len(ParseQueryLossless(parts[2])) = Len(Tellable(rawQuery))
=============================================================================
