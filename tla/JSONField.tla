----------------------------- MODULE JSONField -----------------------------
(***************************************************************************)
(* The cookie_json and header_json matchers: one dotted field of a JSON    *)
(* value is read by a streaming decoder that never builds the value        *)
(* (internal/pipeline/cookie_json.go).                                     *)
(*                                                                         *)
(* A raw value is a sequence of lexical tokens: the four delimiters, the   *)
(* strings of Strings, numbers, booleans and null, with commas and colons  *)
(* implied.  Three tokens stand for percent escapes in the raw text: "%{"  *)
(* (an escaped brace), "%a" (an escaped string "a") and "%z" (a string     *)
(* with an invalid escape, which makes the whole decoding fail).           *)
(***************************************************************************)
EXTENDS Integers, SequencesExt

CONSTANTS
  DepthCap,     \* jsonDepthCap (32 in the code)
  SizeCap       \* jsonValueSizeCap, in tokens (8 KiB in the code)

Strings == {"a", "b", "0", "%a", "%z"}
Scalars == {"1", "true"}
NoField == [found |-> FALSE, value |-> ""]
Field(v) == [found |-> TRUE, value |-> v]

-----------------------------------------------------------------------------
(* The path.  A part that is all digits is an array index; "00" and "0"    *)
(* are the same index; "huge" stands for digits that overflow an int.      *)

Digits == ("0" :> 0) @@ ("00" :> 0) @@ ("1" :> 1)
Text == <<"0", "1">>

CompileSeg(p) ==
  IF p \in DOMAIN Digits THEN [isIndex |-> TRUE, index |-> Digits[p], key |-> ""]
  ELSE [isIndex |-> FALSE, index |-> 0, key |-> p]

\* compileJSONPath: << >> is the rejected path.
CompileJSONPath(parts) ==
  IF parts = << >> \/ Len(parts) > DepthCap \/ "" \in Range(parts) THEN << >>
  ELSE [i \in DOMAIN parts |-> CompileSeg(parts[i])]

JSONPathString(segs) ==
  [i \in DOMAIN segs |-> IF segs[i].isIndex THEN Text[segs[i].index + 1] ELSE segs[i].key]

-----------------------------------------------------------------------------
(* encoding/json's Decoder: Token checks that a token may stand where it   *)
(* is, More only looks at the next character.  A decoder is the document,  *)
(* the next position and the stack of open containers, each "key" or "val" *)
(* (an object about to read a key or a value) or "arr".                    *)

NewDecoder(doc) == [doc |-> doc, p |-> 1, st |-> << >>]

Top(d) == IF d.st = << >> THEN "top" ELSE Last(d.st)
SetTop(st, s) == IF st = << >> THEN st ELSE Front(st) \o <<s>>
ValueEnd(st) == IF st # << >> /\ Last(st) = "val" THEN SetTop(st, "key") ELSE st

EOF(d) == d.p > Len(d.doc)

More(d) == ~EOF(d) /\ d.doc[d.p] \notin {"}", "]"}

\* The stack after the token, or <<"error">> when the token may not stand here.
StackAfter(t, d) ==
  CASE t = "{" /\ Top(d) # "key" -> d.st \o <<"key">>
    [] t = "[" /\ Top(d) # "key" -> d.st \o <<"arr">>
    [] t = "}" /\ Top(d) = "key" -> ValueEnd(Front(d.st))
    [] t = "]" /\ Top(d) = "arr" -> ValueEnd(Front(d.st))
    [] t \in Strings /\ Top(d) = "key" -> SetTop(d.st, "val")
    [] t \in Strings \cup Scalars \cup {"null"} /\ Top(d) # "key" -> ValueEnd(d.st)
    [] OTHER -> <<"error">>

\* Token: ok, the token and the decoder after it.
TokenUnder(d, st) ==
  IF st = <<"error">> THEN [ok |-> FALSE, tok |-> "", d |-> d]
  ELSE [ok |-> TRUE, tok |-> d.doc[d.p], d |-> [d EXCEPT !.p = @ + 1, !.st = st]]

Token(d) == TokenUnder(d, IF EOF(d) THEN <<"error">> ELSE StackAfter(d.doc[d.p], d))

-----------------------------------------------------------------------------
(* jsonDocDepthValid: the whole document is streamed once; end of input is *)
(* accepted wherever it comes, a second top-level value is not.            *)

RECURSIVE StreamOK(_, _, _)
DepthAfter(tok, depth) ==
  IF tok \in {"{", "["} THEN depth + 1 ELSE IF tok \in {"}", "]"} THEN depth - 1 ELSE depth

StreamOn(r, deeper, complete) ==
  /\ r.ok
  /\ ~complete
  /\ ~(r.tok \in {"{", "["} /\ deeper > DepthCap)
  /\ StreamOK(r.d, deeper, deeper = 0)

StreamOK(d, depth, complete) ==
  EOF(d) \/ \E r \in {Token(d)} : StreamOn(r, DepthAfter(r.tok, depth), complete)

JSONDocDepthValid(doc) == StreamOK(NewDecoder(doc), 0, FALSE)

-----------------------------------------------------------------------------
(* The descent.  Every operator returns the decoder it leaves behind: a    *)
(* value that is not wanted must be consumed whole, or the scan of the     *)
(* enclosing object would go on from the middle of it.                     *)

RECURSIVE SkipValue(_, _), SkipRest(_, _)
SkipMore(r, depth) == IF r.ok THEN SkipRest(r.d, depth) ELSE r

\* The loop of skipValue and drainContainer up to the closing delimiter.
SkipRest(d, depth) ==
  IF ~More(d) THEN [ok |-> TRUE, d |-> d] ELSE SkipMore(SkipValue(d, depth), depth)

Closed(close) == [ok |-> close.ok, d |-> close.d]
CloseAfter(rest, d) == IF rest.ok THEN Closed(Token(rest.d)) ELSE [ok |-> FALSE, d |-> d]

SkipFrom(r, depth) ==
  IF ~r.ok THEN [ok |-> FALSE, d |-> r.d]
  ELSE IF r.tok \notin {"{", "}", "[", "]"} THEN [ok |-> TRUE, d |-> r.d]
  ELSE IF r.tok \in {"}", "]"} THEN [ok |-> FALSE, d |-> r.d]
  ELSE CloseAfter(SkipRest(r.d, depth + 1), r.d)

SkipValue(d, depth) ==
  IF depth > DepthCap THEN [ok |-> FALSE, d |-> d] ELSE SkipFrom(Token(d), depth)

Drained(rest) == IF rest.ok THEN Token(rest.d).d ELSE rest.d
DrainContainer(d) == Drained(SkipRest(d, 0))

\* decodeScalar: a container leaf is drained and is no value; null is no value.
ScalarOf(r) ==
  IF r.ok /\ r.tok \in {"{", "["} THEN [res |-> NoField, d |-> DrainContainer(r.d)]
  ELSE [res |-> IF r.ok /\ r.tok \in Strings \cup Scalars THEN Field(r.tok) ELSE NoField, d |-> r.d]

DecodeScalar(d, depth) ==
  IF depth > DepthCap THEN [res |-> NoField, d |-> d] ELSE ScalarOf(Token(d))

\* Mutant: the first occurrence of a duplicate key wins.
FirstOccurrence(old, new) == IF old.found THEN old ELSE new

\* The last occurrence of a duplicate key wins, even when it is no value.
LastOccurrence(old, new) == new

RECURSIVE Descend(_, _, _), DescendObject(_, _, _, _), DescendArray(_, _, _, _, _)

\* The value at the requested key or index, resolved further along the path.
Resolved(d, segs, depth) ==
  IF depth = Len(segs) THEN DecodeScalar(d, depth) ELSE Descend(d, segs, depth + 1)

\* The closing delimiter; without it there is no field.
Ended(close, res) == [res |-> IF close.ok THEN res ELSE NoField, d |-> close.d]

TakeMember(hit, segs, depth, res) ==
  DescendObject(hit.d, segs, depth, LastOccurrence(res, hit.res))
PassMember(skip, segs, depth, res) ==
  IF skip.ok THEN DescendObject(skip.d, segs, depth, res) ELSE [res |-> NoField, d |-> skip.d]
Member(k, segs, depth, res) ==
  IF ~k.ok \/ k.tok \notin Strings THEN [res |-> NoField, d |-> k.d]
  ELSE IF k.tok = segs[depth].key THEN TakeMember(Resolved(k.d, segs, depth), segs, depth, res)
  ELSE PassMember(SkipValue(k.d, depth), segs, depth, res)

DescendObject(d, segs, depth, res) ==
  IF ~More(d) THEN Ended(Token(d), res) ELSE Member(Token(d), segs, depth, res)

TakeElement(hit, segs, depth, i) == DescendArray(hit.d, segs, depth, i + 1, hit.res)
PassElement(skip, segs, depth, i, res) ==
  IF skip.ok THEN DescendArray(skip.d, segs, depth, i + 1, res) ELSE [res |-> NoField, d |-> skip.d]

DescendArray(d, segs, depth, i, res) ==
  IF ~More(d) THEN Ended(Token(d), res)
  ELSE IF i = segs[depth].index THEN TakeElement(Resolved(d, segs, depth), segs, depth, i)
  ELSE PassElement(SkipValue(d, depth), segs, depth, i, res)

\* descend, with segs[depth] counted from 1.
DescendInto(r, segs, depth) ==
  IF ~r.ok \/ r.tok \notin {"{", "["} THEN [res |-> NoField, d |-> r.d]
  ELSE IF segs[depth].isIndex # (r.tok = "[") THEN [res |-> NoField, d |-> DrainContainer(r.d)]
  ELSE IF r.tok = "{" THEN DescendObject(r.d, segs, depth, NoField)
  ELSE DescendArray(r.d, segs, depth, 0, NoField)

Descend(d, segs, depth) == DescendInto(Token(d), segs, depth)

ResolveJSONField(doc, segs) ==
  IF Len(doc) > SizeCap \/ segs = << >> \/ ~JSONDocDepthValid(doc) THEN NoField
  ELSE Descend(NewDecoder(doc), segs, 1).res

\* decodeJSONCookieValue: all escapes are decoded, or, when one is invalid, none.
DecodeJSONCookieValue(raw) ==
  IF "%z" \in Range(raw) THEN raw
  ELSE [i \in DOMAIN raw |-> CASE raw[i] = "%{" -> "{" [] raw[i] = "%a" -> "a" [] OTHER -> raw[i]]

\* jsonMatch: presence, or the scalar equals one of the listed values.
Accepted(res, present, values) == present /\ res.found /\ (values = {} \/ res.value \in values)

JSONMatch(raw, present, segs, values) ==
  Accepted(ResolveJSONField(DecodeJSONCookieValue(raw), segs), present, values)

-----------------------------------------------------------------------------
(* Reference: parse the whole document into a tree, then look the path up. *)

Bad == [ok |-> FALSE, v |-> [k |-> "bad"], p |-> 0, depth |-> 0]

Max2(a, b) == IF a > b THEN a ELSE b

RECURSIVE ParseValue(_, _), ParseMembers(_, _, _, _)
\* Members of the container opened before p, up to its closing delimiter.
ParseMembers(doc, p, close, acc) ==
  IF p > Len(doc) THEN Bad
  ELSE IF doc[p] = close THEN [ok |-> TRUE, v |-> acc, p |-> p + 1, depth |-> acc.depth]
  ELSE LET named == close = "}"
           x == ParseValue(doc, IF named THEN p + 1 ELSE p)
           name == IF named THEN doc[p] ELSE ""
       IN IF (named /\ doc[p] \notin Strings) \/ ~x.ok THEN Bad
          ELSE ParseMembers(doc, x.p, close,
                 [acc EXCEPT !.m = Append(@, <<name, x.v>>), !.depth = Max2(@, x.depth)])

ParseValue(doc, p) ==
  IF p > Len(doc) THEN Bad
  ELSE IF doc[p] \in {"{", "["}
  THEN LET c == IF doc[p] = "{" THEN "}" ELSE "]"
           x == ParseMembers(doc, p + 1, c, [k |-> c, m |-> << >>, depth |-> 0])
       IN [x EXCEPT !.depth = @ + 1]
  ELSE IF doc[p] \in Strings \cup Scalars \cup {"null"}
  THEN [ok |-> TRUE, v |-> [k |-> "scalar", t |-> doc[p]], p |-> p + 1, depth |-> 0]
  ELSE Bad

RECURSIVE Lookup(_, _)
Lookup(v, segs) ==
  IF segs = << >>
  THEN IF v.k = "scalar" /\ v.t # "null" THEN Field(v.t) ELSE NoField
  ELSE LET s == Head(segs)
           at == IF v.k = "scalar" \/ s.isIndex # (v.k = "]") THEN {}
                 ELSE IF s.isIndex THEN {i \in DOMAIN v.m : i = s.index + 1}
                 ELSE {i \in DOMAIN v.m : v.m[i][1] = s.key}
       IN IF at = {} THEN NoField
          ELSE Lookup(v.m[CHOOSE i \in at : \A j \in at : j <= i][2], Tail(segs))

Reference(doc, segs) ==
  LET x == ParseValue(doc, 1)
  IN IF x.ok /\ x.p = Len(doc) + 1 /\ x.depth <= DepthCap /\ Len(doc) <= SizeCap /\ segs # << >>
     THEN Lookup(x.v, segs) ELSE NoField

\* The streaming decoder answers as a whole-document parse would: the field a
\* strict parser finds (the last of duplicate keys, by value and not by raw
\* escape), and nothing for a document that is malformed, truncated, followed by
\* more data or nested too deep, wherever in it that is.  It is what keeps the
\* server and the JavaScript edge in step (resolveJSONField, descend).
ResolvedAsParsed(raw, parts) ==
  \A segs \in {CompileJSONPath(parts)}, doc \in {DecodeJSONCookieValue(raw)} :
  \A want \in {Reference(doc, segs)} :
     /\ ResolveJSONField(doc, segs) = want
     /\ JSONMatch(raw, TRUE, segs, {}) = want.found
     /\ JSONMatch(raw, TRUE, segs, {"a", "1"}) = (want.found /\ want.value \in {"a", "1"})
     /\ CompileJSONPath(JSONPathString(segs)) = segs
=============================================================================
