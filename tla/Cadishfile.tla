------------------------------ MODULE Cadishfile ------------------------------
(***************************************************************************)
(* The configuration language (internal/cadishfile): the lexer, the        *)
(* parser, the formatter behind `cadish fmt`, the quoter of generated text *)
(* and the expansion of environment variables.                             *)
(*                                                                         *)
(* A text is a sequence of characters.  "a" stands for any letter or       *)
(* digit, " " for blanks, "^" for a disallowed control character.  Of the  *)
(* forms an address may take, the dotted and the single-label host are     *)
(* modelled.                                                               *)
(***************************************************************************)
EXTENDS Integers, FiniteSets, SequencesExt

Control == {"^"}
Space == {" ", "\n"}
HostChars == {"a", "."}

Least(S) == CHOOSE i \in S : \A j \in S : i <= j
Has(text, c) == \E i \in DOMAIN text : text[i] = c

------------------------------------------------------------------------------
(* lex.go *)

Token(kind, text, quoted, blank, line) ==
    [kind |-> kind, text |-> text, quoted |-> quoted, blank |-> blank, line |-> line]

\* looksLikePlaceholder, scanPlaceholder: where the balanced run that opens at i closes,
\* if no space or control character comes before; 0 otherwise.
PlaceholderEnd(s, i) ==
    LET count(c, j) == Cardinality({k \in i..j : s[k] = c})
        closes == {j \in (i + 1)..Len(s) :
                     /\ count("{", j) = count("}", j)
                     /\ \A k \in i..j : s[k] \notin Space \union Control}
    IN  IF closes = {} THEN 0 ELSE Least(closes)

IsLineContinuation(s, i) == s[i] = "\\" /\ i < Len(s) /\ s[i + 1] = "\n"

\* lexWord: a word ends at a space, ";", "}", a brace that opens no placeholder, or a
\* continuation; every other character, backslashes and quotes included, is literal.
RECURSIVE WordEnd(_, _)
WordEnd(s, i) ==
    IF \/ i > Len(s)
       \/ s[i] \in Space \union Control \union {";", "}"}
       \/ IsLineContinuation(s, i)
       \/ s[i] = "{" /\ PlaceholderEnd(s, i) = 0
    THEN i
    ELSE WordEnd(s, IF s[i] = "{" THEN PlaceholderEnd(s, i) + 1 ELSE i + 1)

\* lexQuoted from the character after the opening quote: the text and the position after
\* the closing one, which is 0 for an unterminated string or a control character.
RECURSIVE Quoted(_, _, _)
Quoted(s, i, text) ==
    IF i > Len(s) \/ s[i] \in Control THEN [text |-> text, at |-> 0]
    ELSE IF s[i] = "\"" THEN [text |-> text, at |-> i + 1]
    ELSE IF s[i] # "\\" THEN Quoted(s, i + 1, Append(text, s[i]))
    ELSE IF i = Len(s) \/ s[i + 1] \in Control THEN [text |-> text, at |-> 0]
    ELSE IF s[i + 1] \in {"\"", "\\"} THEN Quoted(s, i + 2, Append(text, s[i + 1]))
    ELSE Quoted(s, i + 2, text \o <<"\\", s[i + 1]>>)

\* lexComment: to the end of the line, without trailing blanks.
CommentEnd(s, i) ==
    LET ends == {j \in i..Len(s) : s[j] \in {"\n"} \union Control}
    IN  IF ends = {} THEN Len(s) + 1 ELSE Least(ends)

RECURSIVE TrimRight(_, _)
TrimRight(text, c) == IF text # <<>> /\ Last(text) = c THEN TrimRight(Front(text), c) ELSE text

\* next, until the end of the input: start is atLineStart, blank whether pendingBlank is
\* positive.  A lexical error is a last token of kind "error".
RECURSIVE Lex(_, _, _, _)
Lex(s, i, start, blank) ==
    LET line == Cardinality({k \in 1..(i - 1) : s[k] = "\n"})
        took == start /\ blank
        tok(kind, text, quoted) == Token(kind, text, quoted, took, line)
        rest(j) == Lex(s, j, FALSE, blank /\ ~start)
        word == LET e == WordEnd(s, i) IN <<tok("word", SubSeq(s, i, e - 1), FALSE)>> \o rest(e)
    IN  IF i > Len(s) THEN <<tok("eof", <<>>, FALSE)>>
        ELSE CASE s[i] \in Control -> <<tok("error", <<>>, FALSE)>>
               [] s[i] = "\n" /\ start -> Lex(s, i + 1, TRUE, TRUE)
               [] s[i] = "\n" /\ ~start ->
                    <<Token("newline", <<>>, FALSE, FALSE, line)>> \o Lex(s, i + 1, TRUE, blank)
               [] s[i] = " " -> Lex(s, i + 1, start, blank)
               [] IsLineContinuation(s, i) -> Lex(s, i + 2, start, blank)
               [] s[i] = "#" ->
                    LET e == CommentEnd(s, i)
                    IN  <<tok("comment", TrimRight(SubSeq(s, i, e - 1), " "), FALSE)>> \o rest(e)
               [] s[i] = "{" /\ PlaceholderEnd(s, i) = 0 -> <<tok("open", <<>>, FALSE)>> \o rest(i + 1)
               [] s[i] = "}" -> <<tok("close", <<>>, FALSE)>> \o rest(i + 1)
               [] s[i] = ";" ->
                    <<Token("semicolon", <<>>, FALSE, FALSE, line)>> \o Lex(s, i + 1, FALSE, blank)
               [] s[i] = "\"" ->
                    LET q == Quoted(s, i + 1, <<>>)
                    IN  IF q.at = 0 THEN <<tok("error", <<>>, FALSE)>>
                        ELSE <<tok("word", q.text, TRUE)>> \o rest(q.at)
               [] OTHER -> word

Tokenize(s) == Lex(s, 1, TRUE, FALSE)

Lexes(toks) == Last(toks).kind # "error"

------------------------------------------------------------------------------
(* ast.go, format.go: what a word is, and how it is written *)

\* containsPlaceholder: an unescaped "{".
RECURSIVE ContainsFrom(_, _, _)
ContainsFrom(text, i, env) ==
    /\ i <= Len(text)
    /\ IF text[i] = "\\" THEN ContainsFrom(text, i + 2, env)
       ELSE \/ text[i] = "{" /\ (env => i < Len(text) /\ text[i + 1] = "$")
            \/ ContainsFrom(text, i + 1, env)

ContainsPlaceholder(text) == ContainsFrom(text, 1, FALSE)
ContainsEnvPlaceholder(text) == ContainsFrom(text, 1, TRUE)

StartsWith(text, c) == text # <<>> /\ text[1] = c

ClassifyArg(text, quoted) ==
    CASE quoted -> "literal"
      [] ~quoted /\ StartsWith(text, "@") /\ Len(text) > 1 -> "matcher-ref"
      [] OTHER -> IF ContainsPlaceholder(text) THEN "placeholder" ELSE "literal"

NeedsQuoting(text) ==
    \/ text = <<>>
    \/ Last(text) = "\\"
    \/ text[1] = "#"
    \/ \E i \in DOMAIN text : text[i] \in Space \union {"\"", ";"}

Quote(text) ==
    <<"\"">>
    \o FlattenSeq([i \in DOMAIN text |->
            IF text[i] \in {"\\", "\""} THEN <<"\\", text[i]>> ELSE <<text[i]>>])
    \o <<"\"">>

\* Mutant: braces are left bare, as in formatted source.
QuoteArgAsSource(text) == IF NeedsQuoting(text) THEN Quote(text) ELSE text

\* QuoteArg, for text generated from Kubernetes objects.
QuoteArg(text) ==
    IF NeedsQuoting(text) \/ Has(text, "{") \/ Has(text, "}") THEN Quote(text) ELSE text

------------------------------------------------------------------------------
(* parse.go *)

Failed == [ok |-> FALSE, at |-> 0, nodes |-> <<>>]
Parsed(nodes, at) == [ok |-> TRUE, at |-> at, nodes |-> nodes]

\* The first token at or after i whose kind is not among kinds; "eof" is never skipped.
Past(toks, i, kinds) == Least({j \in i..Len(toks) : toks[j].kind \notin kinds})

SkipSeparators(toks, i) == Past(toks, i, {"newline", "semicolon", "comment"})

Args(toks, i) ==
    [k \in 1..(Past(toks, i, {"word"}) - i) |->
        [raw |-> toks[i + k - 1].text,
         kind |-> ClassifyArg(toks[i + k - 1].text, toks[i + k - 1].quoted)]]

EndsStatement(t) == t.kind \in {"newline", "semicolon", "comment", "close", "eof"}

\* expectStatementEnd consumes a separator, not the "}" of the enclosing block.
AfterStatement(toks, i) == IF toks[i].kind \in {"close", "eof"} THEN i ELSE i + 1

IsRef(t) == ~t.quoted /\ StartsWith(t.text, "@")

Node(matcher, name, type, args, block) ==
    [matcher |-> matcher, name |-> name, type |-> type, args |-> args, block |-> block]

\* parseMatcherDef: "@name type arg...", without a block.
MatcherDef(toks, i) ==
    LET t == toks[i + 1]
        e == Past(toks, i + 2, {"word"})
    IN  IF /\ Len(toks[i].text) > 1
           /\ t.kind = "word" /\ ~t.quoted /\ ~StartsWith(t.text, "@")
           /\ ~ContainsPlaceholder(t.text) /\ ~NeedsQuoting(t.text)
           /\ EndsStatement(toks[e])
        THEN Parsed(<<Node(TRUE, Tail(toks[i].text), t.text, Args(toks, i + 2), <<>>)>>,
                    AfterStatement(toks, e))
        ELSE Failed

\* parseStatement, and the statements of a block (parseBlockBody) or of an imported
\* fragment (parseFragmentBody) up to the token that closes them.
RECURSIVE Statement(_, _)
RECURSIVE Body(_, _, _)
Statement(toks, i) ==
    LET e == Past(toks, i + 1, {"word"})
        dir(block) == Node(FALSE, toks[i].text, <<>>, Args(toks, i + 1), block)
        b == Body(toks, e + 1, "close")
    IN  IF toks[i].kind # "word" THEN Failed
        ELSE IF IsRef(toks[i]) THEN MatcherDef(toks, i)
        ELSE IF toks[e].kind # "open" THEN Parsed(<<dir(<<>>)>>, AfterStatement(toks, e))
        ELSE IF b.ok /\ EndsStatement(toks[b.at])
        THEN Parsed(<<dir(<<b.nodes>>)>>, AfterStatement(toks, b.at))
        ELSE Failed

Body(toks, i, closing) ==
    LET j == SkipSeparators(toks, i)
        first == Statement(toks, j)
        rest == Body(toks, first.at, closing)
    IN  IF toks[j].kind = closing THEN Parsed(<<>>, j + 1)
        ELSE IF first.ok /\ rest.ok THEN Parsed(first.nodes \o rest.nodes, rest.at)
        ELSE Failed

WithoutComma(text) == IF text # <<>> /\ Last(text) = "," THEN Front(text) ELSE text

\* isAddressToken, clearlyHostnameShaped
IsAddressToken(t) == ~t.quoted /\ \A i \in DOMAIN WithoutComma(t.text) : t.text[i] \in HostChars
ClearlyHostname(t) == IsAddressToken(t) /\ Has(t.text, ".")

\* startsSiteBlock: the words from i lead to a "{"; they cross a newline only while each
\* of them is an address that ends with a comma.
StartsSiteBlock(toks, i) ==
    LET listed(j) == \A k \in i..j : toks[k].kind = "word" =>
                        IsAddressToken(toks[k]) /\ toks[k].text # WithoutComma(toks[k].text)
        stops == {j \in i..Len(toks) : \/ toks[j].kind \in {"open", "semicolon", "close", "eof"}
                                       \/ toks[j].kind = "newline" /\ ~listed(j)}
    IN  ~(toks[i].kind = "word" /\ IsRef(toks[i])) /\ toks[Least(stops)].kind = "open"

\* unseparatedAddrWrap: addresses over several lines, some of them without a comma.
UnseparatedAddrWrap(toks, i) ==
    LET e == Past(toks, i, {"word", "newline", "semicolon", "comment"})
        words == {k \in i..e : toks[k].kind = "word"}
    IN  /\ toks[i].kind = "word" /\ ~IsRef(toks[i]) /\ ClearlyHostname(toks[i])
        /\ \A k \in words : IsAddressToken(toks[k])
        /\ toks[e].kind = "open"
        /\ \E k \in i..e : toks[k].kind \in {"newline", "semicolon"}
        /\ Cardinality({k \in words : ClearlyHostname(toks[k])}) >= 2

\* splitAddressToken
RECURSIVE TrimSpace(_)
TrimSpace(text) ==
    IF text # <<>> /\ text[1] \in Space THEN TrimSpace(Tail(text))
    ELSE IF text # <<>> /\ Last(text) \in Space THEN TrimSpace(Front(text)) ELSE text

RECURSIVE SplitAddress(_)
SplitAddress(text) ==
    LET cut == Least({i \in DOMAIN text : text[i] = ","})
        part == TrimSpace(SubSeq(text, 1, cut - 1))
    IN  IF ~Has(text, ",") THEN IF TrimSpace(text) = <<>> THEN <<>> ELSE <<TrimSpace(text)>>
        ELSE (IF part = <<>> THEN <<>> ELSE <<part>>) \o SplitAddress(SubSeq(text, cut + 1, Len(text)))

Addresses(text) == IF Has(text, ",") THEN SplitAddress(text) ELSE <<text>>

\* parseSite
Site(toks, i) ==
    LET open == Least({j \in i..Len(toks) : toks[j].kind = "open"})
        words == SelectSeq(SubSeq(toks, i, open - 1), LAMBDA t : t.kind = "word")
        addrs == FlattenSeq([k \in DOMAIN words |-> Addresses(words[k].text)])
        b == Body(toks, open + 1, "close")
    IN  IF addrs # <<>> /\ b.ok THEN Parsed(<<[addrs |-> addrs, body |-> b.nodes]>>, b.at)
        ELSE Failed

NoFile == [ok |-> FALSE, global |-> <<>>, sites |-> <<>>, body |-> <<>>]

\* parseFile after its global block: sites and top-level statements until the end.
RECURSIVE TopLevel(_, _, _)
TopLevel(toks, i, file) ==
    LET j == SkipSeparators(toks, i)
        site == Site(toks, j)
        stmt == Statement(toks, j)
    IN  IF toks[j].kind = "eof" THEN file
        ELSE IF toks[j].kind = "close" THEN NoFile
        ELSE IF StartsSiteBlock(toks, j)
        THEN IF site.ok THEN TopLevel(toks, site.at, [file EXCEPT !.sites = @ \o site.nodes]) ELSE NoFile
        ELSE IF UnseparatedAddrWrap(toks, j) THEN NoFile
        ELSE IF stmt.ok THEN TopLevel(toks, stmt.at, [file EXCEPT !.body = @ \o stmt.nodes])
        ELSE NoFile

ParseTokens(toks) ==
    LET i == SkipSeparators(toks, 1)
        g == Body(toks, i + 1, "close")
        empty == [NoFile EXCEPT !.ok = TRUE]
    IN  IF ~Lexes(toks) THEN NoFile
        ELSE IF toks[i].kind # "open" THEN TopLevel(toks, i, empty)
        ELSE IF g.ok THEN TopLevel(toks, g.at, [empty EXCEPT !.global = <<g.nodes>>]) ELSE NoFile

Parse(s) == ParseTokens(Tokenize(s))

------------------------------------------------------------------------------
(* format.go *)

FormatWord(t) == IF t.quoted \/ NeedsQuoting(t.text) THEN Quote(t.text) ELSE t.text

NewlineIfNeeded(st) ==
    IF st.start THEN st ELSE [st EXCEPT !.out = Append(@, "\n"), !.start = TRUE]

\* startLine or a separating space, then the text.  One space stands for the indent unit.
Write(st, text) ==
    LET line == (IF st.blank /\ st.wrote THEN <<"\n">> ELSE <<>>)
                \o [k \in 1..st.depth |-> " "]
    IN  IF ~st.start THEN [st EXCEPT !.out = Append(@, " ") \o text]
        ELSE [st EXCEPT !.out = @ \o line \o text,
                        !.blank = FALSE, !.start = FALSE, !.wrote = TRUE]

\* trailingCommentAfter: a comment on the brace's line stays with the brace.
TrailingComment(toks, i) == toks[i + 1].kind = "comment" /\ toks[i + 1].line = toks[i].line

WriteBrace(toks, i, st, brace) ==
    LET c == TrailingComment(toks, i)
        text == <<brace>> \o IF c THEN <<" ">> \o toks[i + 1].text ELSE <<>>
    IN  [NewlineIfNeeded(Write(st, text)) EXCEPT !.skip = c]

\* Mutant: an empty statement at the top of a block ends the suppression.
SuppressUntilToken(t, st) == st.suppress /\ t.kind = "newline"

\* No blank line at the top of a block until something is written there.
KeepSuppressed(t, st) ==
    st.suppress /\ (t.kind = "newline" \/ (t.kind = "semicolon" /\ st.start))

\* One turn of Format's loop.
Emit(toks, st, i) ==
    LET t == toks[i]
        b == [st EXCEPT !.blank = @ \/ (t.blank /\ st.start /\ ~st.suppress),
                        !.suppress = KeepSuppressed(t, st)]
        closing == [NewlineIfNeeded(b) EXCEPT !.depth = IF @ > 0 THEN @ - 1 ELSE 0, !.blank = FALSE]
    IN  IF st.skip THEN [st EXCEPT !.skip = FALSE]
        ELSE CASE t.kind = "eof" -> b
               [] t.kind \in {"newline", "semicolon"} -> NewlineIfNeeded(b)
               [] t.kind = "comment" -> NewlineIfNeeded(Write(b, t.text))
               [] t.kind = "open" -> [WriteBrace(toks, i, b, "{") EXCEPT
                                        !.depth = @ + 1, !.blank = FALSE, !.suppress = TRUE]
               [] t.kind = "close" -> WriteBrace(toks, i, closing, "}")
               [] t.kind = "word" -> Write(b, FormatWord(t))

FormatTokens(toks) ==
    LET init == [out |-> <<>>, depth |-> 0, start |-> TRUE, wrote |-> FALSE,
                 blank |-> FALSE, suppress |-> FALSE, skip |-> FALSE]
        end == FoldLeft(LAMBDA st, i : Emit(toks, st, i), init, [i \in DOMAIN toks |-> i])
        out == TrimRight(end.out, "\n")
    IN  IF out = <<>> THEN <<>> ELSE Append(out, "\n")

------------------------------------------------------------------------------
(* env.go *)

\* expandEnv, for a variable whose value is the text value.
RECURSIVE ExpandEnv(_, _)
ExpandEnv(text, value) ==
    LET closes == {j \in DOMAIN text : text[j] = "}"}
        end == Least(closes)
    IN  IF text = <<>> THEN <<>>
        ELSE IF text[1] = "\\" /\ Len(text) > 1
        THEN SubSeq(text, 1, 2) \o ExpandEnv(SubSeq(text, 3, Len(text)), value)
        ELSE IF text[1] # "{" THEN <<text[1]>> \o ExpandEnv(Tail(text), value)
        ELSE IF closes = {} THEN text
        ELSE (IF end > 2 /\ text[2] = "$" THEN value ELSE SubSeq(text, 1, end))
             \o ExpandEnv(SubSeq(text, end + 1, Len(text)), value)

\* substituteArg: an unquoted placeholder, or a quoted text with "{$" in it.
SubstituteArg(t, value) ==
    IF \/ ClassifyArg(t.text, t.quoted) = "placeholder"
       \/ t.quoted /\ \E i \in 1..(Len(t.text) - 1) : t.text[i] = "{" /\ t.text[i + 1] = "$"
    THEN ExpandEnv(t.text, value) ELSE t.text

------------------------------------------------------------------------------
(* What the package promises *)

\* What Format does change: a bare reference or placeholder that it has to quote becomes a
\* literal, and the newline that it writes for the ";" after an address with a trailing
\* comma continues the address list, where the ";" ended the statement.
Requoted(t) == ~t.quoted /\ NeedsQuoting(t.text) /\ ClassifyArg(t.text, FALSE) # "literal"
Rejoined(toks, i) ==
    /\ IsAddressToken(toks[i]) /\ toks[i].text # WithoutComma(toks[i].text)
    /\ toks[i + 1].kind = "semicolon"
Plain(toks) ==
    \A i \in DOMAIN toks : toks[i].kind = "word" => ~Requoted(toks[i]) /\ ~Rejoined(toks, i)

\* Formatting a text that parses gives one that parses and that formatting leaves alone,
\* and a text with nothing requoted or rejoined keeps its sites, statements, blocks and
\* arguments.
FormatSound(s) ==
    \A toks \in {Tokenize(s)} :
    \A file \in {ParseTokens(toks)} : file.ok =>
        \A out \in {FormatTokens(toks)} :
        \A again \in {Tokenize(out)} :
            /\ ParseTokens(again).ok
            /\ FormatTokens(again) = out
            /\ Plain(toks) => ParseTokens(again) = file

\* A generated statement `x value`, closed by a brace, keeps the value as its only argument
\* and the brace as its end, and no environment variable is expanded in it, for every
\* value that ContainsEnvPlaceholder lets through.
QuotedArgExact(v) ==
    \A toks \in {Tokenize(<<"a", " ">> \o QuoteArg(v) \o <<"\n", "}">>)} :
        (\A i \in DOMAIN v : v[i] \notin Control) /\ ~ContainsEnvPlaceholder(v) =>
            /\ [i \in DOMAIN toks |-> toks[i].kind] = <<"word", "word", "newline", "close", "eof">>
            /\ toks[2].text = v
            /\ SubstituteArg(toks[2], <<"a", " ", "a">>) = v

===============================================================================
