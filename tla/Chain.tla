------------------------------- MODULE Chain -------------------------------
(* The fallback chain of origins (internal/origin/chain/chain.go) over the    *)
(* outcomes the concrete origins have (httporigin, s3origin, peerorigin and   *)
(* origin.go's error taxonomy).  Origins are 1..N, the first being primary;   *)
(* an origin is tried at most once, so its body is named by its number.       *)
EXTENDS Integers, FiniteSets

CONSTANTS N,            \* number of origins
          FallStatuses  \* the statuses of the fall-through predicate

VARIABLES
    i,          \* the origin being tried
    hasBody,    \* the request carries a body
    consumed,   \* the origins that read the request's body
    lastErr,    \* the error kept, an outcome, or NoOutcome
    lastNeg,    \* the origin whose negative response is held, 0 if none
    live,       \* origins whose response or error body is open
    result      \* what Fetch returned, or NoOutcome while it runs

vars == <<i, hasBody, consumed, lastErr, lastNeg, live, result>>

\* What one origin's Fetch returns: its kind, its status (0 without one), the
\* origin, and whether a live body comes with it.
Outcome(kind, status, o, body) == [kind |-> kind, status |-> status, from |-> o, body |-> body]
NoOutcome == Outcome("none", 0, 0, FALSE)

\* origin.StatusOf: ErrNotFound is 404, a StatusError its status, the rest 0.
StatusOf(out) == IF out.kind = "notfound" THEN 404 ELSE out.status

\* httporigin.Fetch: 200/206 and 3xx are positive, 404 and 410 a full-body
\* negative, another status an error with its live body, no answer an error.
HTTPOutcomes(o) ==
    {Outcome("positive", 200, o, TRUE), Outcome("positive", 304, o, TRUE),
     Outcome("negative", 404, o, TRUE), Outcome("status", 403, o, TRUE),
     Outcome("status", 503, o, TRUE), Outcome("transport", 0, o, FALSE)}

\* s3origin.Fetch: a write is refused with its body untouched, a missing key is
\* ErrNotFound, another status an error without a body.
S3Outcomes(o) ==
    IF hasBody THEN {Outcome("refused", 0, o, FALSE)}
    ELSE {Outcome("positive", 206, o, TRUE), Outcome("notfound", 0, o, FALSE),
          Outcome("status", 503, o, FALSE), Outcome("transport", 0, o, FALSE)}

\* PeerOrigin.Fetch: a request with a body, a bypass, a hop or a key of our own is
\* skipped untouched; a peer's negative is closed and becomes ErrNotFound.
PeerOutcomes(o) ==
    {Outcome("skip", 0, o, FALSE)} \cup
    (IF hasBody THEN {}
     ELSE {Outcome("positive", 200, o, TRUE), Outcome("notfound", 0, o, FALSE),
           Outcome("status", 503, o, TRUE), Outcome("transport", 0, o, FALSE)})

Init ==
    /\ i = 1 /\ hasBody \in BOOLEAN /\ consumed = {}
    /\ lastErr = NoOutcome /\ lastNeg = 0 /\ live = {} /\ result = NoOutcome

\* DefaultFallThrough, or the set given to WithFallThroughStatuses.
FallThrough(out) ==
    LET st == StatusOf(out)
    IN  st = 0 \/ st \in FallStatuses

\* The body a held error carries.
ErrBody(out) == IF out.body THEN {out.from} ELSE {}
\* The body of the negative response held, if any.
NegBody == IF lastNeg # 0 THEN {lastNeg} ELSE {}

\* The context is done before an origin is tried: nothing stays open.
ContextDone ==
    /\ result = NoOutcome /\ i <= N
    /\ live' = live \ (NegBody \cup ErrBody(lastErr))
    /\ result' = Outcome("context", 0, 0, FALSE)
    /\ UNCHANGED <<i, hasBody, consumed, lastErr, lastNeg>>

Returned(out, open) ==
    /\ result' = out /\ live' = open
    /\ UNCHANGED <<i, lastErr, lastNeg>>

\* A positive response: whatever was held is closed.
Positive(out) ==
    /\ out.kind = "positive"
    /\ Returned(out, (live \cup {out.from}) \ (NegBody \cup ErrBody(lastErr)))

\* A negative response: the answer of a request with a body; otherwise held in
\* place of what was held before, and the next origin is tried.
Negative(out) ==
    /\ out.kind = "negative"
    /\ \/ hasBody /\ Returned(out, (live \cup {out.from}) \ NegBody)
       \/ /\ ~hasBody
          /\ lastNeg' = out.from /\ lastErr' = NoOutcome /\ i' = i + 1
          /\ live' = (live \cup {out.from}) \ (NegBody \cup ErrBody(lastErr))
          /\ UNCHANGED result

\* ErrSkip: the request is untouched, the next origin is tried even for a write.
Skipped(out) ==
    /\ out.kind = "skip"
    /\ lastErr' = NoOutcome /\ i' = i + 1 /\ live' = live \ ErrBody(lastErr)
    /\ UNCHANGED <<lastNeg, result>>

\* Mutant: the error that is superseded keeps its body open.
KeepSuperseded == {}

\* CloseStatusErrBody(lastErr) when a new error supersedes it.
Superseded == ErrBody(lastErr)

\* Mutant: a write goes on to the next origin like a read.
StopsOnStatus(out) == ~FallThrough(out)

\* An error that ends the chain: the request has a body, or it is definitive.
Stops(out) == hasBody \/ ~FallThrough(out)

\* Another error: it supersedes the one kept and ends the chain or falls through.
Failed(out) ==
    LET open == (live \cup ErrBody(out)) \ Superseded
    IN  /\ out.kind \in {"status", "notfound", "transport", "refused"}
        /\ \/ /\ Stops(out) /\ result' = out /\ live' = open \ NegBody
              /\ lastErr' = out /\ UNCHANGED <<i, lastNeg>>
           \/ /\ ~Stops(out)
              /\ lastErr' = out /\ i' = i + 1 /\ live' = open
              /\ UNCHANGED <<lastNeg, result>>

\* The next origin is tried and answers.
Try(out) ==
    /\ result = NoOutcome /\ i <= N
    /\ consumed' = IF hasBody /\ out.kind \notin {"skip", "refused"}
                      THEN consumed \cup {i} ELSE consumed
    /\ Positive(out) \/ Negative(out) \/ Skipped(out) \/ Failed(out)
    /\ UNCHANGED hasBody

\* Every origin fell through: the negative response held, then the last error,
\* then ErrNotFound when all of them skipped.
Exhausted ==
    /\ result = NoOutcome /\ i > N
    /\ \/ /\ lastNeg # 0
          /\ result' = Outcome("negative", 404, lastNeg, TRUE)
          /\ live' = live \ ErrBody(lastErr)
       \/ /\ lastNeg = 0 /\ lastErr # NoOutcome
          /\ result' = lastErr /\ UNCHANGED live
       \/ /\ lastNeg = 0 /\ lastErr = NoOutcome
          /\ result' = Outcome("notfound", 0, 0, FALSE) /\ UNCHANGED live
    /\ UNCHANGED <<i, hasBody, consumed, lastErr, lastNeg>>

Next ==
    \/ ContextDone \/ Exhausted
    \/ \E out \in HTTPOutcomes(i) \cup S3Outcomes(i) \cup PeerOutcomes(i) : Try(out)

Spec == Init /\ [][Next]_vars /\ WF_vars(Next)
-----------------------------------------------------------------------------
(* Properties.                                                                *)

\* No body is leaked and none is closed under its holder: while Chain.Fetch runs,
\* the open bodies are those of the negative response and of the error it holds,
\* and afterwards the one of what it returned.
BodiesOwned ==
    live = IF result # NoOutcome THEN ErrBody(result) ELSE NegBody \cup ErrBody(lastErr)

\* A request body is read by at most one origin, and what the client gets is that
\* origin's answer: Chain.Fetch goes on only past an origin that declined the
\* request untouched.
BodyReadOnce ==
    /\ Cardinality(consumed) <= 1
    /\ (hasBody /\ result.kind \notin {"none", "context", "refused"} /\ result.from # 0)
        => consumed = {result.from}

\* A response held as the fallback answer is never lost to a later failure: once a
\* negative response is held, the caller gets it, a later answer that is definitive
\* or positive, or the context's error.
NegativeSurvives ==
    (lastNeg # 0 /\ result # NoOutcome) =>
        \/ result.kind \in {"positive", "negative", "context"}
        \/ ~FallThrough(result)
=============================================================================
