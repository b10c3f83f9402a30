------------------------------- MODULE Serve -------------------------------
(* The request lifecycle (internal/server/handler.go, tee.go): gates, lookup, *)
(* coalesced origin fetch, serve-and-cache, serve-stale with background       *)
(* revalidation, stale-on-error, negative caching, hit-for-miss, purge and    *)
(* the invalidation an unsafe method causes, for many requests at once.       *)
(*                                                                            *)
(* One resource: its GET entry, and the entry of an unsafe method on it,      *)
(* which are the same when the site's cache_key drops the method.  The        *)
(* coalescer is Coalesce; the store is a map that may evict, and may refuse a *)
(* commit (Store, RAMTier, DiskTier); of the freshness index only where in    *)
(* its windows an entry is (Freshness).  A fetch is named by its request and  *)
(* whether it is the foreground or the background one; a copy by its fetch.   *)
EXTENDS Integers, FiniteSets, TLC

CONSTANTS Requests, None, BgCap,
          Kinds,        \* the requests that come
          Answers,      \* what the origin may answer
          Methodless,   \* the cache key does not contain the method
          MayRefuse,    \* a commit may return nil without storing
          MaxVersion    \* bound: changes of the resource at the origin

ASSUME ServeAssumptions ==
    /\ Kinds \subseteq {"get", "range", "head", "nocache", "write", "nocacheWrite", "pass", "purge", "gated"}
    /\ Answers \subseteq {"ok", "nostore", "hfm", "neg", "fail", "failNeg", "failHfm"}
    /\ None \notin Requests /\ None \notin Requests \X {"fg", "bg"}
    /\ IsFiniteSet(Requests) /\ BgCap \in Nat \ {0}
    /\ Methodless \in BOOLEAN /\ MayRefuse \in BOOLEAN /\ MaxVersion \in Nat

\* The requests are alike.
ServeSymmetry == Permutations(Requests)

VARIABLES
    calls, closed, succeeded, role, key, call, inFlight, sem, bg,  \* Coalesce
    object,     \* the copy the store has under each key, or None
    marker,     \* the freshness entry of each key
    version,    \* the state of the resource at the origin
    kind,       \* what each request is
    state,      \* what classify told it
    pc, got,    \* the fetches: where each is, what the origin answered it
    reply,      \* what each client was sent
    doomed, seen,     \* history: copies invalidated so far; when a request came
    written, floor,   \* history: last invalidating write; the one before a request
    forgot            \* history: the writes that invalidated

coalesceVars == <<calls, closed, succeeded, role, key, call, inFlight, sem, bg>>
history == <<doomed, seen, written, floor, forgot>>
vars == <<calls, closed, succeeded, role, key, call, inFlight, sem, bg, object, marker, version,
          kind, state, pc, got, reply, doomed, seen, written, floor, forgot>>

Keys == {"get", "post"}
Fetches == Requests \X {"fg", "bg"}

C == INSTANCE Coalesce WITH FetchKeys <- Keys, NoCall <- None

Fg(r) == <<r, "fg">>
Bg(r) == <<r, "bg">>
Unsafe(r) == kind[r] \in {"write", "nocacheWrite"}
KeyOf(k) == IF k \in {"write", "nocacheWrite"} /\ ~Methodless THEN "post" ELSE "get"

Goto(f, label) == pc' = [pc EXCEPT ![f] = label]
Reply(r, from, by) == reply' = [reply EXCEPT ![r] = [from |-> from, by |-> by]]
Mark(k, s, fallback) == marker' = [marker EXCEPT ![k] = [at |-> s, fallback |-> fallback]]

Init ==
    /\ kind \in [Requests -> Kinds]
    /\ key = [r \in Requests |-> KeyOf(kind[r])]
    /\ C!CoalesceInit
    /\ object = [k \in Keys |-> None]
    /\ marker = [k \in Keys |-> [at |-> "none", fallback |-> FALSE]]
    /\ version = 0
    /\ state = [r \in Requests |-> "none"]
    /\ pc = [f \in Fetches |-> "idle"]
    /\ got = [f \in Fetches |-> [ans |-> "none", version |-> 0, whole |-> TRUE]]
    /\ reply = [r \in Requests |-> [from |-> "none", by |-> None]]
    /\ doomed = {} /\ seen = [r \in Requests |-> {}]
    /\ written = 0 /\ floor = [r \in Requests |-> 0] /\ forgot = {}
-----------------------------------------------------------------------------
(* Arrival.                                                                   *)

\* Mutant: the window alone decides, whatever the method.
RouteAnyMethod(kd, s) ==
    CASE kd = "pass" \/ s = "hfm" -> "origin"
      [] kd \in {"nocache", "nocacheWrite"} -> "miss"
      [] s \in {"fresh", "stale"} -> "cache"
      [] OTHER -> "miss"

\* Where ServeHTTP goes with a kind of request and its entry's window.
Route(kd, s) ==
    CASE kd = "pass" \/ s = "hfm" -> "origin"
      [] kd \in {"nocache", "nocacheWrite", "write"} -> "miss"
      [] kd \in {"get", "range", "head"} /\ s \in {"fresh", "stale"} -> "cache"
      [] OTHER -> "miss"

\* Mutant: an unsafe method forgets the entry of its own key.
OwnKey == "post"

\* siblingGetKey.
ForgottenKey == "get"

\* No fetch that has stored has still to mark its key or to release its waiters.
Settled == \A f \in Fetches : pc[f] \notin {"mark", "succeeded"}

\* The entry of the GET goes; the copy it described must not be served again,
\* unless another fetch is about to announce the key.
Invalidate ==
    /\ Mark(ForgottenKey, "none", FALSE)
    /\ doomed' = IF object["get"] # None /\ Settled THEN doomed \cup {object["get"]} ELSE doomed

Arrives(r) ==
    /\ pc[Fg(r)] = "idle"
    /\ seen' = [seen EXCEPT ![r] = doomed]
    /\ floor' = [floor EXCEPT ![r] = written]

\* Security, rate limit, respond, redirect, upgrade, another node's object: the
\* request never reaches the lookup.
Gated(r) ==
    /\ kind[r] = "gated" /\ Arrives(r)
    /\ Goto(Fg(r), "done") /\ Reply(r, "gate", None)
    /\ UNCHANGED <<coalesceVars, object, marker, version, kind, state, got, doomed, written, forgot>>

\* purge of the request's own key.
Purge(r) ==
    /\ kind[r] = "purge" /\ Arrives(r)
    /\ Invalidate
    /\ Goto(Fg(r), "done") /\ Reply(r, "purged", None)
    /\ UNCHANGED <<coalesceVars, object, version, kind, state, got, written, forgot>>

\* classify, and the branch taken on it; pass does not look.
Lookup(r) ==
    LET s == IF kind[r] = "pass" THEN "none" ELSE marker[key[r]].at
    IN  /\ kind[r] \notin {"gated", "purge"} /\ Arrives(r)
        /\ state' = [state EXCEPT ![r] = s]
        /\ Goto(Fg(r), Route(kind[r], s))
        /\ UNCHANGED <<coalesceVars, object, marker, version, kind, got, reply, doomed, written, forgot>>
-----------------------------------------------------------------------------
(* Serving from the cache, and going to the origin together.                  *)

\* serveFromCache: the copy there now, whichever it is.
Serve(r) == object[key[r]] # None /\ Reply(r, "cache", object[key[r]])

Hit(r) ==
    /\ pc[Fg(r)] = "cache"
    /\ Serve(r)
    /\ Goto(Fg(r), IF state[r] = "stale" THEN "trigger" ELSE "done")
    /\ UNCHANGED <<coalesceVars, object, marker, version, kind, state, got, history>>

\* Evicted, or in an encoding this client does not accept.
NoHit(r) ==
    /\ pc[Fg(r)] = "cache"
    /\ Goto(Fg(r), "miss")
    /\ UNCHANGED <<coalesceVars, object, marker, version, kind, state, got, reply, history>>

\* serveMiss: plain GETs of a key go together, others on their own.
Coalescable(r) == kind[r] \in {"get", "nocache"}

Miss(r) ==
    /\ pc[Fg(r)] = "miss"
    /\ \/ Coalescable(r) /\ C!Enter(r)
       \/ ~Coalescable(r) /\ UNCHANGED coalesceVars
    /\ Goto(Fg(r), IF role'[r] = "waiter" THEN "wait" ELSE "origin")
    /\ UNCHANGED <<object, marker, version, kind, state, got, reply, history>>

Wake(r) ==
    /\ pc[Fg(r)] = "wait" /\ C!Wake(r)
    /\ Goto(Fg(r), IF role'[r] = "reader" THEN "reread" ELSE "origin")
    /\ UNCHANGED <<object, marker, version, kind, state, got, reply, history>>

\* A waiter's client goes away.
Gone(r) ==
    /\ pc[Fg(r)] = "wait" /\ C!Cancel(r)
    /\ Goto(Fg(r), "done") /\ Reply(r, "gone", None)
    /\ UNCHANGED <<object, marker, version, kind, state, got, history>>

\* The winner succeeded: its object is in the cache, or not (any more).
Reread(r) ==
    /\ pc[Fg(r)] = "reread"
    /\ \/ Serve(r) /\ C!Leave(r) /\ Goto(Fg(r), "done")
       \/ C!FallThrough(r) /\ Goto(Fg(r), "origin") /\ UNCHANGED reply
    /\ UNCHANGED <<object, marker, version, kind, state, got, history>>
-----------------------------------------------------------------------------
(* One origin fetch, foreground or background.                                *)

Failures == {"fail", "failNeg", "failHfm"}
Success == {"ok", "nostore", "hfm"}

\* What a write does to the resource: a success has landed, a failure may have.
Lands(f, a) ==
    IF ~Unsafe(f[1]) THEN {0} ELSE IF a \in Success THEN {1} ELSE {0, 1}

\* Fetch returns.
Origin(f) ==
    /\ pc[f] = "origin"
    /\ \E a \in Answers, d \in 0..1 :
         /\ d \in Lands(f, a) /\ version + d <= MaxVersion
         /\ version' = version + d
         /\ got' = [got EXCEPT ![f] = [ans |-> a, version |-> version + d, whole |-> TRUE]]
         /\ Goto(f, IF f[2] = "fg" /\ a \in Failures \cup {"neg"} THEN "fallback" ELSE "decide")
    /\ UNCHANGED <<coalesceVars, object, marker, kind, state, reply, history>>

\* staleWithin: the last good copy, if the entry is in its max_stale window.
Fallback(r) ==
    /\ pc[Fg(r)] = "fallback"
    /\ Goto(Fg(r), IF kind[r] # "pass" /\ marker[key[r]].at = "past" THEN "lastGood" ELSE "decide")
    /\ UNCHANGED <<coalesceVars, object, marker, version, kind, state, got, reply, history>>

LastGood(r) ==
    /\ pc[Fg(r)] = "lastGood"
    /\ \/ Serve(r) /\ Goto(Fg(r), "failed")
       \/ Goto(Fg(r), "decide") /\ UNCHANGED reply
    /\ UNCHANGED <<coalesceVars, object, marker, version, kind, state, got, history>>

\* doStore, and its counterparts in handleOriginError and revalidate: a cacheable
\* answer to a safe method, outside hit-for-miss; the tee of a HEAD is aborted.
\* A background fetch is a GET, and stores a full-body negative never.
Stores(f) ==
    LET r == f[1]
    IN  \/ f[2] = "bg" /\ got[f].ans \in {"ok", "failNeg"}
        \/ /\ f[2] = "fg" /\ kind[r] # "pass" /\ state[r] # "hfm" /\ ~Unsafe(r)
           /\ \/ got[f].ans = "failNeg"
              \/ got[f].ans \in {"ok", "neg"} /\ kind[r] # "head"

\* A response that says so starts a hit-for-miss window.
StartsHfm(f) ==
    \/ got[f].ans = "hfm" /\ (f[2] = "bg" \/ kind[f[1]] # "pass")
    \/ got[f].ans = "failHfm" /\ f[2] = "fg" /\ kind[f[1]] # "pass"

\* The verdict on the response, and the answer to the client.
Decide(f) ==
    /\ pc[f] = "decide"
    /\ IF StartsHfm(f) THEN Mark(key[f[1]], "hfm", FALSE) ELSE UNCHANGED marker
    /\ Goto(f, IF ~Stores(f) THEN "failed" ELSE IF got[f].ans = "failNeg" THEN "commit" ELSE "stream")
    /\ IF f[2] = "fg" THEN Reply(f[1], "origin", f) ELSE UNCHANGED reply
    /\ UNCHANGED <<coalesceVars, object, version, kind, state, got, history>>

\* Mutant: a body shorter than declared is committed like a whole one.
CommitsAnyway(declared, all, clean) == clean

\* tee.finish: no copy error, no write error, and the declared length if there is one.
Commits(declared, all, clean) == clean /\ (declared => all)

\* The body goes to the client and into the tier's writer, to its end or not.  One of
\* no declared length is taken to be whole when it ends without an error.
Stream(f) ==
    /\ pc[f] = "stream"
    /\ \E declared, all, clean \in BOOLEAN :
         /\ got' = [got EXCEPT ![f].whole = clean /\ (all \/ ~declared)]
         /\ Goto(f, IF Commits(declared, all, clean) THEN "commit" ELSE "failed")
    /\ UNCHANGED <<coalesceVars, object, marker, version, kind, state, reply, history>>

\* The mark that follows a refused commit is about the copy that is there already:
\* from here on that copy is announced like any other.
Announced(o) ==
    /\ doomed' = doomed \ {o}
    /\ seen' = [r \in Requests |-> seen[r] \ {o}]

\* Commit: stored, refused without an error, or failed.
Commit(f) ==
    /\ pc[f] = "commit"
    /\ \/ object' = [object EXCEPT ![key[f[1]]] = f] /\ Goto(f, "mark") /\ UNCHANGED <<doomed, seen>>
       \/ MayRefuse /\ Goto(f, "mark") /\ Announced(object[key[f[1]]]) /\ UNCHANGED object
       \/ Goto(f, "failed") /\ UNCHANGED <<object, doomed, seen>>
    /\ UNCHANGED <<coalesceVars, marker, version, kind, state, got, reply, written, floor, forgot>>

\* fresh.store; a bodyless negative entry has no max_stale window.
MarkFresh(f) ==
    /\ pc[f] = "mark"
    /\ Mark(key[f[1]], "fresh", got[f].ans # "failNeg")
    /\ Goto(f, "succeeded")
    /\ UNCHANGED <<coalesceVars, object, version, kind, state, got, reply, history>>

\* A panic in serveOrigin: recovered in ServeHTTP, after the winner's finish.
Panic(r) ==
    /\ pc[Fg(r)] \in {"origin", "fallback", "lastGood", "decide", "stream", "commit", "mark"}
    /\ Goto(Fg(r), "failed") /\ Reply(r, "panic", None)
    /\ UNCHANGED <<coalesceVars, object, marker, version, kind, state, got, history>>
-----------------------------------------------------------------------------
(* After the fetch.                                                           *)

\* The status sent was 2xx or 3xx.
Sent2xx(r) == reply[r].from \in {"origin", "cache"} /\ got[reply[r].by].ans \in Success

\* The unsafe-method branch of ServeHTTP, which the hit-for-miss and the
\* no-cache branches leave out.
Invalidates(r) == kind[r] = "write" /\ state[r] # "hfm" /\ Sent2xx(r)

\* serveOrigin returns: a winner's deferred finish, then what ServeHTTP does.
Finish(r) ==
    /\ pc[Fg(r)] \in {"succeeded", "failed"}
    /\ \/ role[r] = "winner" /\ C!Unregister(r, pc[Fg(r)] = "succeeded") /\ Goto(Fg(r), "close")
       \/ role[r] = "alone" /\ C!Leave(r) /\ Goto(Fg(r), "done")
       \/ /\ role[r] = "out" /\ UNCHANGED coalesceVars
          /\ Goto(Fg(r), IF Invalidates(r) THEN "forget" ELSE "done")
    /\ UNCHANGED <<object, marker, version, kind, state, got, reply, history>>

Close(r) ==
    /\ pc[Fg(r)] = "close" /\ C!Close(r)
    /\ Goto(Fg(r), "done")
    /\ UNCHANGED <<object, marker, version, kind, state, got, reply, history>>

\* forget(getKey) after a successful unsafe method.
Forget(r) ==
    /\ pc[Fg(r)] = "forget"
    /\ Invalidate
    /\ written' = IF got[Fg(r)].version > written THEN got[Fg(r)].version ELSE written
    /\ forgot' = forgot \cup {r}
    /\ Goto(Fg(r), "done")
    /\ UNCHANGED <<coalesceVars, object, version, kind, state, got, reply, seen, floor>>

\* triggerBgFetch, once the stale body is sent.
Trigger(r) ==
    /\ pc[Fg(r)] = "trigger" /\ C!Begin(r)
    /\ Goto(Fg(r), "done")
    /\ UNCHANGED <<object, marker, version, kind, state, got, reply, history>>

Launch(r) ==
    /\ C!Admit(r)
    /\ Goto(Bg(r), IF bg'[r] = "running" THEN "origin" ELSE "done")
    /\ UNCHANGED <<object, marker, version, kind, state, got, reply, history>>

\* revalidate returns, and its goroutine's defers run.
Revalidated(r) ==
    /\ pc[Bg(r)] \in {"succeeded", "failed"} /\ C!Revalidated(r)
    /\ Goto(Bg(r), "done")
    /\ UNCHANGED <<object, marker, version, kind, state, got, reply, history>>

Wind(r) ==
    /\ C!End(r) \/ C!Release(r)
    /\ UNCHANGED <<object, marker, version, kind, state, pc, got, reply, history>>
-----------------------------------------------------------------------------
(* The surroundings.                                                          *)

\* Mutant: a negative entry outlives its grace like any other.
OlderWithFallback(m) ==
    CASE m.at = "fresh" -> "stale" [] m.at = "stale" -> "past" [] OTHER -> "none"

\* The windows of an entry: TTL, grace, and max_stale if it has one.
Older(m) ==
    CASE m.at = "fresh" -> "stale"
      [] m.at = "stale" /\ m.fallback -> "past"
      [] OTHER -> "none"

Age(k) ==
    /\ marker[k].at # "none"
    /\ LET at == Older(marker[k]) IN Mark(k, at, at # "none" /\ marker[k].fallback)
    /\ UNCHANGED <<coalesceVars, object, version, kind, state, pc, got, reply, history>>

Evict(k) ==
    /\ object[k] # None
    /\ object' = [object EXCEPT ![k] = None]
    /\ UNCHANGED <<coalesceVars, marker, version, kind, state, pc, got, reply, history>>

\* The resource changes at the origin on its own.
Publish ==
    /\ version < MaxVersion
    /\ version' = version + 1
    /\ UNCHANGED <<coalesceVars, object, marker, kind, state, pc, got, reply, history>>

Fetch(f) == Origin(f) \/ Decide(f) \/ Stream(f) \/ Commit(f) \/ MarkFresh(f)

Progress(r) ==
    \/ Hit(r) \/ NoHit(r) \/ Miss(r) \/ Wake(r) \/ Reread(r)
    \/ Fallback(r) \/ LastGood(r) \/ Fetch(Fg(r)) \/ Finish(r) \/ Close(r) \/ Forget(r)

Background(r) == Trigger(r) \/ Launch(r) \/ Fetch(Bg(r)) \/ Revalidated(r) \/ Wind(r)

Next ==
    \/ \E r \in Requests : \/ Gated(r) \/ Purge(r) \/ Lookup(r) \/ Gone(r) \/ Panic(r)
                           \/ Progress(r) \/ Background(r)
    \/ \E k \in Keys : Age(k) \/ Evict(k)
    \/ Publish

Spec == Init /\ [][Next]_vars

\* An answer is on its way to the client of r, at the pace at which the client reads:
\* beside the store, without it, or after it.  There is no write deadline.
Sending(r) ==
    \/ pc[Fg(r)] = "stream"
    \/ /\ pc[Fg(r)] \in {"succeeded", "failed"} /\ got[Fg(r)].whole
       /\ reply[r].from \in {"origin", "cache"}

\* Goroutines run and origin calls end.  Nothing says that requests come, that clients
\* read or leave, that entries age or copies are evicted.
FairSpec ==
    Spec /\ \A r \in Requests : WF_vars(Progress(r) /\ ~Sending(r)) /\ WF_vars(Background(r))
-----------------------------------------------------------------------------
(* Properties.                                                                *)

Labels == {"idle", "cache", "trigger", "miss", "wait", "reread", "origin", "fallback", "lastGood", "decide",
           "stream", "commit", "mark", "succeeded", "failed", "close", "forget", "done"}

\* Every variable has the type its declaration gives it; only an entry with a
\* max_stale window is ever in it.
TypeOK ==
    /\ C!CoalesceTypeOK
    /\ object \in [Keys -> Fetches \cup {None}]
    /\ marker \in [Keys -> [at : {"none", "fresh", "stale", "past", "hfm"}, fallback : BOOLEAN]]
    /\ \A k \in Keys : marker[k].at = "past" => marker[k].fallback
    /\ version \in 0..MaxVersion /\ written \in 0..MaxVersion
    /\ pc \in [Fetches -> Labels]
    /\ reply \in [Requests -> [from : {"none", "gate", "purged", "cache", "origin", "gone", "panic"},
                               by : Fetches \cup {None}]]

\* What the store holds can be served to anybody: it is the whole body of a
\* cacheable answer to a safe method that was neither passed nor sent past the
\* cache by a hit-for-miss window, however transfers break off and panics fall.
OnlyWholeAndShared ==
    \A k \in Keys : object[k] # None =>
        LET f == object[k] IN
        /\ got[f].whole /\ got[f].ans \in {"ok", "neg", "failNeg"}
        /\ f[2] = "fg" => ~Unsafe(f[1]) /\ kind[f[1]] # "pass" /\ state[f[1]] # "hfm"

\* The state a request leaves behind is sound: types, and nothing in the store that
\* may not be served to anybody (the tee, Commit, serveOrigin's gates).
CacheShareable == TypeOK /\ OnlyWholeAndShared

\* Invalidation (purge, or a successful unsafe method) sticks although it removes
\* the freshness entry only and leaves the copy: a request that comes later is
\* never answered with a copy that was there when the entry was dropped, neither
\* as a hit, nor stale, nor on an origin error, nor as a waiter.  Two things undo it,
\* and only these: a fetch that had stored and not yet marked its key, and a commit
\* that is refused without an error and marks the key all the same (README, Known
\* limits).
InvalidatedNotServed ==
    \A r \in Requests : reply[r].from = "cache" => reply[r].by \notin seen[r]

\* What the comment at the unsafe-method branch says: a successful response to
\* an unsafe method invalidates the GET entry of its URI.
SuccessfulWriteInvalidates ==
    \A r \in Requests : pc[Fg(r)] = "done" /\ Unsafe(r) /\ Sent2xx(r) => r \in forgot

\* A write always reaches the origin: it is never answered from the cache unless
\* its own fetch failed (or was a 404) first, also when the cache key drops the method and the
\* GET entry is fresh, stale or being fetched by others.
WritesReachOrigin ==
    \A r \in Requests : Unsafe(r) /\ reply[r].from = "cache" => got[Fg(r)].ans \in Failures \cup {"neg"}

\* What a write and an invalidation promise together: the write goes to the origin,
\* and what was invalidated before a request came is not served to it.
WritesAndPurgesHold == WritesReachOrigin /\ InvalidatedNotServed

\* What the comments at the two unsafe-method guards say: stored responses are
\* served to safe methods only, so the client of a write learns what became of it.
\* (Refuted when the cache key has no method: README, Known limits.)
WritesAnsweredByOrigin ==
    \A r \in Requests : Unsafe(r) => reply[r].from # "cache"

\* What the comment of the coalescer says: a waiter reads from the cache what
\* its winner put there; if it is not there (too big), it fetches for itself.
\* (Refuted by a refused commit: README, Known limits.)
WaitersGetTheWinnersCopy ==
    \A r \in Requests : (reply[r].from = "cache" /\ call[r] # None /\ call[r] # r) =>
        got[reply[r].by].version >= got[Fg(call[r])].version

\* What the comment at the invalidation says: the next GET after a successful
\* write gets the representation after the write.  (Refuted by a fetch that began
\* before the write: README, Known limits.)
AfterWriteFresh ==
    \A r \in Requests : reply[r].from = "cache" => got[reply[r].by].version >= floor[r]

\* A client that is being sent an answer goes on reading it, or leaves.
ClientsRead == \A r \in Requests : []<>~Sending(r)

\* If clients go on reading or leave, every request that came is answered, whatever
\* becomes of winners, copies and origins (serveMiss, serveOrigin).  A winner's client
\* that stops reading holds its waiters for as long as it likes.
Answered == ClientsRead => \A r \in Requests : pc[Fg(r)] # "idle" ~> reply[r].from # "none"
=============================================================================
