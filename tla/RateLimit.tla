----------------------------- MODULE RateLimit -----------------------------
(***************************************************************************)
(* The token-bucket limiter (internal/ratelimit/limiter.go), one shard.     *)
(* A request reads the clock before it takes the shard's lock, so requests  *)
(* may be admitted with clock readings out of order; the sweeper drops idle *)
(* buckets and a full shard drops its oldest.                               *)
(*                                                                          *)
(* Tokens are counted in parts: a request costs Token parts and a bucket    *)
(* gains Rate parts per tick.                                               *)
(***************************************************************************)
EXTENDS Integers, FiniteSets

CONSTANTS Keys, Requests, Token, Rate, Burst, IdleTTL, MaxBuckets, MaxTime, MaxRequests

VARIABLES
    now,
    buckets,   \* key -> NoBucket or [tokens, lastFill, lastSeen]
    req,       \* request -> [pc, key, clock]
    asked,     \* requests made
    ledger,    \* key -> [since, admitted]: admissions of the current bucket
    hint,      \* key -> when its last throttled request was told to retry, or 0
    swept      \* the buckets the last step swept, as they were
vars == <<now, buckets, req, asked, ledger, hint, swept>>

NoBucket == [tokens |-> -1, lastFill |-> 0, lastSeen |-> 0]

\* Rule.capacity, in parts: at least one token.
Capacity == Token * (IF Burst < 1 THEN 1 ELSE Burst)

Live == {k \in Keys : buckets[k] # NoBucket}

\* evictOldestLocked: keep the target most recently seen, and the ones that are
\* as recent as the oldest of those.
Keep(target) ==
    {k \in Live : Cardinality({j \in Live : buckets[j].lastSeen > buckets[k].lastSeen}) < target}

Evict(target) == [k \in Keys |-> IF k \in Live /\ k \notin Keep(target) THEN NoBucket ELSE buckets[k]]

MinOf(a, b) == IF a < b THEN a ELSE b

\* Mutant: an out-of-order clock moves the fill time back.
FillAny(b, t) == [b EXCEPT !.tokens = IF t > b.lastFill THEN MinOf(Capacity, @ + Rate * (t - b.lastFill)) ELSE @,
                           !.lastFill = t]
\* Refill for the time that passed; a clock behind the last fill adds nothing.
Refill(b, t) ==
    IF t > b.lastFill
      THEN [b EXCEPT !.tokens = MinOf(Capacity, @ + Rate * (t - b.lastFill)), !.lastFill = t]
      ELSE b

\* Ticks until the bucket holds a token.
RetryAfter(b) == (Token - b.tokens + Rate - 1) \div Rate

----------------------------------------------------------------------------
ReadClock(q) ==
    /\ req[q].pc = "idle" /\ asked < MaxRequests
    /\ asked' = asked + 1
    /\ \E k \in Keys : req' = [req EXCEPT ![q] = [pc |-> "clocked", key |-> k, clock |-> now]]
    /\ swept' = {}
    /\ UNCHANGED <<now, buckets, ledger, hint>>

\* Allow, under the shard's lock.
Allow(q) ==
    LET k   == req[q].key
        t   == req[q].clock
        new == buckets[k] = NoBucket
        bs  == IF new /\ Cardinality(Live) >= MaxBuckets THEN Evict((MaxBuckets * 7) \div 8) ELSE buckets
        b   == IF new THEN [tokens |-> Capacity, lastFill |-> t, lastSeen |-> t]
               ELSE [Refill(buckets[k], t) EXCEPT !.lastSeen = t]
        ok  == b.tokens >= Token
    IN  /\ req[q].pc = "clocked"
        /\ buckets' = [bs EXCEPT ![k] = IF ok THEN [b EXCEPT !.tokens = @ - Token] ELSE b]
        /\ ledger' = [ledger EXCEPT ![k] =
               [since |-> IF new THEN t ELSE @.since,
                admitted |-> (IF new THEN 0 ELSE @.admitted) + (IF ok THEN 1 ELSE 0)]]
        /\ hint' = [hint EXCEPT ![k] = IF ok THEN 0 ELSE now + RetryAfter(b)]
        /\ req' = [req EXCEPT ![q].pc = "idle"]
        /\ swept' = {}
        /\ UNCHANGED <<now, asked>>

\* sweep: drop the buckets not seen for longer than the idle time.
Sweep ==
    /\ \E k \in Live : buckets[k].lastSeen < now - IdleTTL
    /\ swept' = {buckets[k] : k \in {j \in Live : buckets[j].lastSeen < now - IdleTTL}}
    /\ buckets' = [k \in Keys |-> IF buckets[k].lastSeen < now - IdleTTL THEN NoBucket ELSE buckets[k]]
    /\ UNCHANGED <<now, req, asked, ledger, hint>>

Tick ==
    /\ now < MaxTime
    /\ now' = now + 1
    /\ swept' = {}
    /\ UNCHANGED <<buckets, req, asked, ledger, hint>>

Init ==
    /\ now = 0 /\ asked = 0
    /\ buckets = [k \in Keys |-> NoBucket]
    /\ req = [q \in Requests |-> [pc |-> "idle", key |-> CHOOSE k \in Keys : TRUE, clock |-> 0]]
    /\ ledger = [k \in Keys |-> [since |-> 0, admitted |-> 0]]
    /\ hint = [k \in Keys |-> 0]
    /\ swept = {}

Next == (\E q \in Requests : ReadClock(q) \/ Allow(q)) \/ Sweep \/ Tick

Spec == Init /\ [][Next]_vars

----------------------------------------------------------------------------
\* Over its whole life a bucket admits no more than its capacity and what its
\* rate adds, whatever the order of the clock readings; and a throttled client
\* that waits for its Retry-After finds a token if nobody takes it
\* (limiter.go Allow).
LimitHonest ==
    \A k \in Live :
        /\ Token * ledger[k].admitted <= Capacity + Rate * (now - ledger[k].since)
        /\ hint[k] # 0 => buckets[k].tokens + Rate * (hint[k] - buckets[k].lastFill) >= Token

\* A bucket the sweep drops had refilled, but for one token, so that a client
\* who returns to a fresh bucket gains nothing (limiter.go sweep).
SweepLosesNothing ==
    \A b \in swept : b.tokens + Rate * (now - b.lastFill) >= Capacity - Token
=============================================================================
