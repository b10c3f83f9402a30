----------------------------- MODULE Freshness -----------------------------
(* The freshness index (internal/server/freshness.go): when each key stops    *)
(* being fresh, stale-servable and servable on an origin error, which keys    *)
(* are hit-for-miss, and the list of regex bans.                              *)
(*                                                                            *)
(* Every operation reads the clock first and takes its lock later; other      *)
(* operations and the clock may move in between.  A call stands for itself:   *)
(* it runs one operation, and an entry remembers the call that stored it.     *)
(* A pattern is the set of keys it matches.  Locks protect one key's entry    *)
(* at a time, so a locked section is one step.                                *)
EXTENDS Integers, FiniteSets

CONSTANTS Keys, Calls, None,
          ShardOf,      \* shard: which shard a key's entry is in
          Windows,      \* the TTL, grace and max_stale a response may be given
          HfmWindows,   \* the hit-for-miss windows a response may be given
          Patterns,     \* the sets of keys a ban may match
          Ops,          \* the operations the callers use
          MaxBans,      \* maxBans
          FirstGrace,   \* maxGrace before the behaviour starts
          MaxTime,      \* bound: the last instant
          MaxStall      \* the longest a call may take

VARIABLES
    clock,
    entry,      \* the freshEntry of each key, or None
    bans,       \* bans.list: what each ban matches, when it was issued, its place
    maxGrace,   \* the widest window observed
    pc, arg, t, \* the calls: where each is, what it was called with, its now
    answer,     \* what a call answered, and the call whose entry it answered from
    sweeping,   \* shards the sweep in progress has still to visit
    sweepT,     \* its now
    doomed      \* history: the stores whose entry a ban has invalidated

callVars == <<pc, arg, t>>
sweepVars == <<sweeping, sweepT>>
vars == <<clock, entry, bans, maxGrace, pc, arg, t, answer, sweeping, sweepT, doomed>>

Shards == {ShardOf[k] : k \in Keys}

Init ==
    /\ clock = 0
    /\ entry = [k \in Keys |-> None]
    /\ bans = {}
    /\ maxGrace = FirstGrace
    /\ pc = [c \in Calls |-> "idle"]
    /\ arg = [c \in Calls |-> None]
    /\ t = [c \in Calls |-> 0]
    /\ answer = [c \in Calls |-> [res |-> "none", by |-> None]]
    /\ sweeping = {} /\ sweepT = 0
    /\ doomed = {}
-----------------------------------------------------------------------------
(* What an entry means at an instant.                                         *)

IsHfm(e) == e.hfmUntil # 0

\* Mutant: only the last ban is looked at.
BannedByLast(k, e) ==
    \E b \in bans : (\A a \in bans : a.no <= b.no) /\ b.at > e.storedAt /\ k \in b.keys

\* banned: some ban issued after the entry was stored matches its key.
Banned(k, e) == \E b \in bans : b.at > e.storedAt /\ k \in b.keys

\* Mutant: past grace is past everything.
PrunableAtGrace(e, now) == TRUE

\* prunable: past max_stale, or past grace when there is none.
Prunable(e, now) == IF e.maxStaleUntil # 0 THEN now >= e.maxStaleUntil ELSE TRUE

\* Mutant: a ban does not reach a hit-for-miss marker.
BypassUntilExpired(k, e, now) == now < e.hfmUntil

\* An active marker: inside its window and not banned.
Bypass(k, e, now) == now < e.hfmUntil /\ ~Banned(k, e)

Result(res, hfm, drop) == [res |-> res, hfm |-> hfm, drop |-> drop]

\* classify under the shared lock; "prune" asks for the exclusive one.
ClassifyShared(k, now) ==
    LET e == entry[k]
    IN  IF e = None THEN Result("miss", FALSE, FALSE)
        ELSE IF IsHfm(e)
          THEN IF Bypass(k, e, now)
                 THEN Result("miss", TRUE, FALSE) ELSE Result("prune", FALSE, FALSE)
        ELSE IF ~Banned(k, e) /\ now < e.expires THEN Result("fresh", FALSE, FALSE)
        ELSE IF ~Banned(k, e) /\ now < e.graceUntil THEN Result("stale", FALSE, FALSE)
        ELSE Result("prune", FALSE, FALSE)

\* Mutant: a marker is dropped without looking at its window again.
PruneWithoutRecheck(k, now) ==
    LET e == entry[k]
    IN  IF e = None THEN Result("miss", FALSE, FALSE)
        ELSE IF ~IsHfm(e) /\ ~Banned(k, e) /\ now < e.graceUntil
          THEN Result(IF now < e.expires THEN "fresh" ELSE "stale", FALSE, FALSE)
        ELSE Result("miss", FALSE, IsHfm(e) \/ Banned(k, e) \/ Prunable(e, now))

\* classifyPrune: everything again under the exclusive lock.
ClassifyPrune(k, now) ==
    LET e == entry[k]
    IN  IF e = None THEN Result("miss", FALSE, FALSE)
        ELSE IF IsHfm(e)
          THEN IF Bypass(k, e, now)
                 THEN Result("miss", TRUE, FALSE) ELSE Result("miss", FALSE, TRUE)
        ELSE IF Banned(k, e) THEN Result("miss", FALSE, TRUE)
        ELSE IF now < e.expires THEN Result("fresh", FALSE, FALSE)
        ELSE IF now < e.graceUntil THEN Result("stale", FALSE, FALSE)
        ELSE Result("miss", FALSE, Prunable(e, now))

\* hitForMiss: inside the window and not banned; else the marker is dropped.
HitForMiss(k, now) ==
    LET e == entry[k]
    IN  IF e = None \/ ~IsHfm(e) THEN Result("miss", FALSE, FALSE)
        ELSE IF now < e.hfmUntil /\ ~Banned(k, e) THEN Result("miss", TRUE, FALSE)
        ELSE Result("miss", FALSE, TRUE)

\* lookup: the classification of an entry that is no hit-for-miss marker.
Lookup(k, now) ==
    LET e == entry[k]
    IN  IF e = None \/ IsHfm(e) THEN Result("miss", FALSE, FALSE)
        ELSE IF Banned(k, e) THEN Result("miss", FALSE, TRUE)
        ELSE IF now < e.expires THEN Result("fresh", FALSE, FALSE)
        ELSE IF now < e.graceUntil THEN Result("stale", FALSE, FALSE)
        ELSE Result("miss", FALSE, Prunable(e, now))

\* staleWithin: past grace, inside max_stale, not banned.
StaleWithin(k, now) ==
    LET e == entry[k]
    IN  /\ e # None
        /\ e.maxStaleUntil # 0 /\ ~IsHfm(e) /\ ~Banned(k, e)
        /\ now >= e.graceUntil /\ now < e.maxStaleUntil

\* Mutant: only banned and hit-for-miss entries are reclaimed.
ReclaimMarkersOnly(k, e, now) == Banned(k, e) \/ (IsHfm(e) /\ now >= e.hfmUntil)

\* entryReclaimable: the entry can never again produce a hit or a bypass.
Reclaimable(k, e, now) ==
    \/ Banned(k, e)
    \/ IsHfm(e) /\ now >= e.hfmUntil
    \/ ~IsHfm(e) /\ now >= e.graceUntil /\ Prunable(e, now)
-----------------------------------------------------------------------------
(* The calls.                                                                 *)

Start(c, op, a) ==
    /\ pc[c] = "idle" /\ op \in Ops
    /\ pc' = [pc EXCEPT ![c] = op]
    /\ arg' = [arg EXCEPT ![c] = a]
    /\ t' = [t EXCEPT ![c] = clock]
    /\ UNCHANGED <<clock, entry, bans, maxGrace, answer, sweepVars, doomed>>

\* A call is made: it reads the clock and will take its lock.
Call(c) ==
    \/ \E k \in Keys :
         \/ \E w \in Windows : Start(c, "store", [key |-> k, win |-> w])
         \/ \E h \in HfmWindows : Start(c, "hfm", [key |-> k, win |-> h])
         \/ \E op \in {"classify", "staleWithin", "forget"} : Start(c, op, [key |-> k])
    \/ \E P \in Patterns : Start(c, "ban", [keys |-> P])

Return(c) ==
    /\ pc' = [pc EXCEPT ![c] = "done"]
    /\ arg' = [arg EXCEPT ![c] = None]
    /\ t' = [t EXCEPT ![c] = 0]

NewEntry(c, exp, grc, max, hfm) ==
    [storedAt |-> t[c], expires |-> exp, graceUntil |-> grc, maxStaleUntil |-> max,
     hfmUntil |-> hfm, by |-> c]

\* store: the entry replaces whatever the key had.
Store(c) ==
    LET w == arg[c].win
        g == t[c] + w.ttl + w.grace
    IN  /\ pc[c] = "store"
        /\ entry' = [entry EXCEPT ![arg[c].key] =
                       NewEntry(c, t[c] + w.ttl, g, IF w.maxStale > 0 THEN g + w.maxStale ELSE 0, 0)]
        /\ pc' = [pc EXCEPT ![c] = "observe"]
        /\ arg' = [arg EXCEPT ![c] = [win |-> w.ttl + w.grace + w.maxStale]]
        /\ UNCHANGED <<clock, bans, maxGrace, t, answer, sweepVars, doomed>>

\* setHitForMiss: the marker replaces whatever the key had.
SetHitForMiss(c) ==
    /\ pc[c] = "hfm"
    /\ entry' = [entry EXCEPT ![arg[c].key] = NewEntry(c, 0, 0, 0, t[c] + arg[c].win)]
    /\ pc' = [pc EXCEPT ![c] = "observe"]
    /\ arg' = [arg EXCEPT ![c] = [win |-> arg[c].win]]
    /\ UNCHANGED <<clock, bans, maxGrace, t, answer, sweepVars, doomed>>

\* observeWindow: after the entry is in, the widest window is raised.
ObserveWindow(c) ==
    /\ pc[c] = "observe"
    /\ maxGrace' = IF arg[c].win <= maxGrace THEN maxGrace ELSE arg[c].win
    /\ Return(c)
    /\ UNCHANGED <<clock, entry, bans, answer, sweepVars, doomed>>

\* The answer a caller acts on, and whose entry it rests on.
Answer(c, k, res) ==
    answer' = [answer EXCEPT ![c] = [res |-> res, by |-> IF res = "miss" THEN None ELSE entry[k].by]]

Said(r) == IF r.hfm THEN "bypass" ELSE r.res

Classify(c) ==
    LET k == arg[c].key
        r == ClassifyShared(k, t[c])
    IN  /\ pc[c] = "classify"
        /\ \/ /\ r.res = "prune"
              /\ pc' = [pc EXCEPT ![c] = "prune"]
              /\ t' = [t EXCEPT ![c] = clock]
              /\ UNCHANGED <<arg, answer>>
           \/ /\ r.res # "prune"
              /\ Answer(c, k, Said(r))
              /\ Return(c)
        /\ UNCHANGED <<clock, entry, bans, maxGrace, sweepVars, doomed>>

Prune(c) ==
    LET k == arg[c].key
        r == ClassifyPrune(k, t[c])
    IN  /\ pc[c] = "prune"
        /\ entry' = IF r.drop THEN [entry EXCEPT ![k] = None] ELSE entry
        /\ Answer(c, k, Said(r))
        /\ Return(c)
        /\ UNCHANGED <<clock, bans, maxGrace, sweepVars, doomed>>

\* staleWithin, asked on an origin error.
Fallback(c) ==
    /\ pc[c] = "staleWithin"
    /\ Answer(c, arg[c].key, IF StaleWithin(arg[c].key, t[c]) THEN "fallback" ELSE "miss")
    /\ Return(c)
    /\ UNCHANGED <<clock, entry, bans, maxGrace, sweepVars, doomed>>

Forget(c) ==
    /\ pc[c] = "forget"
    /\ entry' = [entry EXCEPT ![arg[c].key] = None]
    /\ Return(c)
    /\ UNCHANGED <<clock, bans, maxGrace, answer, sweepVars, doomed>>

\* ban: bans older than twice the widest window go, then the first ones until
\* there is room for one more; the new ban takes the last place.
Kept(now) == {b \in bans : b.at > now - 2 * maxGrace}
After(list, b) == {a \in list \ {b} : a.no > b.no}
Capped(list) == {b \in list : Cardinality(After(list, b)) < MaxBans - 1}
Place(list) == CHOOSE n \in {1} \cup {b.no + 1 : b \in list} : \A b \in list : b.no < n

Ban(c) ==
    /\ pc[c] = "ban"
    /\ bans' = LET list == Capped(Kept(t[c]))
               IN  list \cup {[keys |-> arg[c].keys, at |-> t[c], no |-> Place(list)]}
    /\ doomed' = doomed \cup {entry[k].by : k \in {x \in arg[c].keys :
                                 entry[x] # None /\ entry[x].storedAt < t[c]}}
    /\ Return(c)
    /\ UNCHANGED <<clock, entry, maxGrace, answer, sweepVars>>

\* sweep: read the clock once, then one shard after another.
SweepBegin ==
    /\ sweeping = {}
    /\ sweeping' = Shards
    /\ sweepT' = clock
    /\ UNCHANGED <<clock, entry, bans, maxGrace, callVars, answer, doomed>>

SweepShard(s) ==
    /\ s \in sweeping
    /\ sweeping' = sweeping \ {s}
    /\ entry' = [k \in Keys |-> IF /\ ShardOf[k] = s /\ entry[k] # None
                                   /\ Reclaimable(k, entry[k], sweepT)
                                THEN None ELSE entry[k]]
    /\ UNCHANGED <<clock, bans, maxGrace, callVars, answer, sweepT, doomed>>

\* Time passes, but no call in progress takes longer than MaxStall.
Tick ==
    /\ clock < MaxTime
    /\ \A c \in Calls : pc[c] \notin {"idle", "done"} => clock < t[c] + MaxStall
    /\ clock' = clock + 1
    /\ UNCHANGED <<entry, bans, maxGrace, callVars, answer, sweepVars, doomed>>

Locked(c) ==
    \/ Store(c) \/ SetHitForMiss(c) \/ ObserveWindow(c)
    \/ Classify(c) \/ Prune(c) \/ Fallback(c) \/ Forget(c) \/ Ban(c)

Sweep == SweepBegin \/ \E s \in Shards : SweepShard(s)

Next == Tick \/ Sweep \/ \E c \in Calls : Call(c) \/ Locked(c)

Spec == Init /\ [][Next]_vars
-----------------------------------------------------------------------------
(* Properties.                                                                *)

Entry == [storedAt : Nat, expires : Nat, graceUntil : Nat, maxStaleUntil : Nat,
          hfmUntil : Nat, by : Calls]

\* What the constants stand for: windows are durations, a pattern matches keys.
FreshnessAssumptions ==
    /\ None \notin Calls /\ None \notin Entry
    /\ Windows \subseteq [ttl : Nat, grace : Nat, maxStale : Nat]
    /\ HfmWindows \subseteq Nat
    /\ Patterns \subseteq SUBSET Keys
    /\ FirstGrace \in Nat /\ MaxTime \in Nat /\ MaxStall \in Nat /\ MaxBans \in Nat

\* No window is wider than the widest one known from the start, and no call
\* takes longer than that from its look at the clock to its lock.
WindowsKnown ==
    /\ \A w \in Windows : w.ttl + w.grace + w.maxStale <= FirstGrace
    /\ \A h \in HfmWindows : h <= FirstGrace
    /\ MaxStall <= FirstGrace

\* Every variable has the type its declaration gives it.
TypeOK ==
    /\ clock \in 0..MaxTime
    /\ entry \in [Keys -> Entry \cup {None}]
    /\ bans \subseteq [keys : Patterns, at : 0..MaxTime, no : Nat] /\ Cardinality(bans) <= MaxBans
    /\ maxGrace \in Nat
    /\ pc \in [Calls -> {"idle", "store", "hfm", "observe", "classify", "prune",
                        "staleWithin", "forget", "ban", "done"}]
    /\ t \in [Calls -> 0..MaxTime] /\ sweepT \in 0..MaxTime
    /\ answer \in [Calls -> [res : {"none", "miss", "fresh", "stale", "bypass", "fallback"},
                             by : Calls \cup {None}]]
    /\ sweeping \subseteq Shards /\ doomed \subseteq Calls

\* A regex purge holds: once ban has returned, no lookup is ever answered from an
\* entry it invalidated, neither fresh, stale, as a fallback nor as a bypass,
\* although bans are applied lazily and old bans are pruned.
BanHolds == \A c \in Calls : answer'[c] # answer[c] => answer'[c].by \notin doomed

\* The entry of k can still produce a hit, a bypass or a max_stale fallback.
Usable(k, now) ==
    LET r == ClassifyShared(k, now)
    IN  r.hfm \/ r.res \in {"fresh", "stale"} \/ StaleWithin(k, now)

\* Neither the lazy prune, which decides on a clock it read earlier, nor the
\* sweeper ever drops an entry that could still produce a hit, a bypass or a
\* max_stale fallback; only forget does.
DropsOnlyDead ==
    \A k \in Keys : (entry[k] # None /\ entry'[k] = None) =>
        \/ ~Usable(k, clock)
        \/ \E c \in Calls : pc[c] = "forget" /\ pc'[c] = "done" /\ arg[c].key = k
PruneOnlyDead == [][DropsOnlyDead]_vars

\* The combined lookup answers, and drops, exactly what the pair of calls it
\* replaced (hitForMiss, then lookup) would have, at any instant.
Pair(k, now) ==
    LET h == HitForMiss(k, now)
    IN  IF h.hfm \/ h.drop THEN h ELSE Lookup(k, now)
Combined(k, now) ==
    LET r == ClassifyShared(k, now) IN IF r.res = "prune" THEN ClassifyPrune(k, now) ELSE r
ClassifyIsPair == \A k \in Keys, now \in 0..MaxTime : Combined(k, now) = Pair(k, now)

AllUsable == \A k \in Keys : entry[k] # None => Usable(k, clock)

\* Nothing piles up: there are never more than maxBans bans, and from some point on
\* every entry left can still be used, also those for objects nobody asks for
\* again (freshness.go ban, sweep).
DeadReclaimed == []TypeOK /\ <>[]AllUsable
=============================================================================
