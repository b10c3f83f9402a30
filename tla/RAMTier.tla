------------------------------ MODULE RAMTier ------------------------------
(* The in-memory tier (internal/cache/ram.go): shards with a CLOCK ring each, *)
(* and the process-wide budget for the bytes that active writers buffer.      *)
(*                                                                            *)
(* Every critical section of a shard lock is one step, except commit's        *)
(* eviction loop, which is one step per lap of the loop with the lock held    *)
(* ("locked"), so that its termination can be asked about.  The compare-and-  *)
(* swap loop of reserve is a load step and a swap step.  A writer stands for  *)
(* the object it writes: it is opened once, under one key.                    *)
EXTENDS Integers, Sequences, FiniteSets, TierData

CONSTANTS Keys, Shards, Writers, None,
          ShardOf,           \* shardIndex: the shard that owns a key
          Cap,               \* shardCaps: the byte budget of each shard
          MaxObjectBytes,    \* per-object buffer cap; <= 0 disables it
          InflightBudget,    \* cap on the bytes all writers buffer; <= 0 disables it
          Chunks             \* the lengths of the slices a caller may Write

ASSUME RAMAssumptions ==
    /\ None \notin Writers
    /\ IsFiniteSet(Keys) /\ IsFiniteSet(Writers)
    /\ ShardOf \in [Keys -> Shards]
    /\ Cap \in [Shards -> Int]
    /\ MaxObjectBytes \in Int /\ InflightBudget \in Int
    /\ Chunks \subseteq Nat \ {0}

VARIABLES
    held,         \* the object resident under each key, or None  (items)
    size,         \* its length, 0 when nothing is resident        (len(data))
    ref,          \* its CLOCK referenced bit
    ring,         \* per shard, the keys in eviction order         (lru)
    curBytes,     \* per shard, the bytes it accounts for
    atomicBytes,  \* per shard, the lock-free mirror of curBytes
    locked,       \* per shard, the writer whose commit holds mu, or None
    inflight,     \* inflightBytes of the tier
    st,           \* where each writer is
    wkey,         \* the key a writer writes
    buffered,     \* bytes in the writer's buffer
    reserved,     \* bytes it has charged to the in-flight budget
    overflow,     \* it gave up caching its object
    want,         \* the slice length of the Write in progress
    seen          \* inflightBytes as reserve loaded it

shardVars  == <<held, size, ref, ring, curBytes, atomicBytes, locked>>
writerVars == <<st, wkey, buffered, reserved, overflow, want, seen>>
vars       == <<held, size, ref, ring, curBytes, atomicBytes, locked, inflight,
                st, wkey, buffered, reserved, overflow, want, seen>>

\* NewRAMTier: every shard empty, nothing in flight.
Init ==
    /\ held = [k \in Keys |-> None]
    /\ size = [k \in Keys |-> 0]
    /\ ref = [k \in Keys |-> FALSE]
    /\ ring = [s \in Shards |-> <<>>]
    /\ curBytes = [s \in Shards |-> 0]
    /\ atomicBytes = [s \in Shards |-> 0]
    /\ locked = [s \in Shards |-> None]
    /\ inflight = 0
    /\ st = [w \in Writers |-> "idle"]
    /\ wkey = [w \in Writers |-> None]
    /\ buffered = [w \in Writers |-> 0]
    /\ reserved = [w \in Writers |-> 0]
    /\ overflow = [w \in Writers |-> FALSE]
    /\ want = [w \in Writers |-> 0]
    /\ seen = [w \in Writers |-> 0]
-----------------------------------------------------------------------------
(* The writer: open, buffer under the two bounds, commit or abort.            *)

Goto(w, s) == st' = [st EXCEPT ![w] = s]

Open(w, k) ==
    /\ st[w] = "idle"
    /\ Goto(w, "open")
    /\ wkey' = [wkey EXCEPT ![w] = k]
    /\ UNCHANGED <<shardVars, inflight, buffered, reserved, overflow, want, seen>>

\* Mutant: the charge is handed back and not forgotten.
ReleaseKeepsCharge(w) ==
    /\ inflight' = IF reserved[w] > 0 THEN inflight - reserved[w] ELSE inflight
    /\ buffered' = [buffered EXCEPT ![w] = 0]
    /\ UNCHANGED reserved

\* release of everything the writer has charged, its buffer let go.
Release(w) ==
    /\ inflight' = IF reserved[w] > 0 THEN inflight - reserved[w] ELSE inflight
    /\ reserved' = [reserved EXCEPT ![w] = 0]
    /\ buffered' = [buffered EXCEPT ![w] = 0]

\* dropBuffer: give up caching this object.
DropBuffer(w) ==
    /\ overflow' = [overflow EXCEPT ![w] = TRUE]
    /\ Release(w)

\* Mutant: the growth is taken off the charge.
GrowSignSlip(w, n) ==
    /\ buffered' = [buffered EXCEPT ![w] = @ + n]
    /\ reserved' = [reserved EXCEPT ![w] = @ - n]

\* buf.Write of n bytes whose charge went through.
Grow(w, n) ==
    /\ buffered' = [buffered EXCEPT ![w] = @ + n]
    /\ reserved' = [reserved EXCEPT ![w] = buffered[w] + n]

\* Write up to the call of reserve: an object over the per-object cap stops
\* being buffered; with no in-flight budget the growth needs no charge.  Once
\* the writer has overflowed, Write swallows its input and changes nothing.
Write(w, n) ==
    LET need == buffered[w] + n
    IN  /\ st[w] = "open" /\ ~overflow[w]
        /\ \/ /\ MaxObjectBytes > 0 /\ need > MaxObjectBytes
              /\ DropBuffer(w)
              /\ UNCHANGED <<st, want>>
           \/ /\ ~(MaxObjectBytes > 0 /\ need > MaxObjectBytes)
              /\ InflightBudget <= 0
              /\ Grow(w, n)
              /\ UNCHANGED <<st, want, inflight, overflow>>
           \/ /\ ~(MaxObjectBytes > 0 /\ need > MaxObjectBytes)
              /\ InflightBudget > 0
              /\ Goto(w, "load")
              /\ want' = [want EXCEPT ![w] = n]
              /\ UNCHANGED <<inflight, buffered, reserved, overflow>>
        /\ UNCHANGED <<shardVars, wkey, seen>>

\* Write returns, and its locals go out of scope.
Return(w) ==
    /\ Goto(w, "open")
    /\ want' = [want EXCEPT ![w] = 0]
    /\ seen' = [seen EXCEPT ![w] = 0]

Delta(w) == buffered[w] + want[w] - reserved[w]

\* reserve: load the total; over budget, the writer overflows.
ReserveLoad(w) ==
    /\ st[w] = "load"
    /\ \/ /\ inflight + Delta(w) > InflightBudget
          /\ DropBuffer(w)
          /\ Return(w)
       \/ /\ inflight + Delta(w) <= InflightBudget
          /\ seen' = [seen EXCEPT ![w] = inflight]
          /\ Goto(w, "swap")
          /\ UNCHANGED <<inflight, buffered, reserved, overflow, want>>
    /\ UNCHANGED <<shardVars, wkey>>

\* Mutant: the new total is stored without comparing.
ReserveStore(w) ==
    /\ st[w] = "swap"
    /\ inflight' = inflight + Delta(w)
    /\ Grow(w, want[w])
    /\ Return(w)
    /\ UNCHANGED <<shardVars, wkey, overflow>>

\* reserve: swap in the larger total if nobody moved it, else load again.
ReserveSwap(w) ==
    /\ st[w] = "swap"
    /\ \/ /\ inflight = seen[w]
          /\ inflight' = seen[w] + Delta(w)
          /\ Grow(w, want[w])
          /\ Return(w)
       \/ /\ inflight # seen[w]
          /\ Goto(w, "load")
          /\ UNCHANGED <<inflight, buffered, reserved, want, seen>>
    /\ UNCHANGED <<shardVars, wkey, overflow>>

Abort(w) ==
    /\ st[w] = "open"
    /\ Release(w)
    /\ Goto(w, "done")
    /\ UNCHANGED <<shardVars, wkey, overflow, want, seen>>

\* Commit of a writer that gave up: nothing to install.
CommitOverflowed(w) ==
    /\ st[w] = "open" /\ overflow[w]
    /\ Goto(w, "release")
    /\ UNCHANGED <<shardVars, inflight, wkey, buffered, reserved, overflow, want, seen>>
-----------------------------------------------------------------------------
(* The shard: commit under the exclusive lock, lookups under the shared one.  *)

Unlocked(s) == locked[s] = None

\* Mutant: the bytes stay on the shard's account.
UnlinkKeepsBytes(s, k) ==
    /\ held' = [held EXCEPT ![k] = None]
    /\ size' = [size EXCEPT ![k] = 0]
    /\ ref' = [ref EXCEPT ![k] = FALSE]
    /\ ring' = [ring EXCEPT ![s] = RemoveKey(@, k)]
    /\ UNCHANGED curBytes

\* Take key k out of shard s: its entry, its ring node, its bytes.
Unlink(s, k) ==
    /\ held' = [held EXCEPT ![k] = None]
    /\ size' = [size EXCEPT ![k] = 0]
    /\ ref' = [ref EXCEPT ![k] = FALSE]
    /\ ring' = [ring EXCEPT ![s] = RemoveKey(@, k)]
    /\ curBytes' = [curBytes EXCEPT ![s] = @ - size[k]]

\* Mutant: the resident copy goes before the size is checked.
CommitRefusedLate(w) ==
    LET s == ShardOf[wkey[w]]
    IN  /\ st[w] = "open" /\ ~overflow[w]
        /\ Unlocked(s)
        /\ buffered[w] > Cap[s]
        /\ Goto(w, "release")
        /\ \/ held[wkey[w]] # None /\ Unlink(s, wkey[w])
           \/ held[wkey[w]] = None /\ UNCHANGED <<held, size, ref, ring, curBytes>>
        /\ UNCHANGED <<atomicBytes, locked, inflight, wkey, buffered, reserved,
                       overflow, want, seen>>

\* commit refuses an object larger than its shard's cap, before it touches
\* any copy the shard already holds.
CommitRefused(w) ==
    LET s == ShardOf[wkey[w]]
    IN  /\ st[w] = "open" /\ ~overflow[w]
        /\ Unlocked(s)
        /\ buffered[w] > Cap[s]
        /\ Goto(w, "release")
        /\ UNCHANGED <<shardVars, inflight, wkey, buffered, reserved, overflow, want, seen>>

\* Mutant: the entry the object replaces is not unlinked.
CommitBeginNoReplace(w) ==
    LET s == ShardOf[wkey[w]]
    IN  /\ st[w] = "open" /\ ~overflow[w]
        /\ Unlocked(s)
        /\ buffered[w] <= Cap[s]
        /\ locked' = [locked EXCEPT ![s] = w]
        /\ Goto(w, "sweep")
        /\ UNCHANGED <<held, size, ref, ring, curBytes, atomicBytes, inflight, wkey,
                       buffered, reserved, overflow, want, seen>>

\* commit: take the lock and remove the entry the object replaces.
CommitBegin(w) ==
    LET k == wkey[w]
        s == ShardOf[k]
    IN  /\ st[w] = "open" /\ ~overflow[w]
        /\ Unlocked(s)
        /\ buffered[w] <= Cap[s]
        /\ locked' = [locked EXCEPT ![s] = w]
        /\ Goto(w, "sweep")
        /\ \/ held[k] # None /\ Unlink(s, k)
           \/ held[k] = None /\ UNCHANGED <<held, size, ref, ring, curBytes>>
        /\ UNCHANGED <<atomicBytes, inflight, wkey, buffered, reserved, overflow, want, seen>>

\* Mutant: room is made without counting the new object.
FitsAlready(w, s) == curBytes[s] <= Cap[s]

Fits(w, s) == curBytes[s] + buffered[w] <= Cap[s]

\* Mutant: the second chance is granted and never consumed.
SweepKeepsBit(w) ==
    LET s == ShardOf[wkey[w]]
        k == Back(ring[s])
    IN  /\ st[w] = "sweep"
        /\ ~Fits(w, s) /\ ring[s] # <<>>
        /\ \/ /\ ref[k]
              /\ ring' = [ring EXCEPT ![s] = MoveToFront(@, k)]
              /\ UNCHANGED <<held, size, ref, curBytes>>
           \/ /\ ~ref[k]
              /\ Unlink(s, k)
        /\ UNCHANGED <<atomicBytes, locked, inflight, writerVars>>

\* One lap of commit's CLOCK loop: the back of the ring was read since it was
\* last passed and moves to the front, or it is evicted.
Sweep(w) ==
    LET s == ShardOf[wkey[w]]
        k == Back(ring[s])
    IN  /\ st[w] = "sweep"
        /\ ~Fits(w, s) /\ ring[s] # <<>>
        /\ \/ /\ ref[k]
              /\ ref' = [ref EXCEPT ![k] = FALSE]
              /\ ring' = [ring EXCEPT ![s] = MoveToFront(@, k)]
              /\ UNCHANGED <<held, size, curBytes>>
           \/ /\ ~ref[k]
              /\ Unlink(s, k)
        /\ UNCHANGED <<atomicBytes, locked, inflight, writerVars>>

\* commit: install the object at the front, publish the byte count, unlock.
Install(w) ==
    LET k == wkey[w]
        s == ShardOf[k]
    IN  /\ st[w] = "sweep"
        /\ Fits(w, s) \/ ring[s] = <<>>
        /\ held' = [held EXCEPT ![k] = w]
        /\ size' = [size EXCEPT ![k] = buffered[w]]
        /\ ref' = [ref EXCEPT ![k] = FALSE]
        /\ ring' = [ring EXCEPT ![s] = PushFront(@, k)]
        /\ curBytes' = [curBytes EXCEPT ![s] = @ + buffered[w]]
        /\ atomicBytes' = [atomicBytes EXCEPT ![s] = curBytes[s] + buffered[w]]
        /\ locked' = [locked EXCEPT ![s] = None]
        /\ Goto(w, "release")
        /\ UNCHANGED <<inflight, wkey, buffered, reserved, overflow, want, seen>>

\* Commit hands the writer's charge back after the shard lock is free again.
CommitEnd(w) ==
    /\ st[w] = "release"
    /\ Release(w)
    /\ Goto(w, "done")
    /\ UNCHANGED <<shardVars, wkey, overflow, want, seen>>

\* Get: the entry is marked as referenced; the ring is not touched.
Get(k) ==
    /\ Unlocked(ShardOf[k])
    /\ held[k] # None
    /\ ref' = [ref EXCEPT ![k] = TRUE]
    /\ UNCHANGED <<held, size, ring, curBytes, atomicBytes, locked, inflight, writerVars>>

\* Delete: the other tier installed this key.
Delete(k) ==
    LET s == ShardOf[k]
    IN  /\ Unlocked(s)
        /\ held[k] # None
        /\ Unlink(s, k)
        /\ atomicBytes' = [atomicBytes EXCEPT ![s] = curBytes[s] - size[k]]
        /\ UNCHANGED <<locked, inflight, writerVars>>

\* Reset empties the shards one by one, each under its lock, and leaves the
\* in-flight budget to its writers.
Reset(s) ==
    /\ Unlocked(s)
    /\ held' = [k \in Keys |-> IF ShardOf[k] = s THEN None ELSE held[k]]
    /\ size' = [k \in Keys |-> IF ShardOf[k] = s THEN 0 ELSE size[k]]
    /\ ref' = [k \in Keys |-> IF ShardOf[k] = s THEN FALSE ELSE ref[k]]
    /\ ring' = [ring EXCEPT ![s] = <<>>]
    /\ curBytes' = [curBytes EXCEPT ![s] = 0]
    /\ atomicBytes' = [atomicBytes EXCEPT ![s] = 0]
    /\ UNCHANGED <<locked, inflight, writerVars>>
-----------------------------------------------------------------------------
\* The steps a writer's own goroutine takes without waiting for its caller.
Proceed(w) ==
    ReserveLoad(w) \/ ReserveSwap(w) \/ Sweep(w) \/ Install(w) \/ CommitEnd(w)

Next ==
    \/ \E w \in Writers :
         \/ \E k \in Keys : Open(w, k)
         \/ \E n \in Chunks : Write(w, n)
         \/ Abort(w) \/ CommitOverflowed(w) \/ CommitRefused(w) \/ CommitBegin(w)
         \/ Proceed(w)
    \/ \E k \in Keys : Get(k) \/ Delete(k)
    \/ \E s \in Shards : Reset(s)

Spec == Init /\ [][Next]_vars

\* A goroutine that is past its caller's choice keeps running.
FairSpec == Spec /\ \A w \in Writers : WF_vars(Proceed(w))
-----------------------------------------------------------------------------
WriterStates == {"idle", "open", "load", "swap", "sweep", "release", "done"}

\* Every variable has the type its declaration gives it; lengths and charges are
\* never negative (write, release).
TypeOK ==
    /\ held \in [Keys -> Writers \cup {None}]
    /\ size \in [Keys -> Nat]
    /\ ref \in [Keys -> BOOLEAN]
    /\ ring \in [Shards -> Seq(Keys)]
    /\ curBytes \in [Shards -> Int]
    /\ atomicBytes \in [Shards -> Int]
    /\ locked \in [Shards -> Writers \cup {None}]
    /\ inflight \in Int
    /\ st \in [Writers -> WriterStates]
    /\ wkey \in [Writers -> Keys \cup {None}]
    /\ buffered \in [Writers -> Nat]
    /\ reserved \in [Writers -> Nat]
    /\ overflow \in [Writers -> BOOLEAN]
    /\ want \in [Writers -> Nat]
    /\ seen \in [Writers -> Int]

Resident(s) == {k \in Keys : held[k] # None /\ ShardOf[k] = s}

\* The writers that have neither committed nor given up.
Active == {w \in Writers : st[w] \in {"open", "load", "swap", "sweep"}}

\* B2: however the compare-and-swap loops of concurrent writers interleave, the
\* bytes they buffer together never exceed the in-flight budget (reserve).
BudgetRespected ==
    InflightBudget > 0 =>
        /\ inflight <= InflightBudget
        /\ Bytes(Active, buffered) <= InflightBudget

\* B2: the budget counts exactly what live writers hold: nothing is charged or
\* handed back twice, and nothing stays charged after Commit, Abort or overflow.
InflightAccounted ==
    InflightBudget > 0 => inflight = Bytes(Writers, reserved)

\* A shard's counter is exactly the bytes of its resident objects, also in the
\* middle of an eviction sweep, and Bytes() reads that number without the lock
\* whenever no commit is in progress.
BytesAccounted ==
    \A s \in Shards :
        /\ curBytes[s] = Bytes(Resident(s), size)
        /\ Unlocked(s) => atomicBytes[s] = curBytes[s]

\* The tier is byte-bounded: no order of commits, reads and deletes leaves a
\* shard over its cap (commit evicts until the new object fits).
WithinCap ==
    \A s \in Shards : curBytes[s] <= Cap[s] \/ Resident(s) = {}

\* The ring of a shard lists exactly its resident keys, once each: commit's
\* "stale ring node with no map entry" does not happen, and nothing resident is
\* beyond the sweep's reach.
RingMatchesItems ==
    \A s \in Shards : Distinct(ring[s]) /\ Entries(ring[s]) = Resident(s)

\* What the tier's users and its budget rely on, all at once: types, the in-flight
\* budget, and map, ring and counters in step (reserve, commit, Delete, Reset).
TierSound ==
    /\ TypeOK
    /\ BudgetRespected /\ InflightAccounted
    /\ BytesAccounted /\ WithinCap /\ RingMatchesItems

\* commit's termination comment: with the lock held no Get sets a bit again, so
\* the sweep reaches a victim and every commit completes.
CommitTerminates ==
    \A w \in Writers : st[w] = "sweep" ~> st[w] = "done"

\* The tier implements what Tier promises: refused and aborted writes leave the
\* resident copy alone, and evicted or replaced copies never come back.
Abstract == INSTANCE Tier
    WITH Objects <- Writers, contents <- held,
         unborn <- {w \in Writers : st[w] \notin {"release", "done"}}

ImplementsTier == Abstract!Spec
=============================================================================
