----------------------------- MODULE MCStorage -----------------------------
(***************************************************************************)
(* The storage of a site, a behaviour being one of a single part: the two   *)
(* tiers as one store, the disk tier with crashes and restarts into another *)
(* budget, the router that places an object, and the bans on what is        *)
(* stored.  The other parts rest: the store in its initial state, the       *)
(* variables of the rest off.                                               *)
(***************************************************************************)
EXTENDS Store, TLC

CONSTANTS DiskKeys, DiskWriters, Layouts, Chunks, MaxLen, MaxCrashes, May,
          Configs, BodySizes, DefaultShards, MinShardBytes, DefaultObject,
          BannedKeys, Calls, ShardOf, Ops, Windows, HfmWindows, Patterns, MaxBans, FirstGrace, MaxTime, MaxStall,
          x, y, z

VARIABLE part

-----------------------------------------------------------------------------
VARIABLES phase, layout, todo, items, lru, curBytes, dirty, locked, fpc, fi, snap, anyDirty,
          closing, blob, wip, index, indexTmp, stray, strayTmp, wst, wfor, len, crashes

\* The tier is reopened with another budget and so with other shards: a shard for
\* all keys, in which two small objects fit or one of two bytes, or two shards.
MCLayouts ==
    {[n |-> 1, shardOf |-> [k \in DiskKeys |-> 0], cap |-> (0 :> 2)],
     [n |-> 2, shardOf |-> [k \in DiskKeys |-> IF k = z THEN 1 ELSE 0], cap |-> (0 :> 3 @@ 1 :> 1)]}
Dt == INSTANCE DiskTier WITH st <- wst, wkey <- wfor, Keys <- DiskKeys, Writers <- DiskWriters
\* The reload path resets a store it has just opened: here, one that found entries
\* of an earlier process; Close comes after the crash too.  x and y are alike, and y is not the first key written.
\* One file at a time is left by a failed remove, and no blob after the crash; an
\* open tier that ends is reopened with the other budget.
DiskNext ==
    /\ Dt!Next
    /\ fpc'["reset"] # "idle" \/ closing' # "no" => crashes' = MaxCrashes
    /\ (\A w \in DiskWriters : wst[w] = "idle") => \A w \in DiskWriters : wfor'[w] # y
    /\ Cardinality(stray') + Cardinality(strayTmp') <= 1
    /\ crashes' = MaxCrashes => stray' = {}
    /\ phase' = "reap" => (layout' # layout <=> phase = "open")
WriterSymmetry == Permutations(DiskWriters)

-----------------------------------------------------------------------------
VARIABLES cfg, obj, fate

\* Every budget from none to several shards.  The small-object threshold and the
\* per-object RAM cap lie on either side of each other, of a RAM shard and of the tier.
Placed(ramExt, other) == [e \in {"ram", "other"} |-> IF e = "ram" THEN ramExt ELSE other]
MCConfigs ==
    {[ramMax |-> r, diskMax |-> d, small |-> s, ramObject |-> o, budget |-> b, tierExt |-> e] :
        r \in {0, 2, 4, 5, 6, 7}, d \in {-1, 0, 2, 4, 6, 7, 13}, s \in {0, 2, 3}, o \in {0, 2}, b \in {0, 9},
        e \in {Placed("", ""), Placed("disk", "ram")}}
Ro == INSTANCE Router

-----------------------------------------------------------------------------
VARIABLES clock, entry, bans, maxGrace, callPc, arg, t, callAnswer, sweeping, sweepT, doomed

\* Entries that stay usable for one instant, so that old bans are pruned in time.
MCWindows == {[ttl |-> 1, grace |-> 0, maxStale |-> 0]}
MCShardOf == [k \in BannedKeys |-> 0]
Fr == INSTANCE Freshness WITH pc <- callPc, answer <- callAnswer, Keys <- BannedKeys

\* What the theorem about bans takes the constants to be.
ASSUME BanAssumptions == Fr!FreshnessAssumptions /\ Fr!WindowsKnown

\* Four calls that overlap at will: a store, a lookup, a ban, and one that stores or
\* bans again.  The keys are alike, and the first store is of x.
CallsFor == <<{"store"}, {"classify"}, {"store", "ban"}, {"ban"}>>
BanNext ==
    /\ Fr!Next
    /\ \A i \in Calls : callPc[i] = "idle" => callPc'[i] \in {"idle"} \cup CallsFor[i]
    /\ callPc[1] = "idle" /\ callPc'[1] # "idle" => arg'[1].key = x

-----------------------------------------------------------------------------
storeVars == <<ram, disk, ramUnborn, diskUnborn, st, wkey, dst, stamp, last, pc, rkey, answer, floor, excused>>
diskVars  == <<phase, layout, todo, items, lru, curBytes, dirty, locked, fpc, fi, snap, anyDirty,
               closing, blob, wip, index, indexTmp, stray, strayTmp, wst, wfor, len, crashes>>
routeVars == <<cfg, obj, fate>>
banVars   == <<clock, entry, bans, maxGrace, callPc, arg, t, callAnswer, sweeping, sweepT, doomed>>
allVars   == <<part, storeVars, diskVars, routeVars, banVars>>

diskOff ==
    /\ phase = 0 /\ layout = 0 /\ todo = 0 /\ items = 0 /\ lru = 0 /\ curBytes = 0 /\ dirty = 0 /\ locked = 0
    /\ fpc = 0 /\ fi = 0 /\ snap = 0 /\ anyDirty = 0 /\ closing = 0 /\ blob = 0 /\ wip = 0 /\ index = 0
    /\ indexTmp = 0 /\ stray = 0 /\ strayTmp = 0 /\ wst = 0 /\ wfor = 0 /\ len = 0 /\ crashes = 0
routeOff == cfg = 0 /\ obj = 0 /\ fate = 0
banOff ==
    /\ clock = 0 /\ entry = 0 /\ bans = 0 /\ maxGrace = 0 /\ callPc = 0 /\ arg = 0 /\ t = 0
    /\ callAnswer = 0 /\ sweeping = 0 /\ sweepT = 0 /\ doomed = 0

MCInit ==
    /\ Init
    /\ \/ part = "store" /\ diskOff /\ routeOff /\ banOff
       \/ part = "disk" /\ Dt!Init /\ routeOff /\ banOff
       \/ part = "router" /\ Ro!Init /\ diskOff /\ banOff
       \/ part = "bans" /\ Fr!Init /\ diskOff /\ routeOff
MCNext ==
    \/ part = "store" /\ Next /\ UNCHANGED <<part, diskVars, routeVars, banVars>>
    \/ part = "disk" /\ DiskNext /\ UNCHANGED <<part, storeVars, routeVars, banVars>>
    \/ part = "router" /\ Ro!Next /\ UNCHANGED <<part, storeVars, diskVars, banVars>>
    \/ part = "bans" /\ BanNext /\ UNCHANGED <<part, storeVars, diskVars, routeVars>>
MCSpec == MCInit /\ [][MCNext]_allVars

-----------------------------------------------------------------------------
(* Properties.                                                                *)

\* Through crashes, restarts into other shards and failing calls, an open disk tier
\* accounts for its entries exactly and within its caps, announces the true length
\* of every blob, keeps no dead writer's file it could remove, and when clean is the
\* one its index file lists (newDiskTier, load, commit, evict, flushIfDirty).
DiskRecovers == part = "disk" => Dt!Recovers

\* Shards partition a budget to the byte, and an object of known size is kept
\* nowhere only if some disk shard could not hold it, or routing sent it to RAM by a
\* bound that the RAM shard or the per-object cap undercuts (shardCaps, pickTier).
PlacedWhereItFits == part = "router" => Ro!CapsPartition /\ Ro!NowhereOnlyIfTooLarge

\* Once a ban has returned, no lookup is answered from an entry it invalidated,
\* although bans apply lazily and old ones are pruned (freshness.go ban, banned).
BanHolds == [][part = "bans" => Fr!BanHolds]_allVars
=============================================================================
