------------------------------- MODULE Router -------------------------------
(* Placement (internal/cache/router.go, shard.go): how a store resolves its   *)
(* configuration, splits each tier's budget into shards and picks the tier of *)
(* an object, and whether that tier then keeps it.                            *)
(*                                                                            *)
(* One behaviour is one store and one object: the store is opened, the object *)
(* is routed, and the tier accepts or refuses it.  What other writers hold of *)
(* the in-flight budget is RAMTier's subject; here the object is alone.       *)
EXTENDS Integers, Sequences, SequencesExt

CONSTANTS Configs,        \* the RouterConfigs a site may have
          BodySizes,      \* the lengths a body may have
          DefaultShards,  \* defaultShards
          MinShardBytes,  \* minShardBytes
          DefaultObject   \* defaultRAMMaxObjectBytes

VARIABLES cfg,    \* the effective configuration
          obj,    \* the object: extension, body length, declared size, override
          fate    \* "opened", then the tier it is routed to, then where it is kept

vars == <<cfg, obj, fate>>
-----------------------------------------------------------------------------
(* Shards.                                                                    *)

Clamp(n, lo, hi) == IF n < lo THEN lo ELSE IF n > hi THEN hi ELSE n

\* Mutant: a remainder makes one more shard.
ShardCountRoundedUp(maxBytes) ==
    IF maxBytes <= 0 THEN 1 ELSE Clamp((maxBytes + MinShardBytes - 1) \div MinShardBytes, 1, DefaultShards)

\* shardCount: as many shards as get MinShardBytes each, within bounds.
ShardCount(maxBytes) ==
    IF maxBytes <= 0 THEN 1 ELSE Clamp(maxBytes \div MinShardBytes, 1, DefaultShards)

\* shardCaps: equal slices, the first ones a byte larger.
ShardCaps(maxBytes, n) ==
    [i \in 1..n |-> IF maxBytes <= 0 THEN maxBytes
                    ELSE maxBytes \div n + IF i - 1 < maxBytes % n THEN 1 ELSE 0]

Caps(maxBytes) == ShardCaps(maxBytes, ShardCount(maxBytes))
-----------------------------------------------------------------------------
(* Routing.                                                                   *)

\* NewStore: defaults for the two RAM bounds, and the clamp of the first.
Resolved(c) ==
    [c EXCEPT !.ramObject = LET o == IF @ <= 0 THEN DefaultObject ELSE @
                            IN  IF o > c.ramMax THEN c.ramMax ELSE o,
              !.budget = IF @ <= 0 THEN c.ramMax ELSE @]

\* Mutant: a RAM extension goes to RAM whatever its size.
ExtensionWins(ext, size) ==
    IF ext = "ram" \/ (size >= 0 /\ size <= cfg.small) THEN "ram" ELSE "disk"

\* pickTier: RAM extensions unless known to be too large; known small objects.
PickTier(ext, size) ==
    IF ext = "ram" THEN IF size >= 0 /\ size > cfg.ramObject THEN "disk" ELSE "ram"
    ELSE IF size >= 0 /\ size <= cfg.small THEN "ram" ELSE "disk"

\* resolveTier: an explicit choice, unless that tier could not keep the object.
ResolveTier(t, size) ==
    CASE t = "disk" -> IF cfg.diskMax <= 0 THEN "ram" ELSE "disk"
      [] t = "ram"  -> IF size >= 0 /\ size > cfg.ramObject THEN "disk" ELSE "ram"

\* tierFor: the request's override, the extension's default, the size policy.
TierFor(o) ==
    IF o.override # "" THEN ResolveTier(o.override, o.declared)
    ELSE IF cfg.tierExt[o.ext] # "" THEN ResolveTier(cfg.tierExt[o.ext], o.declared)
    ELSE PickTier(o.ext, o.declared)

\* What the tiers keep: a RAM writer alone against both bounds, then the cap of
\* the shard the key falls in; a disk commit against that cap.
RAMKeeps(n, i) == n <= cfg.ramObject /\ n <= cfg.budget /\ n <= Caps(cfg.ramMax)[i]
DiskKeeps(n, i) == n <= Caps(cfg.diskMax)[i]
-----------------------------------------------------------------------------
Objects == [ext : {"ram", "other"}, size : BodySizes, known : BOOLEAN, override : {"", "ram", "disk"}]

Init ==
    /\ cfg \in {Resolved(c) : c \in Configs}
    /\ \E o \in Objects : obj = [ext |-> o.ext, size |-> o.size, override |-> o.override,
                                 declared |-> IF o.known THEN o.size ELSE -1]
    /\ fate = "opened"

\* Writer.
Route ==
    /\ fate = "opened"
    /\ fate' = TierFor(obj)
    /\ UNCHANGED <<cfg, obj>>

\* Commit, in whichever shard the key's hash names.
Commit ==
    /\ \/ /\ fate = "ram"
          /\ \E i \in 1..ShardCount(cfg.ramMax) :
               fate' = IF RAMKeeps(obj.size, i) THEN "kept in ram" ELSE "nowhere"
       \/ /\ fate = "disk"
          /\ \E i \in 1..ShardCount(cfg.diskMax) :
               fate' = IF DiskKeeps(obj.size, i) THEN "kept on disk" ELSE "nowhere"
    /\ UNCHANGED <<cfg, obj>>

Next == Route \/ Commit

Spec == Init /\ [][Next]_vars
-----------------------------------------------------------------------------
(* Properties.                                                                *)

\* The shards partition a budget exactly: the caps add up to it, differ by at
\* most a byte, and no shard is smaller than MinShardBytes unless it is alone.
CapsPartition ==
    \A b \in {cfg.ramMax, cfg.diskMax} :
        LET caps == Caps(b)
        IN  /\ Len(caps) \in 1..DefaultShards
            /\ b > 0 => FoldSeq(LAMBDA x, y : x + y, 0, caps) = b
            /\ \A i, j \in 1..Len(caps) : caps[i] - caps[j] \in {-1, 0, 1}
            /\ Len(caps) > 1 => \A i \in 1..Len(caps) : caps[i] >= MinShardBytes
            /\ b <= 0 => \A i \in 1..Len(caps), n \in BodySizes \ {0} : ~(n <= caps[i])

\* What routing does not look at: the cap of a RAM shard, which is below the
\* per-object cap when there are enough shards, and the per-object cap for an object
\* under the small-object threshold.
Overlooked(n) ==
    \/ n <= cfg.ramObject /\ \E i \in 1..ShardCount(cfg.ramMax) : n > Caps(cfg.ramMax)[i]
    \/ n > cfg.ramObject /\ n <= cfg.small

\* Outside these two cases routing never throws an object away that the disk tier
\* would have kept: an object of declared size that ends up nowhere does not fit
\* every disk shard.
NowhereOnlyIfTooLarge ==
    fate = "nowhere" /\ obj.declared >= 0 /\ ~Overlooked(obj.size) =>
        \E i \in 1..ShardCount(cfg.diskMax) : ~DiskKeeps(obj.size, i)

\* What the comments in NewStore and pickTier say: an object of known size is not
\* sent to a RAM tier that drops it.  (Refuted in both cases: README, Known limits.)
NeverDroppedByRAM ==
    fate = "nowhere" /\ obj.declared >= 0 =>
        \E i \in 1..ShardCount(cfg.diskMax) : ~DiskKeeps(obj.size, i)

\* What the comment in NewStore says of the bounds a RAM writer meets: neither is
\* looser than the tier itself.  (Refuted for the default budget: README, Known
\* limits.)
BoundsWithinTier == fate = "ram" => cfg.ramObject <= cfg.ramMax /\ cfg.budget <= cfg.ramMax
=============================================================================
