--------------------------- MODULE DiskTierProofs ---------------------------
(* The invariants of DiskTier, proved for every number of keys and writers,   *)
(* every family of layouts, every number of crashes and restarts, and with    *)
(* any of the failures allowed.                                               *)
EXTENDS DiskTier, TLAPS

\* The steps are propositional and about sets; those with arithmetic or sequences
\* cite SMT.
USE ZenonT(90) DEF indexVars

-----------------------------------------------------------------------------
(* The inductive invariant, what the helpers do to a shard, the kinds of      *)
(* steps, and what holds shard by shard: types, accounting and caps.          *)

Resting == \A w \in Writers : st[w] \in {"idle", "done"}

\* Only an open tier has writers, flushes and a Close under way, and a reset has
\* no writers beside it.
ActiveInv ==
    /\ phase # "open" => Resting /\ closing = "no" /\ \A f \in Flushers : fpc[f] = "idle"
    /\ fpc["loop"] # "clear"
    /\ fpc["reset"] # "idle" => Resting

\* A commit past its first step holds its shard's lock, has taken out the entry
\* it replaces, and writes an object the shard can hold; nobody else holds a lock.
LockInv ==
    /\ \A w \in Writers : st[w] \in {"open", "evict"} => wkey[w] \in Keys
    /\ \A w \in Writers : st[w] = "evict" =>
         /\ locked[Shard(wkey[w])] = w
         /\ items[wkey[w]] = None
         /\ len[w] <= Cap(Shard(wkey[w]))
    /\ \A s \in Shards : locked[s] # None =>
         st[locked[s]] = "evict" /\ Shard(wkey[locked[s]]) = s

\* An entry and the blob at its path have one length, in every phase.
SizeInv == \A k \in Keys : items[k] # None /\ blob[k] # None => items[k].size = blob[k].size

\* Once the temp files are reaped, those that exist belong to active writers or are
\* those whose remove failed.
TempInv ==
    phase # "reap" => wip \subseteq {w \in Writers : st[w] \in {"open", "evict"}} \cup strayTmp

\* The keys of a listing are distinct; a snapshot under way has been through the
\* shards before its next one.
KeysDistinct(l) == \A i, j \in 1..Len(l) : l[i].key = l[j].key => i = j

ListInv ==
    /\ index # None => KeysDistinct(index)
    /\ indexTmp # None => KeysDistinct(indexTmp)
    /\ \A f \in Flushers :
         /\ KeysDistinct(snap[f])
         /\ fpc[f] \in {"idle", "clear"} => snap[f] = <<>>
         /\ fpc[f] = "snap" => \A i \in 1..Len(snap[f]) : Shard(snap[f][i].key) < fi[f]

\* What load has still to go through is in the index file and not yet resident.
LoadInv ==
    /\ phase \in {"reap", "read"} => items = Nothing
    /\ phase = "load" =>
         /\ KeysDistinct(todo)
         /\ \A i \in 1..Len(todo) : items[todo[i].key] = None /\ todo[i] \in IndexEntries

\* A reset that has cleared a shard leaves it empty, and flushes an empty tier.
ResetInv ==
    /\ fpc["reset"] = "clear" => \A s \in Shards : s < fi["reset"] => Resident(s) = {}
    /\ fpc["reset"] \in {"snap", "write", "rename", "rearm"} => items = Nothing

\* Where the entries of a clean shard are listed, at each place of a flush: in the
\* index, in the snapshot once it went through the shard, in the temp file of the
\* index.  A flush that failed re-arms the flags of all shards.
EntryOf(k) == [key |-> k, obj |-> items[k].obj, size |-> items[k].size]
Listed(s, E) == \A k \in Resident(s) : EntryOf(k) \in E

CleanAt(s) ==
    /\ fpc["loop"] = "idle" => Listed(s, IndexEntries)
    /\ fpc["loop"] = "snap" =>
         /\ s >= fi["loop"] \/ ~anyDirty["loop"] => Listed(s, IndexEntries)
         /\ s < fi["loop"] => Listed(s, Entries(snap["loop"]))
    /\ fpc["loop"] = "write" => Listed(s, Entries(snap["loop"]))
    /\ fpc["loop"] = "rename" /\ indexTmp # None => Listed(s, Entries(indexTmp))
    /\ fpc["loop"] = "rearm" /\ s < fi["loop"] => Resident(s) = {}

FlushInv == closing # "failed" => \A s \in Shards : ~dirty[s] => CleanAt(s)

IInv ==
    /\ TypeOK /\ ActiveInv /\ LockInv /\ ShardConsistent /\ WithinCap
    /\ SizeInv /\ TempInv /\ ListInv /\ LoadInv /\ ResetInv /\ FlushInv
-----------------------------------------------------------------------------
\* The assumptions on the layouts, at the layout in use.
LEMMA LayoutFacts ==
  ASSUME TypeOK
  PROVE  /\ layout.n \in Nat \ {0} /\ 0 \in Shards
         /\ \A k \in Keys : Shard(k) \in Shards
         /\ \A s \in Shards : Cap(s) \in Int /\ s \in Nat
         /\ \A s \in Shards : ~LastShard(s) => s + 1 \in Shards
<1>1. layout \in Layouts
  BY DEF TypeOK
<1>2. /\ layout.n \in Nat \ {0}
      /\ layout.shardOf \in [Keys -> 0..(layout.n - 1)]
      /\ layout.cap \in [0..(layout.n - 1) -> Int]
  BY <1>1, DiskAssumptions
<1> QED BY SMT, <1>2 DEF Shards, Shard, Cap, LastShard

\* A resident key is in its shard's list, and a shard's entries have lengths.
LEMMA ResidentFacts ==
  ASSUME TypeOK, ShardConsistent, NEW s \in Shards
  PROVE  /\ IsFiniteSet(Resident(s))
         /\ \A x \in Resident(s) : x \in Keys /\ items[x] \in Metas /\ Sizes[x] \in Nat
                                    /\ Sizes[x] = items[x].size
         /\ lru[s] \in Seq(Keys) /\ Distinct(lru[s]) /\ Entries(lru[s]) = Resident(s)
         /\ curBytes[s] \in Int /\ curBytes[s] = Bytes(Resident(s), Sizes)
<1>1. Resident(s) \subseteq Keys
  BY DEF Resident
<1>2. IsFiniteSet(Resident(s))
  BY <1>1, FinitePart, DiskAssumptions
<1>3. ASSUME NEW x \in Resident(s)
      PROVE  /\ x \in Keys /\ items[x] \in Metas
             /\ Sizes[x] \in Nat /\ Sizes[x] = items[x].size
  <2>1. x \in Keys /\ items[x] # None
    BY DEF Resident
  <2>2. items[x] \in Metas
    BY <2>1 DEF TypeOK
  <2>3. items[x].size \in Nat
    BY SMT, <2>2, DiskAssumptions DEF Metas
  <2> QED BY <2>1, <2>2, <2>3 DEF Sizes
<1> QED BY <1>2, <1>3 DEF TypeOK, ShardConsistent

\* A removed file is gone or stray, and a file that stays stays as stray as it was.
RemovedOrStray(gone) ==
    /\ blob' \in [Keys -> Metas \cup {None}] /\ stray' \subseteq Keys
    /\ \A x \in Keys : /\ blob'[x] \in {blob[x], None}
                       /\ x \in gone => blob'[x] = None \/ x \in stray'
                       /\ x \in stray /\ blob'[x] # None => x \in stray'

\* Removing the files of some keys (the ignored error of os.Remove).
LEMMA RemoveBlobsFacts ==
  ASSUME TypeOK, NEW gone \in SUBSET Keys, RemoveBlobs(gone)
  PROVE  RemovedOrStray(gone)
<1>1. PICK kept \in Unremoved({k \in gone : blob[k] # None}) :
        /\ blob' = [k \in Keys |-> IF k \in gone \ kept THEN None ELSE blob[k]]
        /\ stray' = (stray \ gone) \cup kept
  BY DEF RemoveBlobs
<1>2. kept \subseteq gone
  BY DEF Unremoved
<1> QED BY <1>1, <1>2 DEF RemovedOrStray, TypeOK

\* Taking an entry out leaves list, entries and byte count in step (removeLocked).
LEMMA RemoveFacts ==
  ASSUME TypeOK, ShardConsistent, NEW k \in Keys, items[k] # None,
         RemoveLocked(k), layout' = layout
  PROVE  /\ items' \in [Keys -> Metas \cup {None}] /\ RemovedOrStray({k})
         /\ lru' \in [Shards -> Seq(Keys)] /\ curBytes' \in [Shards -> Int]
         /\ dirty' \in [Shards -> BOOLEAN]
         /\ ShardConsistent'
         /\ \A t \in Shards : /\ curBytes'[t] <= curBytes[t]
                              /\ lru[t] = <<>> => lru'[t] = <<>>
                              /\ dirty[t] => dirty'[t]
         /\ \A x \in Keys : items'[x] = IF x = k THEN None ELSE items[x]
         /\ dirty'[Shard(k)]
<1>0. PICK s \in Shards : s = Shard(k)
  BY LayoutFacts
<1>1. Shards' = Shards /\ \A x : Shard(x)' = Shard(x)
  BY DEF Shards, Shard
<1>2. /\ items' \in [Keys -> Metas \cup {None}]
      /\ \A x \in Keys : items'[x] = IF x = k THEN None ELSE items[x]
      /\ RemovedOrStray({k})
  BY RemoveBlobsFacts DEF RemoveLocked, TypeOK
<1>3. /\ dirty' \in [Shards -> BOOLEAN] /\ dirty'[s]
      /\ \A t \in Shards : dirty[t] => dirty'[t]
  BY <1>0 DEF RemoveLocked, MarkDirty, TypeOK
<1>4. k \in Resident(s)
  BY <1>0 DEF Resident
<1>5. items[k].size \in Nat /\ Sizes[k] = items[k].size
  BY <1>4, ResidentFacts
<1>6. curBytes' = [curBytes EXCEPT ![s] = curBytes[s] - items[k].size]
  BY <1>0 DEF RemoveLocked, Discharge
<1>7. /\ curBytes' \in [Shards -> Int]
      /\ curBytes'[s] = curBytes[s] - items[k].size
      /\ \A t \in Shards \ {s} : curBytes'[t] = curBytes[t]
      /\ \A t \in Shards : curBytes[t] \in Int
  BY SMT, <1>5, <1>6 DEF TypeOK
<1>8. /\ RemoveKey(lru[s], k) \in Seq(Keys)
      /\ Entries(RemoveKey(lru[s], k)) = Resident(s) \ {k}
      /\ Distinct(RemoveKey(lru[s], k))
  BY SMT, <1>4, ResidentFacts, RemoveKeyFacts
<1>9. /\ lru' \in [Shards -> Seq(Keys)]
      /\ lru'[s] = RemoveKey(lru[s], k)
      /\ \A t \in Shards \ {s} : lru'[t] = lru[t]
  BY <1>0, <1>8 DEF RemoveLocked, TypeOK
<1>10. /\ Resident(s)' = Resident(s) \ {k}
       /\ \A t \in Shards \ {s} : Resident(t)' = Resident(t)
  BY <1>0, <1>1, <1>2 DEF Resident
<1>11. \A x \in Keys \ {k} : Sizes'[x] = Sizes[x]
  BY <1>2 DEF Sizes
<1>12. ASSUME NEW t \in Shards
       PROVE  /\ Distinct(lru'[t]) /\ Entries(lru'[t]) = Resident(t)'
              /\ curBytes'[t] = Bytes(Resident(t)', Sizes')
  <2>1. CASE t = s
    <3>1. Bytes(Resident(s) \ {k}, Sizes') = Bytes(Resident(s), Sizes) - Sizes[k]
      <4>1. PICK R, f, g : R = Resident(s) /\ f = Sizes /\ g = Sizes'
        OBVIOUS
      <4>2. /\ IsFiniteSet(R) /\ k \in R /\ \A y \in R : f[y] \in Nat
            /\ \A y \in R \ {k} : g[y] = f[y]
        BY <1>4, <1>11, <4>1, ResidentFacts
      <4>3. Bytes(R \ {k}, g) = Bytes(R, f) - f[k]
        BY <4>2, BytesRemove
      <4> QED BY <4>1, <4>3
    <3> QED BY <1>5, <1>7, <1>8, <1>9, <1>10, <2>1, <3>1, ResidentFacts
  <2>2. CASE t # s
    <3>1. k \notin Resident(t)
      BY <1>0, <2>2 DEF Resident
    <3>2. \A y \in Resident(t) : Sizes'[y] = Sizes[y]
      BY <1>11, <3>1, ResidentFacts
    <3>3. Bytes(Resident(t), Sizes') = Bytes(Resident(t), Sizes)
      <4>1. PICK R, f, g : R = Resident(t) /\ f = Sizes /\ g = Sizes'
        OBVIOUS
      <4>2. Bytes(R, g) = Bytes(R, f)
        BY <3>2, <4>1, BytesSame
      <4> QED BY <4>1, <4>2
    <3> QED BY <1>7, <1>9, <1>10, <2>2, <3>3, ResidentFacts
  <2> QED BY <2>1, <2>2
<1>13. ShardConsistent'
  BY <1>1, <1>12 DEF ShardConsistent
<1>14. \A t \in Shards : curBytes'[t] <= curBytes[t]
  BY SMT, <1>5, <1>7
<1>15. \A t \in Shards : lru[t] = <<>> => lru'[t] = <<>>
  <2>1. lru[s] # <<>>
    BY SMT, <1>4, ResidentFacts DEF Entries
  <2> QED BY <1>9, <2>1
<1> QED BY <1>0, <1>2, <1>3, <1>7, <1>9, <1>13, <1>14, <1>15

\* Putting in an entry that was not there, at the front, leaves them in step
\* (commit, and load's distribution of the index).
LEMMA InsertFacts ==
  ASSUME TypeOK, ShardConsistent, NEW k \in Keys, NEW m \in Metas, items[k] = None,
         items' = [items EXCEPT ![k] = m],
         lru' = [lru EXCEPT ![Shard(k)] = PushFront(lru[Shard(k)], k)],
         curBytes' = [curBytes EXCEPT ![Shard(k)] = curBytes[Shard(k)] + m.size],
         layout' = layout
  PROVE  /\ items' \in [Keys -> Metas \cup {None}]
         /\ lru' \in [Shards -> Seq(Keys)] /\ curBytes' \in [Shards -> Int]
         /\ ShardConsistent'
         /\ \A t \in Shards \ {Shard(k)} : curBytes'[t] = curBytes[t] /\ lru'[t] = lru[t]
         /\ curBytes'[Shard(k)] = curBytes[Shard(k)] + m.size
         /\ \A x \in Keys : items'[x] = IF x = k THEN m ELSE items[x]
<1>0. PICK s \in Shards : s = Shard(k)
  BY LayoutFacts
<1>1. Shards' = Shards /\ \A x : Shard(x)' = Shard(x)
  BY DEF Shards, Shard
<1>2. /\ items' \in [Keys -> Metas \cup {None}]
      /\ \A x \in Keys : items'[x] = IF x = k THEN m ELSE items[x]
  BY DEF TypeOK
<1>3. m # None /\ m.size \in Nat
  BY SMT, DiskAssumptions DEF Metas
<1>4. /\ curBytes' \in [Shards -> Int]
      /\ curBytes'[s] = curBytes[s] + m.size
      /\ \A t \in Shards \ {s} : curBytes'[t] = curBytes[t]
  BY SMT, <1>0, <1>3 DEF TypeOK
<1>5. /\ Resident(s)' = Resident(s) \cup {k} /\ k \notin Resident(s)
      /\ \A t \in Shards \ {s} : Resident(t)' = Resident(t) /\ k \notin Resident(t)
  BY <1>0, <1>1, <1>2, <1>3 DEF Resident
<1>6. /\ PushFront(lru[s], k) \in Seq(Keys)
      /\ Entries(PushFront(lru[s], k)) = Resident(s) \cup {k}
      /\ Distinct(PushFront(lru[s], k))
  BY SMTT(30), <1>5, ResidentFacts, PushFrontFacts
<1>7. /\ lru' \in [Shards -> Seq(Keys)]
      /\ lru'[s] = PushFront(lru[s], k)
      /\ \A t \in Shards \ {s} : lru'[t] = lru[t]
  BY <1>0, <1>6 DEF TypeOK
<1>8. Sizes'[k] = m.size /\ \A x \in Keys \ {k} : Sizes'[x] = Sizes[x]
  BY <1>2, <1>3 DEF Sizes
<1>9. ASSUME NEW t \in Shards
      PROVE  /\ Distinct(lru'[t]) /\ Entries(lru'[t]) = Resident(t)'
             /\ curBytes'[t] = Bytes(Resident(t)', Sizes')
  <2>1. CASE t = s
    <3>1. Bytes(Resident(s) \cup {k}, Sizes') = Bytes(Resident(s), Sizes) + m.size
      <4>1. PICK R, f, g, n : R = Resident(s) /\ f = Sizes /\ g = Sizes' /\ n = m.size
        OBVIOUS
      <4>2. /\ IsFiniteSet(R) /\ k \notin R /\ n \in Nat /\ g[k] = n
            /\ \A x \in R : f[x] \in Nat /\ g[x] = f[x]
        BY <1>3, <1>5, <1>8, <4>1, ResidentFacts
      <4>3. Bytes(R \cup {k}, g) = Bytes(R, f) + n
        BY SMT, <4>2, BytesInsert
      <4> QED BY <4>1, <4>3
    <3> QED BY <1>4, <1>5, <1>6, <1>7, <2>1, <3>1, ResidentFacts
  <2>2. CASE t # s
    <3>1. \A y \in Resident(t) : Sizes'[y] = Sizes[y]
      BY <1>5, <1>8, <2>2, ResidentFacts
    <3>2. Bytes(Resident(t), Sizes') = Bytes(Resident(t), Sizes)
      <4>1. PICK R, f, g : R = Resident(t) /\ f = Sizes /\ g = Sizes'
        OBVIOUS
      <4>2. Bytes(R, g) = Bytes(R, f)
        BY <3>1, <4>1, BytesSame
      <4> QED BY <4>1, <4>2
    <3> QED BY <1>4, <1>5, <1>7, <2>2, <3>2, ResidentFacts
  <2> QED BY <2>1, <2>2
<1>10. ShardConsistent'
  BY <1>1, <1>9 DEF ShardConsistent
<1> QED BY <1>0, <1>2, <1>4, <1>7, <1>10

\* Clearing a shard leaves it empty and its account at zero (Reset).
LEMMA ClearFacts ==
  ASSUME TypeOK, ShardConsistent, ResetShard
  PROVE  /\ items' \in [Keys -> Metas \cup {None}] /\ RemovedOrStray(Resident(fi["reset"]))
         /\ lru' \in [Shards -> Seq(Keys)] /\ curBytes' \in [Shards -> Int]
         /\ dirty' \in [Shards -> BOOLEAN]
         /\ ShardConsistent'
         /\ \A t \in Shards : /\ curBytes'[t] = curBytes[t] \/ lru'[t] = <<>>
                              /\ lru[t] = <<>> => lru'[t] = <<>>
                              /\ dirty[t] => dirty'[t]
         /\ \A x \in Keys : /\ items'[x] \in {items[x], None}
                            /\ items'[x] # items[x] => dirty'[Shard(x)] /\ x \in Resident(fi["reset"])
                            /\ Shard(x) = fi["reset"] => items'[x] = None
<1>0. PICK s \in Shards : s = fi["reset"]
  BY DEF TypeOK, Flushers
<1>1. layout' = layout /\ Shards' = Shards /\ \A x : Shard(x)' = Shard(x)
  BY DEF ResetShard, lifeVars, Shards, Shard
<1>2. Entries(lru[s]) = Resident(s)
  BY ResidentFacts
<1>3. /\ items' = [k \in Keys |-> IF k \in Resident(s) THEN None ELSE items[k]]
      /\ RemoveBlobs(Resident(s))
      /\ lru' = [lru EXCEPT ![s] = <<>>]
      /\ curBytes' = [curBytes EXCEPT ![s] = curBytes[s] - Bytes(Resident(s), Sizes)]
      /\ dirty' = [dirty EXCEPT ![s] = dirty[s] \/ Resident(s) # {}]
  BY <1>0, <1>2 DEF ResetShard
<1>4. /\ items' \in [Keys -> Metas \cup {None}]
      /\ \A x \in Keys : items'[x] \in {items[x], None}
  BY <1>3 DEF TypeOK
<1>4a. RemovedOrStray(Resident(s))
  <2>1. Resident(s) \in SUBSET Keys
    BY DEF Resident
  <2> QED BY <1>3, <2>1, RemoveBlobsFacts
<1>5. curBytes[s] \in Int /\ curBytes[s] = Bytes(Resident(s), Sizes)
  BY ResidentFacts
<1>6. /\ curBytes' \in [Shards -> Int]
      /\ curBytes'[s] = 0
      /\ \A t \in Shards \ {s} : curBytes'[t] = curBytes[t]
  BY SMTT(30), <1>3, <1>5 DEF TypeOK
<1>7. /\ lru' \in [Shards -> Seq(Keys)] /\ lru'[s] = <<>>
      /\ \A t \in Shards \ {s} : lru'[t] = lru[t]
  BY SMT, <1>3 DEF TypeOK
<1>8. dirty' \in [Shards -> BOOLEAN] /\ \A t \in Shards : dirty[t] => dirty'[t]
  BY <1>3 DEF TypeOK
<1>9. \A x \in Keys : Shard(x) = s => items'[x] = None
  BY <1>3 DEF Resident
<1>10. \A x \in Keys : items'[x] # items[x] => dirty'[Shard(x)] /\ x \in Resident(s)
  <2> SUFFICES ASSUME NEW x \in Keys, items'[x] # items[x]
               PROVE  dirty'[Shard(x)] /\ x \in Resident(s)
    OBVIOUS
  <2>1. x \in Resident(s)
    BY <1>3
  <2> QED BY <1>3, <2>1 DEF Resident, TypeOK
<1>11. ASSUME NEW t \in Shards
       PROVE  /\ Distinct(lru'[t]) /\ Entries(lru'[t]) = Resident(t)'
              /\ curBytes'[t] = Bytes(Resident(t)', Sizes')
  <2>1. CASE t = s
    <3>1. Resident(s)' = {}
      BY <1>1, <1>9 DEF Resident
    <3>2. Distinct(lru'[s]) /\ Entries(lru'[s]) = {}
      BY SMT, <1>7 DEF Distinct, Entries
    <3> QED BY <1>6, <2>1, <3>1, <3>2, BytesEmpty
  <2>2. CASE t # s
    <3>1. Resident(t)' = Resident(t) /\ \A y \in Resident(t) : items'[y] = items[y]
      BY <1>1, <1>3, <2>2 DEF Resident
    <3>2. \A y \in Resident(t) : Sizes'[y] = Sizes[y]
      BY <3>1, ResidentFacts DEF Sizes
    <3>3. Bytes(Resident(t), Sizes') = Bytes(Resident(t), Sizes)
      <4>1. PICK R, f, g : R = Resident(t) /\ f = Sizes /\ g = Sizes'
        OBVIOUS
      <4>2. Bytes(R, g) = Bytes(R, f)
        BY <3>2, <4>1, BytesSame
      <4> QED BY <4>1, <4>2
    <3> QED BY <1>6, <1>7, <2>2, <3>1, <3>3, ResidentFacts
  <2> QED BY <2>1, <2>2
<1>12. ShardConsistent'
  BY <1>1, <1>11 DEF ShardConsistent
<1>13. \A t \in Shards : /\ curBytes'[t] = curBytes[t] \/ lru'[t] = <<>>
                         /\ lru[t] = <<>> => lru'[t] = <<>>
  BY <1>6, <1>7
<1> QED BY <1>0, <1>4, <1>4a, <1>6, <1>7, <1>8, <1>9, <1>10, <1>12, <1>13

\* Moving an entry to the front of its list changes nothing else (Get).
LEMMA MoveFacts ==
  ASSUME TypeOK, ShardConsistent, NEW k \in Keys, items[k] # None,
         lru' = [lru EXCEPT ![Shard(k)] = MoveToFront(lru[Shard(k)], k)],
         UNCHANGED <<layout, items, curBytes>>
  PROVE  /\ lru' \in [Shards -> Seq(Keys)]
         /\ ShardConsistent'
         /\ \A t \in Shards : lru[t] = <<>> => lru'[t] = <<>>
<1>0. PICK s \in Shards : s = Shard(k)
  BY LayoutFacts
<1>1. Shards' = Shards /\ \A x : Shard(x)' = Shard(x)
  BY DEF Shards, Shard
<1>2. k \in Entries(lru[s])
  BY <1>0, ResidentFacts DEF Resident
<1>3. /\ MoveToFront(lru[s], k) \in Seq(Keys)
      /\ Entries(MoveToFront(lru[s], k)) = Entries(lru[s])
      /\ Distinct(MoveToFront(lru[s], k))
  BY <1>2, ResidentFacts, MoveToFrontFacts
<1>4. /\ lru' \in [Shards -> Seq(Keys)]
      /\ lru'[s] = MoveToFront(lru[s], k)
      /\ \A t \in Shards \ {s} : lru'[t] = lru[t]
  BY <1>0, <1>3 DEF TypeOK
<1>5. Sizes' = Sizes /\ \A t : Resident(t)' = Resident(t)
  BY <1>1 DEF Sizes, Resident
<1>6. \A t \in Shards : /\ Distinct(lru'[t]) /\ Entries(lru'[t]) = Resident(t)'
                        /\ curBytes'[t] = Bytes(Resident(t)', Sizes')
  BY <1>3, <1>4, <1>5 DEF ShardConsistent
<1>7. lru[s] # <<>>
  BY SMT, <1>2 DEF Entries
<1> QED BY <1>1, <1>4, <1>6, <1>7 DEF ShardConsistent

\* A snapshot of a shard lists every entry of it once, as it is.
LEMMA GatherFacts ==
  ASSUME TypeOK, ShardConsistent, NEW f \in Flushers, NEW s \in Shards
  PROVE  /\ Gather(f, s) \in Listing
         /\ \A e \in Entries(snap[f]) : e \in Entries(Gather(f, s))
         /\ Listed(s, Entries(Gather(f, s)))
         /\ \A i \in 1..Len(Gather(f, s)) :
              Shard(Gather(f, s)[i].key) = s \/ \E j \in 1..Len(snap[f]) : Gather(f, s)[i] = snap[f][j]
         /\ (/\ KeysDistinct(snap[f])
             /\ \A i \in 1..Len(snap[f]) : Shard(snap[f][i].key) < s)
            => KeysDistinct(Gather(f, s))
<1> DEFINE E == [key : Keys, obj : Writers, size : 0..MaxLen]
<1>0. snap[f] \in Seq(E)
  BY DEF TypeOK, Listing
<1>1. PICK a, b : a = snap[f] /\ b = ShardEntries(s)
  OBVIOUS
<1>2. a \in Seq(E)
  BY <1>0, <1>1
<1>3. lru[s] \in Seq(Keys) /\ Distinct(lru[s]) /\ Entries(lru[s]) = Resident(s)
  BY ResidentFacts
<1>4. \A i \in 1..Len(lru[s]) : lru[s][i] \in Resident(s) /\ lru[s][i] \in Keys
  BY SMT, <1>3 DEF Entries
<1>5. \A i \in 1..Len(lru[s]) : items[lru[s][i]] \in Metas
  BY <1>4, ResidentFacts
<1>6. /\ b \in Seq(E) /\ Len(b) = Len(lru[s])
      /\ \A i \in 1..Len(b) : b[i] = EntryOf(lru[s][i]) /\ b[i].key = lru[s][i]
  <2>1. \A i \in 1..Len(lru[s]) :
          [key |-> lru[s][i], obj |-> items[lru[s][i]].obj, size |-> items[lru[s][i]].size] \in E
    BY <1>4, <1>5 DEF Metas
  <2>2. Len(lru[s]) \in Nat
    BY SMT, <1>3
  <2>3. b = [i \in 1..Len(lru[s]) |-> [key |-> lru[s][i], obj |-> items[lru[s][i]].obj,
                                       size |-> items[lru[s][i]].size]]
    BY <1>1 DEF ShardEntries
  <2>4. b \in [1..Len(lru[s]) -> E]
    BY <2>1, <2>3
  <2>5. b \in Seq(E) /\ Len(b) = Len(lru[s])
    <3> HIDE DEF E
    <3>1. PICK n \in Nat : n = Len(lru[s])
      BY <2>2
    <3>2. b \in [1..n -> E]
      BY <2>4, <3>1
    <3>3. b \in Seq(E) /\ Len(b) = n
      BY SMT, <3>2
    <3> QED BY <3>1, <3>3
  <2> QED BY <2>3, <2>5 DEF EntryOf
<1>7. PICK c : c = Gather(f, s)
  OBVIOUS
<1>8. /\ c \in Seq(E) /\ Len(c) = Len(a) + Len(b)
      /\ \A i \in 1..Len(a) : c[i] = a[i]
      /\ \A i \in 1..Len(b) : c[Len(a) + i] = b[i]
      /\ Len(a) \in Nat /\ Len(b) \in Nat
  <2> HIDE DEF E
  <2>1. c = a \o b
    BY <1>1, <1>7 DEF Gather
  <2>2. a \in Seq(E) /\ b \in Seq(E)
    BY <1>2, <1>6
  <2> QED BY SMTT(30), <2>1, <2>2
<1>9. \A i \in 1..Len(c) : \/ i \in 1..Len(a) /\ c[i] = a[i]
                           \/ /\ i > Len(a) /\ i - Len(a) \in 1..Len(b)
                              /\ c[i] = b[i - Len(a)]
  <2> SUFFICES ASSUME NEW i \in 1..Len(c), i \notin 1..Len(a)
               PROVE  i > Len(a) /\ i - Len(a) \in 1..Len(b) /\ c[i] = b[i - Len(a)]
    BY <1>8
  <2>1. i > Len(a) /\ i - Len(a) \in 1..Len(b) /\ Len(a) + (i - Len(a)) = i
    BY SMT, <1>8
  <2> QED BY <1>8, <2>1
<1>10. \A i \in 1..Len(b) : Shard(b[i].key) = s
  BY <1>4, <1>6 DEF Resident
<1>11. \A e \in Entries(a) : e \in Entries(c)
  <2> SUFFICES ASSUME NEW i \in 1..Len(a) PROVE a[i] \in Entries(c)
    BY DEF Entries
  <2>1. i \in 1..Len(c) /\ c[i] = a[i]
    BY SMT, <1>8
  <2> QED BY <2>1 DEF Entries
<1>12. Listed(s, Entries(c))
  <2> SUFFICES ASSUME NEW k \in Resident(s) PROVE EntryOf(k) \in Entries(c)
    BY DEF Listed
  <2>1. PICK i \in 1..Len(lru[s]) : lru[s][i] = k
    BY <1>3 DEF Entries
  <2>2. i \in 1..Len(b) /\ b[i] = EntryOf(k)
    BY <1>6, <2>1
  <2>3. Len(a) + i \in 1..Len(c) /\ c[Len(a) + i] = b[i]
    BY SMTT(30), <1>8, <2>2
  <2> QED BY <2>2, <2>3 DEF Entries
<1>13. \A i \in 1..Len(c) : Shard(c[i].key) = s \/ \E j \in 1..Len(a) : c[i] = a[j]
  BY <1>9, <1>10
<1>14. ASSUME KeysDistinct(a), \A i \in 1..Len(a) : Shard(a[i].key) < s
       PROVE  KeysDistinct(c)
  <2> SUFFICES ASSUME NEW i \in 1..Len(c), NEW j \in 1..Len(c), c[i].key = c[j].key
               PROVE  i = j
    BY DEF KeysDistinct
  <2>1. s \in Int /\ ~(s < s)
    BY SMT, LayoutFacts
  <2>2. CASE i \in 1..Len(a) /\ j \in 1..Len(a)
    BY <1>8, <1>14, <2>2 DEF KeysDistinct
  <2>3. CASE i \in 1..Len(a) /\ j \notin 1..Len(a)
    <3>1. c[i] = a[i] /\ j - Len(a) \in 1..Len(b) /\ c[j] = b[j - Len(a)]
      BY SMTT(30), <1>9, <2>3
    <3>2. Shard(c[i].key) < s /\ Shard(c[j].key) = s
      BY <1>10, <1>14, <2>3, <3>1
    <3> QED BY <2>1, <3>2
  <2>4. CASE i \notin 1..Len(a) /\ j \in 1..Len(a)
    <3>1. c[j] = a[j] /\ i - Len(a) \in 1..Len(b) /\ c[i] = b[i - Len(a)]
      BY SMTT(30), <1>9, <2>4
    <3>2. Shard(c[j].key) < s /\ Shard(c[i].key) = s
      BY <1>10, <1>14, <2>4, <3>1
    <3> QED BY <2>1, <3>2
  <2>5. CASE i \notin 1..Len(a) /\ j \notin 1..Len(a)
    <3>1. /\ i - Len(a) \in 1..Len(b) /\ j - Len(a) \in 1..Len(b)
          /\ b[i - Len(a)].key = b[j - Len(a)].key
      BY <1>9, <2>5
    <3>2. lru[s][i - Len(a)] = lru[s][j - Len(a)]
      BY <1>6, <3>1
    <3>3. i - Len(a) = j - Len(a)
      BY <1>3, <1>6, <3>1, <3>2 DEF Distinct
    <3> QED BY SMTT(30), <1>8, <3>3
  <2> QED BY <2>2, <2>3, <2>4, <2>5
<1> QED BY <1>1, <1>7, <1>8, <1>11, <1>12, <1>13, <1>14 DEF Listing
-----------------------------------------------------------------------------
(* What a step can do to each part of the state.                              *)

\* The last entry of a listing that is not empty, and the rest of it.
LEMMA TodoFacts ==
  ASSUME TypeOK, todo # <<>>
  PROVE  /\ Len(todo) \in 1..Len(todo) /\ Len(todo) \in Nat
         /\ todo[Len(todo)] \in [key : Keys, obj : Writers, size : 0..MaxLen]
         /\ SubSeq(todo, 1, Len(todo) - 1) \in Listing
         /\ Len(SubSeq(todo, 1, Len(todo) - 1)) = Len(todo) - 1
         /\ \A i \in 1..(Len(todo) - 1) : SubSeq(todo, 1, Len(todo) - 1)[i] = todo[i]
<1> DEFINE E == [key : Keys, obj : Writers, size : 0..MaxLen]
<1>1. todo \in Seq(E)
  BY DEF TypeOK, Listing
<1> HIDE DEF E
<1>2. Len(todo) \in Nat /\ Len(todo) # 0
  BY SMTT(30), <1>1
<1>3. Len(todo) \in 1..Len(todo) /\ todo[Len(todo)] \in E
  BY SMTT(30), <1>1, <1>2
<1>4. SubSeq(todo, 1, Len(todo) - 1) \in Seq(E)
  BY SMTT(30), <1>1, <1>2
<1>5. /\ Len(SubSeq(todo, 1, Len(todo) - 1)) = Len(todo) - 1
      /\ \A i \in 1..(Len(todo) - 1) : SubSeq(todo, 1, Len(todo) - 1)[i] = todo[i]
  <2>1. PICK n \in Nat : n = Len(todo) - 1
    BY SMTT(30), <1>2
  <2>2. 1 \in Int /\ n \in Int /\ 1 <= n + 1 /\ n <= Len(todo)
    BY SMTT(30), <1>2, <2>1
  <2>3. Len(SubSeq(todo, 1, n)) = n /\ \A i \in 1..n : SubSeq(todo, 1, n)[i] = todo[i]
    BY SMTT(30), <1>1, <2>2
  <2> QED BY <2>1, <2>3
<1> QED BY <1>2, <1>3, <1>4, <1>5 DEF E, Listing

\* The entry at the back of a list is resident in that list's shard.
LEMMA BackResident ==
  ASSUME TypeOK, ShardConsistent, NEW s \in Shards, lru[s] # <<>>
  PROVE  Back(lru[s]) \in Keys /\ items[Back(lru[s])] # None /\ Shard(Back(lru[s])) = s
<1>1. Back(lru[s]) \in Entries(lru[s])
  BY ResidentFacts, BackFacts
<1> QED BY <1>1, ResidentFacts DEF Resident

Quiet ==
    /\ UNCHANGED <<layout, items, lru, curBytes>>
    /\ RemovedOrStray({})

TakesOut(k) == items[k] # None /\ RemoveLocked(k) /\ UNCHANGED <<layout, phase>>

Touches(k) ==
    /\ items[k] # None
    /\ lru' = [lru EXCEPT ![Shard(k)] = MoveToFront(lru[Shard(k)], k)]
    /\ UNCHANGED <<layout, phase, items, curBytes, dirty, blob, stray>>

Loads == LoadEntry /\ Loadable(todo[Len(todo)])

\* The entries, lists and accounts change in six ways: they stand still, an entry is
\* removed, touched, installed or loaded, a shard is cleared, the process ends.
LEMMA ShardKinds ==
  ASSUME TypeOK, LockInv, ShardConsistent, [Next]_vars
  PROVE  \/ Quiet
         \/ \E k \in Keys : TakesOut(k) \/ Touches(k)
         \/ \E w \in Writers : Install(w)
         \/ Loads \/ ResetShard \/ Exit \/ Crash
<1>0. ASSUME UNCHANGED <<blob, stray>> PROVE RemovedOrStray({})
  BY <1>0 DEF RemovedOrStray, TypeOK
<1>1. CASE UNCHANGED vars
  BY <1>0, <1>1 DEF vars, Quiet
<1>2. CASE Reap \/ ReadIndex \/ Opened
  BY <1>0, <1>2 DEF Reap, ReadIndex, Opened, Quiet, shardVars, dirVars
<1>3. CASE LoadEntry
  <2>1. CASE ~Loadable(todo[Len(todo)])
    <3>1. PICK k \in Keys : k = todo[Len(todo)].key
      BY <1>3, TodoFacts DEF LoadEntry
    <3>2. RemoveBlobs({k}) /\ UNCHANGED <<layout, items, lru, curBytes>>
      BY <1>3, <2>1, <3>1 DEF LoadEntry
    <3> QED BY <3>2, RemoveBlobsFacts DEF Quiet, RemovedOrStray
  <2> QED BY <1>3, <2>1 DEF Loads
<1>4. ASSUME NEW s \in Shards, Trim(s) PROVE \E k \in Keys : TakesOut(k)
  <2>1. Back(lru[s]) \in Keys /\ items[Back(lru[s])] # None
    BY <1>4, BackResident DEF Trim, Overfull
  <2> QED BY <1>4, <2>1 DEF Trim, TakesOut, lifeVars
<1>5. ASSUME NEW w \in Writers,
             \/ \E k \in Keys : Open(w, k)
             \/ \E n \in Chunks : Write(w, n)
             \/ Abort(w) \/ CommitRefused(w) \/ RenameFails(w)
      PROVE  Quiet
  BY <1>0, <1>5 DEF Open, Write, Abort, CommitRefused, Discard, RenameFails, Quiet,
                    lifeVars, shardVars, dirVars
<1>6. ASSUME NEW w \in Writers, CommitBegin(w) PROVE Quiet \/ \E k \in Keys : TakesOut(k)
  <2>1. wkey[w] \in Keys
    BY <1>6 DEF CommitBegin, LockInv
  <2> QED BY <1>0, <1>6, <2>1 DEF CommitBegin, TakesOut, Quiet, lifeVars
<1>7. ASSUME NEW w \in Writers, Evict(w) PROVE \E k \in Keys : TakesOut(k)
  <2>1. PICK s \in Shards : s = Shard(wkey[w])
    BY <1>7, LayoutFacts DEF Evict, LockInv
  <2>2. Back(lru[s]) \in Keys /\ items[Back(lru[s])] # None
    BY <1>7, <2>1, BackResident DEF Evict
  <2> QED BY <1>7, <2>1, <2>2 DEF Evict, TakesOut, lifeVars
<1>8. ASSUME NEW k \in Keys, Get(k) \/ Delete(k) PROVE TakesOut(k) \/ Touches(k)
  BY <1>8 DEF Get, Delete, TakesOut, Touches, lifeVars
<1>9. ASSUME NEW k \in Keys, Vanish(k) PROVE Quiet
  BY <1>9 DEF Vanish, Quiet, RemovedOrStray, TypeOK, lifeVars, shardVars
<1>10. CASE ResetBegin \/ Tick \/ Close \/ FinalFlush
  BY <1>0, <1>10 DEF ResetBegin, Tick, Close, FinalFlush, Quiet, lifeVars, shardVars, dirVars
<1>11. ASSUME NEW f \in Flushers, FlushStep(f) PROVE Quiet
  BY <1>0, <1>11 DEF FlushStep, SnapshotShard, WriteTmp, RenameIndex, WriteIndexFails, Rearm,
                     Quiet, lifeVars, shardVars, dirVars
<1> QED BY <1>1, <1>2, <1>3, <1>4, <1>5, <1>6, <1>7, <1>8, <1>9, <1>10, <1>11
        DEF Next, OpenStep, CommitStep

\* A step that at most sets a dirty flag.
FlushFrame ==
    /\ UNCHANGED <<layout, fpc, fi, snap, anyDirty, closing, index, indexTmp>>
    /\ dirty' = dirty \/ \E s \in Shards : dirty' = [dirty EXCEPT ![s] = TRUE]

\* The flushers, Close and the index file change in six ways; the other steps of a
\* process only ever set dirty flags.
LEMMA FlushKinds ==
  ASSUME TypeOK, LockInv, ShardConsistent, [Next]_vars
  PROVE  \/ FlushFrame
         \/ ResetBegin \/ ResetShard \/ Tick \/ Close \/ FinalFlush
         \/ \E f \in Flushers : FlushStep(f)
         \/ Exit \/ Crash
<1>0. ASSUME NEW k \in Keys, RemoveLocked(k)
      PROVE  \E s \in Shards : dirty' = [dirty EXCEPT ![s] = TRUE]
  BY <1>0, LayoutFacts DEF RemoveLocked, MarkDirty
<1>1. CASE UNCHANGED vars
  BY <1>1 DEF vars, FlushFrame
<1>2. CASE Reap \/ ReadIndex \/ LoadEntry \/ Opened
  BY <1>2 DEF Reap, ReadIndex, LoadEntry, Opened, FlushFrame, shardVars, flushVars, dirVars
<1>3. ASSUME NEW s \in Shards, Trim(s) PROVE FlushFrame
  <2>1. Back(lru[s]) \in Keys
    BY <1>3, BackResident DEF Trim, Overfull
  <2> QED BY <1>0, <1>3, <2>1 DEF Trim, FlushFrame, lifeVars, flushVars
<1>4. ASSUME NEW w \in Writers,
             \/ \E k \in Keys : Open(w, k)
             \/ \E n \in Chunks : Write(w, n)
             \/ Abort(w) \/ CommitRefused(w) \/ RenameFails(w)
      PROVE  FlushFrame
  BY <1>4 DEF Open, Write, Abort, CommitRefused, Discard, RenameFails, FlushFrame,
              lifeVars, shardVars, flushVars, dirVars
<1>5. ASSUME NEW w \in Writers, CommitBegin(w) PROVE FlushFrame
  <2>1. wkey[w] \in Keys
    BY <1>5 DEF CommitBegin, LockInv
  <2> QED BY <1>0, <1>5, <2>1 DEF CommitBegin, FlushFrame, lifeVars, flushVars
<1>6. ASSUME NEW w \in Writers, Evict(w) PROVE FlushFrame
  <2>1. PICK s \in Shards : s = Shard(wkey[w])
    BY <1>6, LayoutFacts DEF Evict, LockInv
  <2>2. Back(lru[s]) \in Keys
    BY <1>6, <2>1, BackResident DEF Evict
  <2> QED BY <1>0, <1>6, <2>1, <2>2 DEF Evict, FlushFrame, lifeVars, flushVars
<1>7. ASSUME NEW w \in Writers, Install(w) PROVE FlushFrame
  <2>1. Shard(wkey[w]) \in Shards
    BY <1>7, LayoutFacts DEF Install, LockInv
  <2> QED BY <1>7, <2>1 DEF Install, MarkDirty, FlushFrame, lifeVars, flushVars
<1>8. ASSUME NEW k \in Keys, Get(k) \/ Delete(k) \/ Vanish(k) PROVE FlushFrame
  BY <1>0, <1>8 DEF Get, Delete, Vanish, FlushFrame, lifeVars, shardVars, flushVars
<1> QED BY <1>1, <1>2, <1>3, <1>4, <1>5, <1>6, <1>7, <1>8
        DEF Next, OpenStep, CommitStep

\* The phase of the process and what load has to go through change in five ways.
LEMMA LifeKinds ==
  ASSUME [Next]_vars
  PROVE  \/ UNCHANGED lifeVars
         \/ Reap \/ ReadIndex \/ LoadEntry \/ Opened
         \/ Exit \/ Crash
BY DEF Next, OpenStep, CommitStep, FlushStep, Trim, Open, Write, Abort, CommitRefused, Discard,
       CommitBegin, Evict, Install, RenameFails, Get, Delete, Vanish, ResetBegin, ResetShard,
       Tick, Close, FinalFlush, SnapshotShard, WriteTmp, RenameIndex, WriteIndexFails, Rearm,
       vars, lifeVars

\* A step that leaves writers, temp files and locks alone.
WriterFrame == UNCHANGED <<st, wkey, len, wip, strayTmp, locked>>

\* The writers, their temp files and the locks change by the writers' own steps,
\* when temp files are reaped, and when the process ends.
LEMMA WriterKinds ==
  ASSUME [Next]_vars
  PROVE  \/ WriterFrame
         \/ \E w \in Writers :
              \/ \E k \in Keys : Open(w, k)
              \/ \E n \in Chunks : Write(w, n)
              \/ Abort(w) \/ CommitRefused(w)
              \/ CommitBegin(w) \/ Install(w) \/ RenameFails(w)
         \/ Reap
         \/ Exit \/ Crash
BY DEF Next, OpenStep, CommitStep, FlushStep, ReadIndex, LoadEntry, Trim, Opened, Evict, Get,
       Delete, Vanish, ResetBegin, ResetShard, Tick, Close, FinalFlush, SnapshotShard, WriteTmp,
       RenameIndex, WriteIndexFails, Rearm, vars, WriterFrame,
       shardVars, writerVars, dirVars

\* Entries and blobs only go, and with an entry its blob, unless the remove fails; the
\* shard is dirty then.
Removes ==
    /\ layout' = layout
    /\ \A k \in Keys :
         /\ items'[k] \in {items[k], None} /\ blob'[k] \in {blob[k], None}
         /\ items'[k] # items[k] => dirty'[Shard(k)] /\ (blob'[k] = None \/ k \in stray')
         /\ k \in stray /\ blob'[k] # None => k \in stray'

\* Only a commit's install and load put entries in (commit, load).
LEMMA RemovesOrInserts ==
  ASSUME TypeOK, LockInv, ShardConsistent, [Next]_vars
  PROVE  Removes \/ (\E w \in Writers : Install(w)) \/ Loads \/ Exit \/ Crash
<1>1. CASE Quiet
  BY <1>1 DEF Quiet, RemovedOrStray, Removes
<1>2. ASSUME NEW k \in Keys, TakesOut(k) PROVE Removes
  <2>1. /\ \A x \in Keys : items'[x] = IF x = k THEN None ELSE items[x]
        /\ dirty'[Shard(k)] /\ RemovedOrStray({k})
    BY <1>2, RemoveFacts DEF TakesOut
  <2> QED BY <1>2, <2>1 DEF TakesOut, RemovedOrStray, Removes
<1>3. ASSUME NEW k \in Keys, Touches(k) PROVE Removes
  BY <1>3 DEF Touches, Removes
<1>4. CASE ResetShard
  <2>1. layout' = layout
    BY <1>4 DEF ResetShard, lifeVars
  <2> QED BY <1>4, <2>1, ClearFacts DEF RemovedOrStray, Removes
<1> QED BY <1>1, <1>2, <1>3, <1>4, ShardKinds
-----------------------------------------------------------------------------
(* Each part of the invariant is kept by every step.                          *)

ShardTypes ==
    /\ items \in [Keys -> Metas \cup {None}] /\ blob \in [Keys -> Metas \cup {None}]
    /\ stray \subseteq Keys
    /\ lru \in [Shards -> Seq(Keys)] /\ curBytes \in [Shards -> Int]

\* What an install puts in (commit).
LEMMA InstallFacts ==
  ASSUME TypeOK, LockInv, ShardConsistent, NEW w \in Writers, Install(w)
  PROVE  /\ ShardTypes' /\ ShardConsistent'
         /\ wkey[w] \in Keys /\ NewMeta(w) \in Metas
         /\ \A t \in Shards \ {Shard(wkey[w])} : curBytes'[t] = curBytes[t] /\ lru'[t] = lru[t]
         /\ curBytes'[Shard(wkey[w])] = curBytes[Shard(wkey[w])] + len[w]
         /\ \A x \in Keys : /\ items'[x] = IF x = wkey[w] THEN NewMeta(w) ELSE items[x]
                            /\ blob'[x] = IF x = wkey[w] THEN NewMeta(w) ELSE blob[x]
         /\ stray' = stray \ {wkey[w]}
<1>1. PICK k \in Keys : k = wkey[w]
  BY DEF Install, LockInv
<1>2. PICK m : m = NewMeta(w)
  OBVIOUS
<1>3. m \in Metas /\ m.size = len[w]
  BY <1>2 DEF NewMeta, Metas, TypeOK
<1>4. /\ items[k] = None
      /\ items' = [items EXCEPT ![k] = m]
      /\ blob' = [blob EXCEPT ![k] = m] /\ stray' = stray \ {k}
      /\ lru' = [lru EXCEPT ![Shard(k)] = PushFront(lru[Shard(k)], k)]
      /\ curBytes' = [curBytes EXCEPT ![Shard(k)] = curBytes[Shard(k)] + m.size]
      /\ layout' = layout
  BY <1>1, <1>2, <1>3 DEF Install, LockInv, NewMeta, lifeVars
<1>5. /\ items' \in [Keys -> Metas \cup {None}]
      /\ lru' \in [Shards -> Seq(Keys)] /\ curBytes' \in [Shards -> Int]
      /\ ShardConsistent'
      /\ \A t \in Shards \ {Shard(k)} : curBytes'[t] = curBytes[t] /\ lru'[t] = lru[t]
      /\ curBytes'[Shard(k)] = curBytes[Shard(k)] + m.size
      /\ \A x \in Keys : items'[x] = IF x = k THEN m ELSE items[x]
  BY <1>3, <1>4, InsertFacts
<1>6. /\ blob' \in [Keys -> Metas \cup {None}] /\ stray' \subseteq Keys
      /\ \A x \in Keys : blob'[x] = IF x = k THEN m ELSE blob[x]
  BY <1>3, <1>4 DEF TypeOK
<1>7. Shards' = Shards
  BY <1>4 DEF Shards
<1> QED BY <1>1, <1>2, <1>3, <1>4, <1>5, <1>6, <1>7 DEF ShardTypes

\* What the entries of a listing are.
LEMMA ListingFacts ==
  ASSUME NEW l \in Listing
  PROVE  /\ Len(l) \in Nat
         /\ \A i \in 1..Len(l) : l[i].key \in Keys /\ l[i] \in Entries(l)
<1> DEFINE E == [key : Keys, obj : Writers, size : 0..MaxLen]
<1>1. l \in Seq(E)
  BY DEF Listing
<1> HIDE DEF E
<1>2. Len(l) \in Nat /\ \A i \in 1..Len(l) : l[i] \in E
  BY SMT, <1>1
<1>3. \A x \in E : x.key \in Keys
  BY DEF E
<1>4. \A i \in 1..Len(l) : l[i] \in Entries(l)
  BY DEF Entries
<1> QED BY <1>2, <1>3, <1>4

\* What load puts in.
LEMMA LoadFacts ==
  ASSUME TypeOK, LoadInv, ShardConsistent, Loads,
         NEW e, e = todo[Len(todo)]
  PROVE  /\ ShardTypes' /\ ShardConsistent'
         /\ Len(todo) \in 1..Len(todo)
         /\ e \in [key : Keys, obj : Writers, size : 0..MaxLen]
         /\ items[e.key] = None /\ layout' = layout
         /\ \A x \in Keys : items'[x] = IF x = e.key THEN [obj |-> e.obj, size |-> e.size]
                                                      ELSE items[x]
<1>1. /\ Len(todo) \in 1..Len(todo)
      /\ e \in [key : Keys, obj : Writers, size : 0..MaxLen]
  BY TodoFacts DEF Loads, LoadEntry
<1>2. PICK k \in Keys, m \in Metas : k = e.key /\ m = [obj |-> e.obj, size |-> e.size]
  BY <1>1 DEF Metas
<1>3. /\ items[k] = None
      /\ items' = [items EXCEPT ![k] = m]
      /\ lru' = [lru EXCEPT ![Shard(k)] = PushFront(lru[Shard(k)], k)]
      /\ curBytes' = [curBytes EXCEPT ![Shard(k)] = curBytes[Shard(k)] + m.size]
      /\ layout' = layout /\ blob' = blob /\ stray' = stray
  BY <1>1, <1>2 DEF Loads, LoadEntry, LoadInv
<1>4. /\ items' \in [Keys -> Metas \cup {None}]
      /\ lru' \in [Shards -> Seq(Keys)] /\ curBytes' \in [Shards -> Int]
      /\ ShardConsistent'
      /\ \A x \in Keys : items'[x] = IF x = k THEN m ELSE items[x]
  BY <1>3, InsertFacts
<1>5. blob' \in [Keys -> Metas \cup {None}] /\ stray' \subseteq Keys /\ Shards' = Shards
  BY <1>3 DEF TypeOK, Shards
<1> QED BY <1>1, <1>2, <1>3, <1>4, <1>5 DEF ShardTypes

\* A new process starts with an empty memory.
LEMMA NextProcessFacts ==
  ASSUME TypeOK, NextProcess
  PROVE  /\ ShardTypes' /\ ShardConsistent'
         /\ dirty' \in [Shards' -> BOOLEAN] /\ locked' \in [Shards' -> Writers \cup {None}]
         /\ fi' \in [Flushers -> Shards'] /\ layout' \in Layouts
         /\ \A s \in Shards' : locked'[s] = None
         /\ \A k \in Keys : items'[k] = None
<1>1. layout' \in Layouts /\ layout'.n \in Nat \ {0}
  BY DiskAssumptions DEF NextProcess
<1>2. Shards' = 0..(layout'.n - 1) /\ 0 \in Shards'
  BY SMT, <1>1 DEF Shards
<1>3. /\ items' = Nothing /\ lru' = Each(layout', <<>>) /\ curBytes' = Each(layout', 0)
      /\ dirty' = Each(layout', FALSE) /\ locked' = Each(layout', None)
      /\ fi' = AllFlushers(0) /\ blob' = blob /\ stray' = {}
  BY DEF NextProcess
<1>4. /\ \A s \in Shards' : /\ lru'[s] = <<>> /\ curBytes'[s] = 0 /\ locked'[s] = None
      /\ lru' \in [Shards' -> Seq(Keys)] /\ curBytes' \in [Shards' -> Int]
      /\ dirty' \in [Shards' -> BOOLEAN] /\ locked' \in [Shards' -> Writers \cup {None}]
  BY SMTT(30), <1>2, <1>3 DEF Each
<1>5. /\ \A k \in Keys : items'[k] = None
      /\ items' \in [Keys -> Metas \cup {None}] /\ blob' \in [Keys -> Metas \cup {None}]
      /\ fi' \in [Flushers -> Shards'] /\ stray' \subseteq Keys
  BY <1>2, <1>3 DEF Nothing, TypeOK, AllFlushers
<1>6. \A s \in Shards' : /\ Distinct(lru'[s]) /\ Entries(lru'[s]) = Resident(s)'
                         /\ curBytes'[s] = Bytes(Resident(s)', Sizes')
  <2> SUFFICES ASSUME NEW s \in Shards'
               PROVE  /\ Distinct(lru'[s]) /\ Entries(lru'[s]) = Resident(s)'
                      /\ curBytes'[s] = Bytes(Resident(s)', Sizes')
    OBVIOUS
  <2>1. Resident(s)' = {}
    BY <1>5 DEF Resident
  <2>2. Distinct(lru'[s]) /\ Entries(lru'[s]) = {}
    BY SMTT(30), <1>4 DEF Distinct, Entries
  <2> QED BY <1>4, <2>1, <2>2, BytesEmpty
<1> QED BY <1>1, <1>4, <1>5, <1>6 DEF ShardTypes, ShardConsistent

\* Entries, lists and accounts agree after every step.
LEMMA ShardStep ==
  ASSUME TypeOK, LockInv, LoadInv, ShardConsistent, [Next]_vars
  PROVE  ShardTypes' /\ ShardConsistent'
<1>1. CASE Quiet
  <2>1. Shards' = Shards /\ Sizes' = Sizes /\ \A s : Resident(s)' = Resident(s)
    BY <1>1 DEF Quiet, Shards, Sizes, Resident, Shard
  <2> QED BY <1>1, <2>1 DEF Quiet, RemovedOrStray, TypeOK, ShardTypes, ShardConsistent
<1>2. ASSUME NEW k \in Keys, TakesOut(k) PROVE ShardTypes' /\ ShardConsistent'
  <2>1. Shards' = Shards
    BY <1>2 DEF TakesOut, Shards
  <2> QED BY <1>2, <2>1, RemoveFacts DEF TakesOut, RemovedOrStray, ShardTypes
<1>3. ASSUME NEW k \in Keys, Touches(k) PROVE ShardTypes' /\ ShardConsistent'
  <2>1. Shards' = Shards
    BY <1>3 DEF Touches, Shards
  <2>2. lru' \in [Shards -> Seq(Keys)] /\ ShardConsistent'
    BY <1>3, MoveFacts DEF Touches
  <2> QED BY <1>3, <2>1, <2>2 DEF Touches, ShardTypes, TypeOK
<1>4. CASE ResetShard
  <2>1. Shards' = Shards
    BY <1>4 DEF ResetShard, lifeVars, Shards
  <2> QED BY <1>4, <2>1, ClearFacts DEF RemovedOrStray, ShardTypes
<1> QED BY <1>1, <1>2, <1>3, <1>4, ShardKinds, InstallFacts, LoadFacts, NextProcessFacts
        DEF Exit, Crash

\* A shard stays within its cap: removals make room, a commit installs what fits,
\* and NewDiskTier opens the tier only when nothing is left to trim.
LEMMA CapStep ==
  ASSUME TypeOK, LockInv, ShardConsistent, WithinCap, [Next]_vars
  PROVE  WithinCap'
<1> SUFFICES ASSUME phase' = "open"
             PROVE  \A s \in Shards' : curBytes'[s] <= Cap(s)' \/ lru'[s] = <<>>
  BY DEF WithinCap
<1>1. CASE Opened
  <2>1. /\ Shards' = Shards /\ \A s : Cap(s)' = Cap(s)
        /\ curBytes' = curBytes /\ lru' = lru
    BY <1>1 DEF Opened, shardVars, Shards, Cap
  <2>2. \A s \in Shards : ~(curBytes[s] > Cap(s)) \/ lru[s] = <<>>
    BY <1>1 DEF Opened, Overfull
  <2>3. \A s \in Shards : curBytes[s] \in Int /\ Cap(s) \in Int
    BY LayoutFacts DEF TypeOK
  <2> QED BY SMTT(30), <2>1, <2>2, <2>3
<1>2. CASE ~Opened
  <2>1. phase = "open" /\ layout' = layout
    BY <1>2, LifeKinds DEF Exit, Crash, lifeVars, Reap, ReadIndex, LoadEntry, NextProcess
  <2>2. Shards' = Shards /\ \A s : Cap(s)' = Cap(s)
    BY <2>1 DEF Shards, Cap
  <2>3. \A s \in Shards : /\ curBytes[s] \in Int /\ Cap(s) \in Int
                          /\ curBytes[s] <= Cap(s) \/ lru[s] = <<>>
    BY <2>1, LayoutFacts DEF WithinCap, TypeOK
  <2>4. CASE Quiet
    BY <2>2, <2>3, <2>4 DEF Quiet
  <2>5. ASSUME NEW k \in Keys, TakesOut(k)
        PROVE  \A s \in Shards : curBytes'[s] <= Cap(s) \/ lru'[s] = <<>>
    <3>1. /\ curBytes' \in [Shards -> Int]
          /\ \A s \in Shards : curBytes'[s] <= curBytes[s] /\ (lru[s] = <<>> => lru'[s] = <<>>)
      BY <2>5, RemoveFacts DEF TakesOut
    <3> QED BY SMTT(30), <2>3, <3>1
  <2>6. ASSUME NEW k \in Keys, Touches(k)
        PROVE  \A s \in Shards : curBytes'[s] <= Cap(s) \/ lru'[s] = <<>>
    <3>1. \A s \in Shards : lru[s] = <<>> => lru'[s] = <<>>
      BY <2>6, MoveFacts DEF Touches
    <3> QED BY <2>3, <2>6, <3>1 DEF Touches
  <2>7. ASSUME NEW w \in Writers, Install(w)
        PROVE  \A s \in Shards : curBytes'[s] <= Cap(s) \/ lru'[s] = <<>>
    <3>1. PICK s \in Shards : s = Shard(wkey[w])
      BY <2>7, InstallFacts, LayoutFacts
    <3>2. len[w] \in Int /\ len[w] <= Cap(s)
      <4>1. len[w] \in 0..MaxLen /\ MaxLen \in Nat
        BY DiskAssumptions DEF TypeOK
      <4>2. len[w] <= Cap(s)
        BY <2>7, <3>1 DEF Install, LockInv
      <4> QED BY SMTT(30), <4>1, <4>2
    <3>3. curBytes[s] + len[w] <= Cap(s)
      <4>1. CASE Fits(w, s)
        BY <4>1 DEF Fits
      <4>2. CASE lru[s] = <<>>
        <5>1. Resident(s) = {}
          BY SMTT(30), <4>2, ResidentFacts DEF Entries
        <5>2. curBytes[s] = 0
          BY <5>1, ResidentFacts, BytesEmpty
        <5> QED BY SMTT(30), <3>2, <5>2
      <4> QED BY <2>7, <3>1, <4>1, <4>2 DEF Install, HasRoom
    <3>4. /\ curBytes'[s] = curBytes[s] + len[w]
          /\ \A t \in Shards \ {s} : curBytes'[t] = curBytes[t] /\ lru'[t] = lru[t]
      BY <2>7, <3>1, InstallFacts
    <3> QED BY <2>3, <3>3, <3>4
  <2>8. ASSUME ResetShard
        PROVE  \A s \in Shards : curBytes'[s] <= Cap(s) \/ lru'[s] = <<>>
    <3>1. \A s \in Shards : /\ curBytes'[s] = curBytes[s] \/ lru'[s] = <<>>
                            /\ lru[s] = <<>> => lru'[s] = <<>>
      BY <2>8, ClearFacts
    <3> QED BY <2>3, <3>1
  <2> QED BY <2>1, <2>2, <2>4, <2>5, <2>6, <2>7, <2>8, ShardKinds DEF Exit, Crash, Loads, LoadEntry, NextProcess
<1> QED BY <1>1, <1>2

WriterTypes ==
    /\ st \in [Writers -> {"idle", "open", "evict", "done"}]
    /\ wkey \in [Writers -> Keys \cup {None}] /\ len \in [Writers -> 0..MaxLen]
    /\ wip \subseteq Writers /\ strayTmp \subseteq Writers /\ locked \in [Shards -> Writers \cup {None}]

\* The writers and the locks stay well typed.
LEMMA WriterTypeStep ==
  ASSUME TypeOK, LockInv, [Next]_vars
  PROVE  WriterTypes'
<1>0. 0 \in 0..MaxLen
  BY SMT, DiskAssumptions
<1>1. CASE NextProcess
  <2>1. locked' \in [Shards' -> Writers \cup {None}]
    BY <1>1, NextProcessFacts
  <2>2. /\ st' \in [Writers -> {"idle", "open", "evict", "done"}]
        /\ wkey' \in [Writers -> Keys \cup {None}] /\ len' \in [Writers -> 0..MaxLen]
        /\ wip' \subseteq Writers /\ strayTmp' \subseteq Writers
    BY <1>0, <1>1 DEF NextProcess, TypeOK
  <2> QED BY <2>1, <2>2 DEF WriterTypes
<1>2. CASE ~NextProcess
  <2>0. layout' = layout /\ Shards' = Shards
    BY <1>2, LifeKinds DEF Exit, Crash, lifeVars, Reap, ReadIndex, LoadEntry, Opened, Shards
  <2>1. CASE WriterFrame
    BY <2>0, <2>1 DEF WriterFrame, WriterTypes, TypeOK
  <2>2. ASSUME NEW w \in Writers, NEW k \in Keys, Open(w, k) PROVE WriterTypes'
    BY <2>0, <2>2 DEF Open, Goto, shardVars, WriterTypes, TypeOK
  <2>3. ASSUME NEW w \in Writers, NEW n \in Chunks, Write(w, n) PROVE WriterTypes'
    <3>1. len[w] \in 0..MaxLen /\ len[w] + n \in 0..MaxLen
      BY SMTT(30), <2>3, DiskAssumptions DEF Write, TypeOK
    <3> QED BY <2>0, <2>3, <3>1 DEF Write, shardVars, dirVars, WriterTypes, TypeOK
  <2>3a. ASSUME NEW w \in Writers, RemoveTemp(w) PROVE wip' \subseteq Writers /\ strayTmp' \subseteq Writers
    BY <2>3a DEF RemoveTemp, Unremoved, TypeOK
  <2>4. ASSUME NEW w \in Writers, Discard(w) PROVE WriterTypes'
    BY <1>0, <2>0, <2>3a, <2>4
       DEF Discard, Finish, Goto, shardVars, WriterTypes, TypeOK
  <2>5. ASSUME NEW w \in Writers, CommitBegin(w) PROVE WriterTypes'
    BY <2>0, <2>5 DEF CommitBegin, Goto, WriterTypes, TypeOK
  <2>6. ASSUME NEW w \in Writers, Install(w) \/ RenameFails(w) PROVE WriterTypes'
    <3>1. /\ Finish(w) /\ wip' \subseteq Writers /\ strayTmp' \subseteq Writers
          /\ locked' = [locked EXCEPT ![Shard(wkey[w])] = None]
      BY <2>3a, <2>6 DEF Install, RenameFails, TypeOK
    <3>2. /\ st' \in [Writers -> {"idle", "open", "evict", "done"}]
          /\ wkey' \in [Writers -> Keys \cup {None}] /\ len' \in [Writers -> 0..MaxLen]
      BY <1>0, <3>1 DEF Finish, Goto, TypeOK
    <3>3. locked' \in [Shards -> Writers \cup {None}]
      BY <3>1 DEF TypeOK
    <3> QED BY <2>0, <3>1, <3>2, <3>3 DEF WriterTypes
  <2>7. CASE Reap
    BY <2>0, <2>7 DEF Reap, Unremoved, shardVars, writerVars, WriterTypes, TypeOK
  <2> QED BY <1>2, <2>1, <2>2, <2>3, <2>4, <2>5, <2>6, <2>7, WriterKinds DEF Exit, Crash, Abort, CommitRefused
<1> QED BY <1>1, <1>2

FlushTypes ==
    /\ dirty \in [Shards -> BOOLEAN]
    /\ fpc \in [Flushers -> {"idle", "clear", "snap", "write", "rename", "rearm"}]
    /\ fi \in [Flushers -> Shards]
    /\ snap \in [Flushers -> Listing] /\ anyDirty \in [Flushers -> BOOLEAN]
    /\ closing \in {"no", "asked", "final", "done", "failed"}
    /\ index \in Listing \cup {None} /\ indexTmp \in Listing \cup {None}

\* The flushers and the index file stay well typed.
LEMMA FlushTypeStep ==
  ASSUME TypeOK, LockInv, ShardConsistent, [Next]_vars
  PROVE  FlushTypes'
<1>0. <<>> \in Listing
  BY SMT DEF Listing
<1>1. CASE NextProcess
  <2>1. dirty' \in [Shards' -> BOOLEAN] /\ fi' \in [Flushers -> Shards']
    BY <1>1, NextProcessFacts
  <2> QED BY <1>0, <1>1, <2>1 DEF NextProcess, AllFlushers, dirVars, FlushTypes, TypeOK
<1>2. CASE FlushFrame
  BY <1>2 DEF FlushFrame, Shards, FlushTypes, TypeOK
<1>3. CASE ResetBegin \/ Tick \/ Close \/ FinalFlush
  <2>1. Shards' = Shards /\ 0 \in Shards
    BY <1>3, LayoutFacts DEF ResetBegin, Tick, Close, FinalFlush, lifeVars, Shards
  <2>2. CASE ResetBegin
    BY <2>1, <2>2 DEF ResetBegin, At, Flushers, shardVars, dirVars, FlushTypes, TypeOK
  <2>3. CASE Tick
    BY <2>1, <2>3 DEF Tick, At, Flushers, shardVars, dirVars, FlushTypes, TypeOK
  <2>4. CASE Close
    BY <2>1, <2>4 DEF Close, shardVars, dirVars, FlushTypes, TypeOK
  <2>5. CASE FinalFlush
    BY <2>1, <2>5 DEF FinalFlush, At, Flushers, shardVars, dirVars, FlushTypes, TypeOK
  <2> QED BY <1>3, <2>2, <2>3, <2>4, <2>5
<1>4. CASE ResetShard
  <2>1. /\ Shards' = Shards /\ 0 \in Shards /\ fi["reset"] \in Shards
        /\ ~LastShard(fi["reset"]) => fi["reset"] + 1 \in Shards
    BY <1>4, LayoutFacts DEF ResetShard, lifeVars, Shards, TypeOK, Flushers
  <2>2. dirty' \in [Shards -> BOOLEAN]
    BY <1>4, ClearFacts
  <2>3. \/ At("reset", "snap", 0)
        \/ fi["reset"] + 1 \in Shards /\ At("reset", "clear", fi["reset"] + 1)
    BY <1>4, <2>1 DEF ResetShard
  <2>4. UNCHANGED <<snap, anyDirty, closing, index, indexTmp>>
    BY <1>4 DEF ResetShard
  <2> QED BY SMTT(30), <2>1, <2>2, <2>3, <2>4 DEF At, Flushers, FlushTypes, TypeOK
<1>5. ASSUME NEW f \in Flushers, FlushStep(f) PROVE FlushTypes'
  <2>1. /\ Shards' = Shards /\ 0 \in Shards /\ fi[f] \in Shards
        /\ ~LastShard(fi[f]) => fi[f] + 1 \in Shards
    BY <1>5, LayoutFacts DEF FlushStep, SnapshotShard, WriteTmp, RenameIndex, WriteIndexFails,
                             Rearm, lifeVars, Shards, TypeOK
  <2>2. CASE SnapshotShard(f)
    <3>1. Gather(f, fi[f]) \in Listing
      BY <2>1, GatherFacts
    <3>2. /\ dirty' \in [Shards -> BOOLEAN]
          /\ anyDirty[f] \/ dirty[fi[f]] \in BOOLEAN
          /\ UNCHANGED <<closing, index, indexTmp>>
      BY <2>1, <2>2 DEF SnapshotShard, dirVars, TypeOK
    <3>3. \/ FlushDone(f)
          \/ /\ snap' = [snap EXCEPT ![f] = Gather(f, fi[f])]
             /\ anyDirty' = [anyDirty EXCEPT ![f] = anyDirty[f] \/ dirty[fi[f]]]
             /\ \/ At(f, "write", 0)
                \/ fi[f] + 1 \in Shards /\ At(f, "snap", fi[f] + 1)
      BY <2>1, <2>2 DEF SnapshotShard
    <3>4. CASE FlushDone(f)
      BY <1>0, <2>1, <3>2, <3>4 DEF FlushDone, At, FlushTypes, TypeOK
    <3>5. CASE /\ snap' = [snap EXCEPT ![f] = Gather(f, fi[f])]
               /\ anyDirty' = [anyDirty EXCEPT ![f] = anyDirty[f] \/ dirty[fi[f]]]
               /\ \/ At(f, "write", 0)
                  \/ fi[f] + 1 \in Shards /\ At(f, "snap", fi[f] + 1)
      <4>1. snap' \in [Flushers -> Listing]
        BY <3>1, <3>5 DEF TypeOK
      <4>2. anyDirty' \in [Flushers -> BOOLEAN]
        BY <3>2, <3>5 DEF TypeOK
      <4>3. /\ fpc' \in [Flushers -> {"idle", "clear", "snap", "write", "rename", "rearm"}]
            /\ fi' \in [Flushers -> Shards]
        BY ZenonT(30), <2>1, <3>5 DEF At, TypeOK
      <4> QED BY <2>1, <3>2, <4>1, <4>2, <4>3 DEF FlushTypes, TypeOK
    <3> QED BY <3>3, <3>4, <3>5
  <2>3. CASE WriteTmp(f)
    BY <2>1, <2>3 DEF WriteTmp, At, shardVars, FlushTypes, TypeOK
  <2>4. CASE RenameIndex(f)
    BY <1>0, <2>1, <2>4 DEF RenameIndex, FlushDone, At, shardVars, FlushTypes, TypeOK
  <2>5. CASE WriteIndexFails(f)
    BY <1>0, <2>1, <2>5 DEF WriteIndexFails, FlushDone, At, shardVars, dirVars, FlushTypes, TypeOK
  <2>6. CASE Rearm(f)
    BY <1>0, <2>1, <2>6 DEF Rearm, FlushDone, At, dirVars, FlushTypes, TypeOK
  <2> QED BY <1>5, <2>2, <2>3, <2>4, <2>5, <2>6 DEF FlushStep
<1> QED BY <1>1, <1>2, <1>3, <1>4, <1>5, FlushKinds DEF Exit, Crash

\* Every step keeps the state well typed.
LEMMA TypeStep ==
  ASSUME TypeOK, LockInv, LoadInv, ShardConsistent, [Next]_vars
  PROVE  TypeOK'
<1>1. ShardTypes' /\ WriterTypes' /\ FlushTypes'
  BY ShardStep, WriterTypeStep, FlushTypeStep
<1>2. /\ phase' \in {"reap", "read", "load", "open"} /\ layout' \in Layouts
      /\ todo' \in Listing /\ crashes' \in 0..MaxCrashes
  <2>0. <<>> \in Listing
    BY SMT DEF Listing
  <2>1. CASE UNCHANGED lifeVars
    BY <2>1 DEF lifeVars, TypeOK
  <2>2. CASE Reap \/ Opened
    BY <2>2 DEF Reap, Opened, TypeOK
  <2>3. CASE ReadIndex
    BY <2>0, <2>3 DEF ReadIndex, TypeOK
  <2>4. CASE LoadEntry
    <3>1. todo' \in Listing
      BY <2>4, TodoFacts DEF LoadEntry
    <3> QED BY <2>4, <3>1 DEF LoadEntry, TypeOK
  <2>5. CASE Exit \/ Crash
    <3>1. crashes' \in 0..MaxCrashes
      <4>1. crashes \in 0..MaxCrashes /\ MaxCrashes \in Nat
        BY DiskAssumptions DEF TypeOK
      <4> QED BY SMTT(30), <2>5, <4>1 DEF Exit, Crash
    <3> QED BY <2>0, <2>5, <3>1 DEF Exit, Crash, NextProcess
  <2> QED BY <2>1, <2>2, <2>3, <2>4, <2>5, LifeKinds DEF Exit, Crash
<1> QED BY <1>1, <1>2 DEF TypeOK, ShardTypes, WriterTypes, FlushTypes

-----------------------------------------------------------------------------
(* What holds between shards, writers and flushes, and across a crash.        *)

\* While nobody may start a write, resting writers stay at rest.
LEMMA RestingStep ==
  ASSUME TypeOK, Resting, ~Serving, [Next]_vars
  PROVE  Resting'
<1>1. CASE NextProcess
  BY <1>1 DEF NextProcess, Resting
<1>2. CASE WriterFrame \/ Reap
  BY <1>2 DEF WriterFrame, Reap, writerVars, Resting
<1>3. ASSUME NEW w \in Writers,
             \/ \E k \in Keys : Open(w, k)
             \/ \E n \in Chunks : Write(w, n)
             \/ Abort(w) \/ CommitRefused(w)
             \/ CommitBegin(w) \/ Install(w) \/ RenameFails(w)
      PROVE  FALSE
  BY <1>3 DEF Resting, Open, Write, Abort, CommitRefused, CommitBegin, Install, RenameFails
<1> QED BY <1>1, <1>2, <1>3, WriterKinds DEF Exit, Crash

\* Opening the tier, resetting it and writing to it stay apart.
LEMMA ActiveStep ==
  ASSUME TypeOK, ActiveInv, LockInv, ShardConsistent, [Next]_vars
  PROVE  ActiveInv'
<1>1. CASE NextProcess
  BY <1>1 DEF NextProcess, ActiveInv, Resting, AllFlushers, Flushers
<1>2. CASE ~NextProcess
  <2>1. fpc \in [Flushers -> {"idle", "clear", "snap", "write", "rename", "rearm"}]
    BY DEF TypeOK
  <2>2. /\ fpc'["loop"] # "clear"
        /\ fpc'["reset"] # "idle" => fpc["reset"] # "idle" \/ ResetBegin
    BY <1>2, <2>1, FlushKinds
       DEF Exit, Crash, ActiveInv, FlushFrame, ResetBegin, ResetShard, Tick, Close, FinalFlush, FlushStep,
           SnapshotShard, WriteTmp, RenameIndex, WriteIndexFails, Rearm, FlushDone, At, Flushers
  <2>3. fpc'["reset"] # "idle" => Resting'
    <3>1. CASE fpc["reset"] # "idle"
      BY <3>1, RestingStep DEF ActiveInv, Serving
    <3>2. CASE ResetBegin
      BY <3>2 DEF ResetBegin, writerVars, Resting
    <3> QED BY <2>2, <3>1, <3>2
  <2>4. ASSUME phase' # "open"
        PROVE  Resting' /\ closing' = "no" /\ \A f \in Flushers : fpc'[f] = "idle"
    <3>1. phase # "open"
      BY <1>2, <2>4, LifeKinds DEF Exit, Crash, lifeVars, Reap, ReadIndex, LoadEntry, Opened
    <3>2. Resting'
      BY <3>1, RestingStep DEF ActiveInv, Serving
    <3>3. FlushFrame
      BY <1>2, <3>1, FlushKinds
         DEF Exit, Crash, ActiveInv, ResetBegin, ResetShard, Tick, Close, FinalFlush, FlushStep,
             SnapshotShard, WriteTmp, RenameIndex, WriteIndexFails, Rearm, Flushers, Serving
    <3> QED BY <3>1, <3>2, <3>3 DEF ActiveInv, FlushFrame
  <2> QED BY <2>2, <2>3, <2>4 DEF ActiveInv
<1> QED BY <1>1, <1>2

\* A lock is held by the one commit that is between its first and its last step,
\* and what it replaces stays out meanwhile.
LEMMA LockStep ==
  ASSUME TypeOK, ActiveInv, LockInv, LoadInv, ShardConsistent, [Next]_vars
  PROVE  LockInv'
<1>1. CASE NextProcess
  <2>1. \A s \in Shards' : locked'[s] = None
    BY <1>1, NextProcessFacts
  <2>2. \A w \in Writers : st'[w] \in {"idle", "done"}
    BY <1>1 DEF NextProcess, TypeOK
  <2> QED BY <2>1, <2>2 DEF LockInv
<1>2. CASE ~NextProcess
  <2>0. layout' = layout /\ Shards' = Shards /\ (\A x : Shard(x)' = Shard(x)) /\ (\A s : Cap(s)' = Cap(s))
    BY <1>2, LifeKinds DEF Exit, Crash, lifeVars, Reap, ReadIndex, LoadEntry, Opened, Shards, Shard, Cap
  <2>1. CASE WriterFrame \/ Reap
    <3>1. UNCHANGED <<st, wkey, len, locked>>
      BY <2>1 DEF WriterFrame, Reap, writerVars, shardVars
    <3>2. \A w \in Writers : st[w] = "evict" => items'[wkey[w]] = None
      <4>1. CASE Removes
        BY <4>1 DEF Removes, LockInv
      <4>2. ASSUME NEW w \in Writers, Install(w) PROVE FALSE
        BY <3>1, <4>2 DEF Install, Finish, Goto, TypeOK
      <4>3. CASE Loads
        BY <4>3 DEF Loads, LoadEntry, ActiveInv, Resting
      <4> QED BY <1>2, <4>1, <4>2, <4>3, RemovesOrInserts DEF Exit, Crash
    <3> QED BY <2>0, <3>1, <3>2 DEF LockInv
  <2>2. ASSUME NEW w \in Writers, NEW k \in Keys, Open(w, k) PROVE LockInv'
    <3>1. /\ st[w] = "idle" /\ st' = [st EXCEPT ![w] = "open"]
          /\ wkey' = [wkey EXCEPT ![w] = k] /\ UNCHANGED <<items, locked, len>>
      BY <2>2 DEF Open, Goto, shardVars
    <3>2. st \in [Writers -> {"idle", "open", "evict", "done"}] /\ wkey \in [Writers -> Keys \cup {None}]
          /\ locked \in [Shards -> Writers \cup {None}]
      BY DEF TypeOK
    <3>3. /\ st'[w] = "open" /\ wkey'[w] = k
          /\ \A v \in Writers \ {w} : st'[v] = st[v] /\ wkey'[v] = wkey[v]
      BY <3>1, <3>2
    <3>4. \A s \in Shards : locked[s] # w
      BY SMTT(30), <3>1, DiskAssumptions DEF LockInv
    <3> QED BY <2>0, <3>1, <3>2, <3>3, <3>4 DEF LockInv
  <2>3. ASSUME NEW w \in Writers, NEW n \in Chunks, Write(w, n) PROVE LockInv'
    BY <2>0, <2>3 DEF Write, shardVars, LockInv, TypeOK
  <2>4. ASSUME NEW w \in Writers, st[w] = "open", Discard(w) PROVE LockInv'
    <3>1. /\ st' = [st EXCEPT ![w] = "done"] /\ wkey' = [wkey EXCEPT ![w] = None]
          /\ len' = [len EXCEPT ![w] = 0] /\ UNCHANGED <<items, locked>>
      BY <2>4 DEF Discard, Finish, Goto, shardVars
    <3>2. /\ st \in [Writers -> {"idle", "open", "evict", "done"}]
          /\ wkey \in [Writers -> Keys \cup {None}] /\ len \in [Writers -> 0..MaxLen]
          /\ locked \in [Shards -> Writers \cup {None}]
      BY DEF TypeOK
    <3>3. /\ st'[w] = "done"
          /\ \A v \in Writers \ {w} : st'[v] = st[v] /\ wkey'[v] = wkey[v] /\ len'[v] = len[v]
      BY <3>1, <3>2
    <3>4. \A s \in Shards : locked[s] # w
      BY SMTT(30), <2>4, DiskAssumptions DEF LockInv
    <3> QED BY SMTT(30), <2>0, <3>1, <3>2, <3>3, <3>4 DEF LockInv
  <2>5. ASSUME NEW w \in Writers, CommitBegin(w) PROVE LockInv'
    <3>1. PICK k \in Keys, s \in Shards : k = wkey[w] /\ s = Shard(k)
      BY <2>5, LayoutFacts DEF CommitBegin, LockInv
    <3>2. /\ st[w] = "open" /\ locked[s] = None /\ len[w] <= Cap(s)
          /\ st' = [st EXCEPT ![w] = "evict"] /\ locked' = [locked EXCEPT ![s] = w]
          /\ wkey' = wkey /\ len' = len
      BY <2>5, <3>1 DEF CommitBegin, Goto, Unlocked
    <3>3. items'[k] = None /\ \A x \in Keys : items'[x] \in {items[x], None}
      BY <2>5, <3>1 DEF CommitBegin, RemoveLocked, TypeOK
    <3>4. \A v \in Writers : st[v] = "evict" => v # w /\ Shard(wkey[v]) # s
      BY <3>2, DiskAssumptions DEF LockInv
    <3>5. st \in [Writers -> {"idle", "open", "evict", "done"}] /\ locked \in [Shards -> Writers \cup {None}]
      BY DEF TypeOK
    <3>6. \A v \in Writers : st'[v] \in {"open", "evict"} => wkey'[v] \in Keys
      BY <3>1, <3>2, <3>5 DEF LockInv
    <3>7. \A v \in Writers : st'[v] = "evict" =>
            /\ locked'[Shard(wkey'[v])] = v /\ items'[wkey'[v]] = None
            /\ len'[v] <= Cap(Shard(wkey'[v]))
      BY <3>1, <3>2, <3>3, <3>4, <3>5, LayoutFacts DEF LockInv
    <3>8. \A t \in Shards : locked'[t] # None => st'[locked'[t]] = "evict" /\ Shard(wkey'[locked'[t]]) = t
      BY SMTT(30), <3>1, <3>2, <3>4, <3>5 DEF LockInv
    <3> QED BY <2>0, <3>6, <3>7, <3>8 DEF LockInv
  <2>6. ASSUME NEW w \in Writers, Install(w) \/ RenameFails(w) PROVE LockInv'
    <3>1. PICK k \in Keys, s \in Shards : k = wkey[w] /\ s = Shard(k)
      BY <2>6, LayoutFacts DEF Install, RenameFails, LockInv
    <3>2. /\ st[w] = "evict" /\ locked[s] = w
          /\ st' = [st EXCEPT ![w] = "done"] /\ locked' = [locked EXCEPT ![s] = None]
          /\ wkey' = [wkey EXCEPT ![w] = None] /\ len' = [len EXCEPT ![w] = 0]
          /\ \A x \in Keys \ {k} : items'[x] = items[x]
      <4>1. st[w] = "evict" /\ locked[s] = w
        BY <2>6, <3>1 DEF Install, RenameFails, LockInv
      <4>2. /\ st' = [st EXCEPT ![w] = "done"] /\ locked' = [locked EXCEPT ![s] = None]
            /\ wkey' = [wkey EXCEPT ![w] = None] /\ len' = [len EXCEPT ![w] = 0]
        BY <2>6, <3>1 DEF Install, RenameFails, Finish, Goto
      <4>3. items' = items \/ items' = [items EXCEPT ![k] = NewMeta(w)]
        BY <2>6, <3>1 DEF Install, RenameFails
      <4>4. \A x \in Keys \ {k} : items'[x] = items[x]
        BY <4>3 DEF TypeOK
      <4> QED BY <4>1, <4>2, <4>4
    <3>3. \A v \in Writers : v # w /\ st[v] = "evict" => Shard(wkey[v]) # s /\ wkey[v] # k
      BY <3>1, <3>2 DEF LockInv
    <3>4. /\ st \in [Writers -> {"idle", "open", "evict", "done"}]
          /\ locked \in [Shards -> Writers \cup {None}]
          /\ wkey \in [Writers -> Keys \cup {None}] /\ len \in [Writers -> 0..MaxLen]
      BY DEF TypeOK
    <3>5. \A v \in Writers : st'[v] \in {"open", "evict"} =>
             v # w /\ st'[v] = st[v] /\ wkey'[v] = wkey[v] /\ len'[v] = len[v]
      BY <3>2, <3>4
    <3>6. \A v \in Writers : st'[v] = "evict" =>
            /\ locked'[Shard(wkey'[v])] = v /\ items'[wkey'[v]] = None
            /\ len'[v] <= Cap(Shard(wkey'[v]))
      BY SMTT(30), <3>2, <3>3, <3>4, <3>5, LayoutFacts DEF LockInv
    <3>7. \A t \in Shards : locked'[t] # None => st'[locked'[t]] = "evict" /\ Shard(wkey'[locked'[t]]) = t
      BY <3>1, <3>2, <3>4 DEF LockInv
    <3> QED BY <2>0, <3>5, <3>6, <3>7 DEF LockInv
  <2> QED BY <1>2, <2>1, <2>2, <2>3, <2>4, <2>5, <2>6, WriterKinds DEF Exit, Crash, Abort, CommitRefused
<1> QED BY <1>1, <1>2

\* An entry and its blob keep one length: commit installs both, load compares them.
LEMMA SizeStep ==
  ASSUME TypeOK, LockInv, LoadInv, ShardConsistent, SizeInv, [Next]_vars
  PROVE  SizeInv'
<1>1. CASE Removes
  BY <1>1 DEF Removes, SizeInv
<1>2. ASSUME NEW w \in Writers, Install(w) PROVE SizeInv'
  <2>1. \A x \in Keys : /\ items'[x] = IF x = wkey[w] THEN NewMeta(w) ELSE items[x]
                        /\ blob'[x] = IF x = wkey[w] THEN NewMeta(w) ELSE blob[x]
    BY <1>2, InstallFacts
  <2> QED BY <2>1 DEF SizeInv
<1>3. CASE Loads
  <2>1. PICK e : e = todo[Len(todo)]
    OBVIOUS
  <2>2. \A x \in Keys : items'[x] = IF x = e.key THEN [obj |-> e.obj, size |-> e.size]
                                                 ELSE items[x]
    BY <1>3, <2>1, LoadFacts
  <2>3. blob' = blob /\ blob[e.key].size = e.size
    BY <1>3, <2>1 DEF Loads, LoadEntry, Loadable
  <2> QED BY SMTT(30), <2>2, <2>3 DEF SizeInv
<1>4. CASE NextProcess
  BY <1>4, NextProcessFacts DEF SizeInv
<1> QED BY <1>1, <1>2, <1>3, <1>4, RemovesOrInserts DEF Exit, Crash

\* A temp file goes with its writer, and what a process leaves behind is reaped.
LEMMA TempStep ==
  ASSUME TypeOK, TempInv, [Next]_vars
  PROVE  TempInv'
<1>1. CASE Reap
  BY <1>1 DEF Reap, TempInv
<1>2. CASE NextProcess
  BY <1>2 DEF NextProcess, TempInv
<1>3. CASE ~Reap /\ ~NextProcess
  <2>1. phase' # "reap" => phase # "reap"
    BY <1>3, LifeKinds DEF Exit, Crash, lifeVars, ReadIndex, LoadEntry, Opened
  <2>2. CASE WriterFrame
    BY <2>1, <2>2 DEF WriterFrame, TempInv
  <2>3. ASSUME NEW w \in Writers,
               \/ \E k \in Keys : Open(w, k)
               \/ \E n \in Chunks : Write(w, n)
               \/ Abort(w) \/ CommitRefused(w)
               \/ CommitBegin(w) \/ Install(w) \/ RenameFails(w)
        PROVE  TempInv'
    <3>0. st \in [Writers -> {"idle", "open", "evict", "done"}]
      BY DEF TypeOK
    <3>1. CASE \E k \in Keys : Open(w, k)
      BY <2>1, <3>0, <3>1 DEF Open, Goto, TempInv
    <3>2. CASE \E n \in Chunks : Write(w, n)
      BY <2>1, <3>2 DEF Write, dirVars, TempInv
    <3>3. CASE CommitBegin(w)
      BY <2>1, <3>0, <3>3 DEF CommitBegin, Goto, TempInv
    <3>4. CASE Abort(w) \/ CommitRefused(w) \/ Install(w) \/ RenameFails(w)
      <4>1. /\ st' = [st EXCEPT ![w] = "done"]
            /\ \/ wip' = wip \ {w} /\ strayTmp' = strayTmp
               \/ RemoveTemp(w)
        BY <3>4 DEF Abort, CommitRefused, Discard, Install, RenameFails, Finish, Goto
      <4>2. /\ strayTmp \subseteq strayTmp'
            /\ wip' \subseteq (wip \ {w}) \cup strayTmp'
        BY <4>1 DEF RemoveTemp
      <4> QED BY <2>1, <3>0, <4>1, <4>2 DEF TempInv
    <3> QED BY <2>3, <3>1, <3>2, <3>3, <3>4
  <2> QED BY <1>3, <2>2, <2>3, WriterKinds DEF Exit, Crash
<1> QED BY <1>1, <1>2, <1>3

\* Snapshots go through the shards in order, so no listing names a key twice.
LEMMA ListStep ==
  ASSUME TypeOK, ActiveInv, LockInv, ShardConsistent, ListInv, [Next]_vars
  PROVE  ListInv'
<1>0. KeysDistinct(<<>>)
  BY SMT DEF KeysDistinct
<1>1. CASE NextProcess
  BY <1>0, <1>1 DEF NextProcess, AllFlushers, dirVars, ListInv
<1>2. CASE FlushFrame
  BY <1>2 DEF FlushFrame, ListInv, Shard
<1>3. CASE ResetBegin \/ Tick \/ Close \/ FinalFlush
  <2>1. UNCHANGED <<layout, snap, index, indexTmp>>
    BY <1>3 DEF ResetBegin, Tick, Close, FinalFlush, lifeVars, dirVars
  <2>2. \A f \in Flushers : \/ fpc'[f] = fpc[f] /\ fi'[f] = fi[f]
                            \/ snap[f] = <<>>
    BY <1>3 DEF ResetBegin, Tick, Close, FinalFlush, Serving, At, Flushers, ListInv, TypeOK
  <2>3. \A f \in Flushers : fpc'[f] \in {"idle", "clear"} => snap[f] = <<>>
    BY <1>3 DEF ResetBegin, Tick, Close, FinalFlush, Serving, At, Flushers, ListInv, TypeOK
  <2> QED BY SMTT(30), <1>0, <2>1, <2>2, <2>3 DEF ListInv, Shard
<1>4. CASE ResetShard
  <2>1. UNCHANGED <<layout, snap, index, indexTmp>>
    BY <1>4 DEF ResetShard, lifeVars
  <2>2. \A f \in Flushers : \/ fpc'[f] = fpc[f] /\ fi'[f] = fi[f]
                            \/ snap[f] = <<>>
    BY <1>4 DEF ResetShard, At, Flushers, ListInv, TypeOK
  <2>3. \A f \in Flushers : fpc'[f] \in {"idle", "clear"} => snap[f] = <<>>
    BY <1>4 DEF ResetShard, At, Flushers, ListInv, TypeOK
  <2> QED BY SMT, <1>0, <2>1, <2>2, <2>3 DEF ListInv, Shard
<1>5. ASSUME NEW f \in Flushers, FlushStep(f) PROVE ListInv'
  <2>0. /\ layout' = layout /\ \A x : Shard(x)' = Shard(x)
        /\ fpc \in [Flushers -> {"idle", "clear", "snap", "write", "rename", "rearm"}]
        /\ fi \in [Flushers -> Shards] /\ snap \in [Flushers -> Listing]
        /\ fi[f] \in Nat
    BY <1>5, LayoutFacts DEF FlushStep, SnapshotShard, WriteTmp, RenameIndex, WriteIndexFails,
                             Rearm, lifeVars, Shard, TypeOK
  <2>1. ASSUME FlushDone(f), indexTmp' # None => indexTmp' = indexTmp,
               index' # None => index' \in {index, indexTmp}
        PROVE  ListInv'
    BY <1>0, <2>0, <2>1 DEF FlushDone, At, ListInv
  <2>2. CASE SnapshotShard(f)
    <3>1. PICK s \in Shards, g \in Listing : s = fi[f] /\ g = Gather(f, s)
      BY <2>0, GatherFacts
    <3>2. index' = index /\ indexTmp' = indexTmp
      BY <2>2 DEF SnapshotShard, dirVars
    <3>3. CASE FlushDone(f)
      BY <2>1, <3>2, <3>3
    <3>4. CASE /\ snap' = [snap EXCEPT ![f] = g]
               /\ At(f, "write", 0) \/ At(f, "snap", s + 1)
      <4>1. KeysDistinct(g)
        BY <2>2, <3>1, GatherFacts DEF SnapshotShard, ListInv
      <4>2. \A i \in 1..Len(g) : Shard(g[i].key) < s + 1
        <5>1. \A i \in 1..Len(snap[f]) : Shard(snap[f][i].key) < s /\ Shard(snap[f][i].key) \in Int
          <6>1. \A i \in 1..Len(snap[f]) : snap[f][i].key \in Keys
            BY <2>0, ListingFacts
          <6>2. \A i \in 1..Len(snap[f]) : Shard(snap[f][i].key) < s
            BY <2>2, <3>1 DEF SnapshotShard, ListInv
          <6>3. \A k \in Keys : Shard(k) \in Int
            BY SMT, LayoutFacts
          <6> QED BY <6>1, <6>2, <6>3
        <5>2. \A i \in 1..Len(g) : Shard(g[i].key) = s \/ \E j \in 1..Len(snap[f]) : g[i] = snap[f][j]
          BY <3>1, GatherFacts
        <5>3. s \in Int
          BY SMTT(30), <2>0, <3>1
        <5>4. ASSUME NEW i \in 1..Len(g), NEW j \in 1..Len(snap[f]), g[i] = snap[f][j]
              PROVE  Shard(g[i].key) < s + 1
          <6>1. PICK n \in Int : n = Shard(snap[f][j].key) /\ n < s
            BY <5>1
          <6> QED BY SMTT(30), <5>3, <5>4, <6>1
        <5>5. s < s + 1
          BY SMT, <5>3
        <5> QED BY <5>2, <5>4, <5>5
      <4>3. /\ \A h \in Flushers \ {f} : snap'[h] = snap[h] /\ fpc'[h] = fpc[h] /\ fi'[h] = fi[h]
            /\ snap'[f] = g /\ fpc'[f] \in {"write", "snap"}
            /\ fpc'[f] = "snap" => fi'[f] = s + 1
        BY <2>0, <3>4 DEF At
      <4> QED BY <2>0, <3>2, <4>1, <4>2, <4>3 DEF ListInv
    <3> QED BY <2>2, <3>1, <3>3, <3>4 DEF SnapshotShard
  <2>3. CASE WriteTmp(f)
    <3>1. /\ indexTmp' = snap[f] /\ index' = index /\ snap' = snap
          /\ \A h \in Flushers \ {f} : fpc'[h] = fpc[h] /\ fi'[h] = fi[h]
          /\ fpc'[f] = "rename"
      BY <2>0, <2>3 DEF WriteTmp, At
    <3> QED BY <2>0, <3>1 DEF ListInv
  <2>4. CASE RenameIndex(f)
    BY <2>1, <2>4 DEF RenameIndex
  <2>5. CASE WriteIndexFails(f)
    <3>1. index' = index /\ indexTmp' = indexTmp
      BY <2>5 DEF WriteIndexFails, dirVars
    <3>2. CASE FlushDone(f)
      BY <2>1, <3>1, <3>2
    <3>3. CASE At(f, "rearm", 0) /\ snap' = snap
      <4>1. /\ \A h \in Flushers \ {f} : fpc'[h] = fpc[h] /\ fi'[h] = fi[h]
            /\ fpc'[f] = "rearm"
        BY <2>0, <3>3 DEF At
      <4> QED BY <2>0, <3>1, <3>3, <4>1 DEF ListInv
    <3> QED BY <2>5, <3>2, <3>3 DEF WriteIndexFails
  <2>6. CASE Rearm(f)
    <3>1. index' = index /\ indexTmp' = indexTmp
      BY <2>6 DEF Rearm, dirVars
    <3>2. CASE FlushDone(f)
      BY <2>1, <3>1, <3>2
    <3>3. CASE At(f, "rearm", fi[f] + 1) /\ snap' = snap
      <4>1. /\ \A h \in Flushers \ {f} : fpc'[h] = fpc[h] /\ fi'[h] = fi[h]
            /\ fpc'[f] = "rearm"
        BY <2>0, <3>3 DEF At
      <4> QED BY <2>0, <3>1, <3>3, <4>1 DEF ListInv
    <3> QED BY <2>6, <3>2, <3>3 DEF Rearm
  <2> QED BY <1>5, <2>2, <2>3, <2>4, <2>5, <2>6 DEF FlushStep
<1> QED BY <1>1, <1>2, <1>3, <1>4, <1>5, FlushKinds DEF Exit, Crash

\* Until the tier is open nothing touches the index file.
LEMMA IndexQuiet ==
  ASSUME TypeOK, ActiveInv, LockInv, ShardConsistent, [Next]_vars, phase # "open"
  PROVE  index' = index
<1>1. \A f \in Flushers : fpc[f] = "idle"
  BY DEF ActiveInv
<1> QED BY <1>1, FlushKinds DEF Exit, Crash, ActiveInv, FlushFrame, ResetBegin, ResetShard, Tick, Close,
             FinalFlush, Serving, FlushStep, SnapshotShard, WriteTmp, RenameIndex, WriteIndexFails,
             Rearm, NextProcess, Flushers, dirVars

\* load goes through the index once, from its last entry to its first.
LEMMA LoadStep ==
  ASSUME TypeOK, ActiveInv, LockInv, ShardConsistent, ListInv, LoadInv, [Next]_vars
  PROVE  LoadInv'
<1>1. CASE NextProcess
  BY <1>1 DEF NextProcess, LoadInv
<1>2. CASE UNCHANGED lifeVars /\ ~NextProcess
  <2>0. phase' = phase /\ todo' = todo
    BY <1>2 DEF lifeVars
  <2> SUFFICES ASSUME phase # "open" PROVE LoadInv'
    BY <2>0 DEF LoadInv
  <2>1. index' = index
    BY IndexQuiet
  <2>2. \A k \in Keys : items'[k] \in {items[k], None}
    <3>1. CASE Removes
      BY <3>1 DEF Removes
    <3>2. ASSUME NEW w \in Writers, Install(w) PROVE FALSE
      BY <3>2 DEF Install
    <3>3. CASE Loads
      <4>1. Len(todo') = Len(todo) - 1 /\ Len(todo) \in Nat
        BY <3>3, TodoFacts DEF Loads, LoadEntry
      <4> QED BY SMTT(30), <2>0, <4>1
    <3> QED BY <1>2, <3>1, <3>2, <3>3, RemovesOrInserts DEF Exit, Crash
  <2>3. items' \in [Keys -> Metas \cup {None}]
    BY ShardStep DEF ShardTypes
  <2>4. items = Nothing => items' = Nothing
    BY <2>2, <2>3 DEF Nothing
  <2>5. \A i \in 1..Len(todo) : todo[i].key \in Keys
    BY ListingFacts DEF TypeOK
  <2> QED BY <2>0, <2>1, <2>2, <2>4, <2>5 DEF LoadInv, IndexEntries
<1>3. CASE Reap
  BY <1>3 DEF Reap, LoadInv, shardVars
<1>4. CASE ReadIndex
  <2>1. /\ phase' = "load" /\ items' = Nothing /\ index' = index
        /\ todo' = <<>> \/ (index # None /\ todo' = index)
    BY <1>4 DEF ReadIndex, LoadInv, shardVars, dirVars
  <2>2. CASE todo' = <<>>
    <3>1. todo' = <<>> /\ Len(todo') = 0
      BY <2>1, <2>2
    <3> QED BY SMTT(30), <2>1, <3>1 DEF LoadInv, KeysDistinct
  <2>3. CASE index # None /\ todo' = index
    <3>1. todo' = index /\ KeysDistinct(index) /\ index \in Listing /\ IndexEntries' = Entries(index)
      BY <2>1, <2>3 DEF ListInv, TypeOK, IndexEntries
    <3>2. \A i \in 1..Len(index) : index[i].key \in Keys /\ index[i] \in Entries(index)
      BY <3>1, ListingFacts
    <3> QED BY <2>1, <3>1, <3>2 DEF LoadInv, Nothing
  <2> QED BY <2>1, <2>2, <2>3
<1>5. CASE LoadEntry
  <2>0. PICK n \in Nat : n = Len(todo)
    BY <1>5, TodoFacts DEF LoadEntry
  <2>1. /\ phase = "load" /\ phase' = "load" /\ n \in 1..n
        /\ todo' \in Listing /\ Len(todo') = n - 1
        /\ \A i \in 1..(n - 1) : todo'[i] = todo[i]
    BY <1>5, <2>0, TodoFacts DEF LoadEntry
  <2>2. index' = index
    BY <1>5 DEF LoadEntry
  <2>3. KeysDistinct(todo) /\ \A i \in 1..n : items[todo[i].key] = None /\ todo[i] \in IndexEntries
    BY <2>0, <2>1 DEF LoadInv
  <2>4. KeysDistinct(todo')
    BY SMTT(30), <2>0, <2>1, <2>3 DEF KeysDistinct
  <2>5. \A x \in Keys : x # todo[n].key => items'[x] = items[x]
    BY <1>5, <2>0 DEF LoadEntry, TypeOK
  <2>6. \A i \in 1..(n - 1) : todo[i].key # todo[n].key /\ todo[i].key \in Keys
    <3>1. \A i \in 1..n : todo[i].key \in Keys
      BY <2>0, ListingFacts DEF TypeOK
    <3>2. \A i \in 1..(n - 1) : i \in 1..n /\ i # n
      BY SMTT(30), <2>1
    <3> QED BY <2>0, <2>1, <2>3, <3>1, <3>2 DEF KeysDistinct
  <2>7. \A i \in 1..(n - 1) : items'[todo'[i].key] = None /\ todo'[i] \in IndexEntries'
    <3>1. \A i \in 1..(n - 1) : i \in 1..n /\ todo'[i] = todo[i]
      BY SMT, <2>1
    <3>2. IndexEntries' = IndexEntries
      BY <2>2 DEF IndexEntries
    <3> QED BY <2>3, <2>5, <2>6, <3>1, <3>2
  <2> QED BY <2>1, <2>4, <2>7 DEF LoadInv
<1>6. CASE Opened
  BY <1>6 DEF Opened, LoadInv
<1> QED BY <1>1, <1>2, <1>3, <1>4, <1>5, <1>6, LifeKinds DEF Exit, Crash

\* A reset clears shard after shard and nothing comes back until it has flushed.
LEMMA ResetStep ==
  ASSUME TypeOK, ActiveInv, LockInv, LoadInv, ShardConsistent, ResetInv, [Next]_vars
  PROVE  ResetInv'
<1>1. CASE NextProcess
  BY <1>1 DEF NextProcess, AllFlushers, Flushers, ResetInv
<1>2. CASE ResetBegin
  <2>1. fpc'["reset"] = "clear" /\ fi'["reset"] = 0
    BY <1>2 DEF ResetBegin, At, TypeOK, Flushers
  <2>2. layout' = layout
    BY <1>2 DEF ResetBegin, lifeVars
  <2> QED BY SMTT(30), <2>1, <2>2, LayoutFacts DEF ResetInv, Shards
<1>3. CASE fpc["reset"] # "idle" /\ ~NextProcess
  <2>1. layout' = layout /\ \A k \in Keys : items'[k] \in {items[k], None}
    <3>1. ASSUME NEW w \in Writers, Install(w) PROVE FALSE
      BY <1>3, <3>1 DEF Install, ActiveInv, Resting
    <3>2. CASE Loads
      BY <1>3, <3>2 DEF Loads, LoadEntry, ActiveInv, Flushers
    <3> QED BY <1>3, <3>1, <3>2, RemovesOrInserts DEF Exit, Crash, Removes
  <2>2. Shards' = Shards /\ \A s : Resident(s)' \subseteq Resident(s)
    BY <2>1 DEF Shards, Resident, Shard
  <2>3. items = Nothing => items' = Nothing
    <3>1. items' \in [Keys -> Metas \cup {None}]
      BY ShardStep DEF ShardTypes
    <3> QED BY <2>1, <3>1 DEF Nothing
  <2>4. CASE ResetShard
    <3>1. PICK s \in Shards : s = fi["reset"]
      BY DEF TypeOK, Flushers
    <3>2. fpc["reset"] = "clear" /\ \A t \in Shards : t < s => Resident(t) = {}
      BY <2>4, <3>1 DEF ResetShard, ResetInv
    <3>3. Resident(s)' = {}
      BY <2>1, <2>4, <3>1, ClearFacts DEF Resident, Shard
    <3>4. \A t \in Shards : t < s + 1 => Resident(t)' = {}
      BY SMTT(20), <2>2, <3>1, <3>2, <3>3, LayoutFacts
    <3>5. CASE LastShard(s)
      <4>1. fpc'["reset"] = "snap"
        BY <2>4, <3>1, <3>5 DEF ResetShard, At, TypeOK, Flushers
      <4>2. \A t \in Shards : t < s + 1
        BY SMTT(30), <3>5, LayoutFacts DEF LastShard, Shards
      <4>3. \A k \in Keys : items'[k] = None
        <5>1. \A k \in Keys : Shard(k)' \in Shards
          BY <2>1, LayoutFacts DEF Shard
        <5> QED BY <3>4, <4>2, <5>1 DEF Resident
      <4>4. items' \in [Keys -> Metas \cup {None}]
        BY ShardStep DEF ShardTypes
      <4> QED BY <4>1, <4>3, <4>4 DEF ResetInv, Nothing
    <3>6. CASE ~LastShard(s)
      <4>1. fpc'["reset"] = "clear" /\ fi'["reset"] = s + 1
        BY <2>4, <3>1, <3>6 DEF ResetShard, At, TypeOK, Flushers
      <4> QED BY <2>2, <3>4, <4>1 DEF ResetInv
    <3> QED BY <3>5, <3>6
  <2>5. CASE fpc'["reset"] = fpc["reset"] /\ fi'["reset"] = fi["reset"]
    BY <2>2, <2>3, <2>5 DEF ResetInv
  <2>6. CASE FlushStep("reset")
    <3>1. fpc["reset"] \in {"snap", "write", "rename", "rearm"} /\ fpc'["reset"] # "clear"
      BY <2>6 DEF FlushStep, SnapshotShard, WriteTmp, RenameIndex, WriteIndexFails, Rearm,
                  FlushDone, At, TypeOK, Flushers
    <3> QED BY <2>3, <3>1 DEF ResetInv
  <2>7. CASE FlushFrame \/ Tick \/ Close \/ FinalFlush \/ FlushStep("loop")
    BY <2>5, <2>7 DEF FlushFrame, Tick, Close, FinalFlush, FlushStep, SnapshotShard, WriteTmp,
         RenameIndex, WriteIndexFails, Rearm, FlushDone, At, TypeOK, Flushers
  <2>8. ~ResetBegin
    BY <1>3 DEF ResetBegin, Serving
  <2> QED BY <1>3, <2>4, <2>6, <2>7, <2>8, FlushKinds DEF Exit, Crash, Flushers
<1>4. CASE fpc["reset"] = "idle" /\ ~ResetBegin /\ ~NextProcess
  <2>1. fpc'["reset"] = "idle"
    <3>1. CASE FlushFrame \/ Tick \/ Close \/ FinalFlush \/ FlushStep("loop")
      BY <1>4, <3>1 DEF FlushFrame, Tick, Close, FinalFlush, FlushStep, SnapshotShard, WriteTmp,
           RenameIndex, WriteIndexFails, Rearm, FlushDone, At, TypeOK, Flushers
    <3>2. ~ResetShard /\ ~FlushStep("reset")
      BY <1>4 DEF ResetShard, FlushStep, SnapshotShard, WriteTmp, RenameIndex, WriteIndexFails, Rearm
    <3> QED BY <1>4, <3>1, <3>2, FlushKinds DEF Exit, Crash, Flushers
  <2> QED BY <2>1 DEF ResetInv
<1> QED BY <1>1, <1>2, <1>3, <1>4

\* A clean shard whose entries and whose flush stand still stays where it is listed.
LEMMA CleanFrame ==
  ASSUME NEW s \in Shards, CleanAt(s), UNCHANGED <<layout, index, indexTmp>>,
         \A k \in Resident(s)' : k \in Resident(s) /\ items'[k] = items[k],
         fpc'["loop"] = fpc["loop"], fi'["loop"] = fi["loop"],
         snap'["loop"] = snap["loop"], anyDirty'["loop"] = anyDirty["loop"]
  PROVE  CleanAt(s)'
<1>1. IndexEntries' = IndexEntries
  BY DEF IndexEntries
<1>2. \A k \in Resident(s)' : k \in Resident(s) /\ EntryOf(k)' = EntryOf(k)
  BY DEF EntryOf
<1>3. PICK I, S, T : I = IndexEntries /\ S = Entries(snap["loop"]) /\ T = Entries(indexTmp)
  OBVIOUS
<1>4. /\ Listed(s, I) => \A k \in Resident(s)' : EntryOf(k)' \in I
      /\ Listed(s, S) => \A k \in Resident(s)' : EntryOf(k)' \in S
      /\ Listed(s, T) => \A k \in Resident(s)' : EntryOf(k)' \in T
      /\ Resident(s) = {} => Resident(s)' = {}
  BY <1>2 DEF Listed
<1>5. IndexEntries' = I /\ Entries(snap'["loop"]) = S /\ Entries(indexTmp') = T
  BY <1>1, <1>3
<1> QED BY <1>3, <1>4, <1>5 DEF CleanAt, Listed

\* An empty memory is listed wherever it should be.
LEMMA CleanEmpty ==
  ASSUME \A k \in Keys : items'[k] = None
  PROVE  FlushInv'
<1>1. \A s : Resident(s)' = {}
  BY DEF Resident
<1> QED BY <1>1 DEF FlushInv, CleanAt, Listed

\* A clean shard's entries are listed where its flush will need them, at every
\* step of a flush and of what runs beside it (flushIfDirty, snapshotIfDirty,
\* writeIndex, removeLocked, commit, Reset and load).
LEMMA FlushInvStep ==
  ASSUME TypeOK, ActiveInv, LockInv, LoadInv, ShardConsistent, ResetInv, FlushInv, [Next]_vars
  PROVE  FlushInv'
<1>1. CASE NextProcess
  BY <1>1, NextProcessFacts, CleanEmpty
<1>2. CASE FlushFrame /\ ~NextProcess
  <2>1. /\ UNCHANGED <<layout, index, indexTmp>> /\ closing' = closing
        /\ fpc'["loop"] = fpc["loop"] /\ fi'["loop"] = fi["loop"]
        /\ snap'["loop"] = snap["loop"] /\ anyDirty'["loop"] = anyDirty["loop"]
        /\ Shards' = Shards /\ \A s \in Shards : dirty[s] => dirty'[s]
    BY <1>2 DEF FlushFrame, Shards, TypeOK
  <2>2. SUFFICES ASSUME closing # "failed", NEW s \in Shards, ~dirty'[s] PROVE CleanAt(s)'
    BY <2>1 DEF FlushInv
  <2>3. CleanAt(s)
    BY <2>1, <2>2 DEF FlushInv
  <2>4. CASE Removes
    <3>1. \A k \in Resident(s)' : k \in Resident(s) /\ items'[k] = items[k]
      BY <2>2, <2>4 DEF Removes, Resident, Shard
    <3> QED BY <2>1, <2>3, <3>1, CleanFrame
  <2>5. ASSUME NEW w \in Writers, Install(w) PROVE CleanAt(s)'
    <3>1. wkey[w] \in Keys /\ \A x \in Keys : x # wkey[w] => items'[x] = items[x]
      BY <2>5, InstallFacts
    <3>2. dirty'[Shard(wkey[w])]
      BY <2>5, <3>1, LayoutFacts DEF Install, MarkDirty, TypeOK
    <3>3. \A k \in Resident(s)' : k \in Resident(s) /\ items'[k] = items[k]
      BY <2>1, <2>2, <3>1, <3>2 DEF Resident, Shard
    <3> QED BY <2>1, <2>3, <3>3, CleanFrame
  <2>6. CASE Loads
    <3>1. PICK e : e = todo[Len(todo)]
      OBVIOUS
    <3>2. /\ e \in [key : Keys, obj : Writers, size : 0..MaxLen] /\ Len(todo) \in 1..Len(todo)
          /\ \A x \in Keys : items'[x] = IF x = e.key THEN [obj |-> e.obj, size |-> e.size]
                                                       ELSE items[x]
      BY <2>6, <3>1, LoadFacts
    <3>3. fpc["loop"] = "idle" /\ phase = "load"
      BY <2>6 DEF Loads, LoadEntry, ActiveInv, Flushers
    <3>4. e \in IndexEntries
      BY <3>1, <3>2, <3>3 DEF LoadInv
    <3>5. IndexEntries' = IndexEntries
      BY <2>1 DEF IndexEntries
    <3>6. ASSUME NEW k \in Resident(s)' PROVE EntryOf(k)' \in IndexEntries
      <4>1. k \in Keys /\ items'[k] # None /\ Shard(k) = s
        BY <2>1 DEF Resident, Shard
      <4>2. CASE k = e.key
        <5>1. EntryOf(k)' = e
          BY SMTT(30), <3>2, <4>2 DEF EntryOf
        <5> QED BY <3>4, <5>1
      <4>3. CASE k # e.key
        <5>1. k \in Resident(s) /\ EntryOf(k)' = EntryOf(k)
          BY <3>2, <4>1, <4>3 DEF Resident, EntryOf
        <5> QED BY <2>3, <3>3, <5>1 DEF CleanAt, Listed
      <4> QED BY <4>2, <4>3
    <3> QED BY <2>1, <3>3, <3>5, <3>6 DEF CleanAt, Listed
  <2> QED BY <1>2, <2>4, <2>5, <2>6, RemovesOrInserts DEF Exit, Crash
<1>3. CASE ResetShard
  <2>1. /\ UNCHANGED <<layout, index, indexTmp>> /\ closing' = closing
        /\ fpc'["loop"] = fpc["loop"] /\ fi'["loop"] = fi["loop"]
        /\ snap'["loop"] = snap["loop"] /\ anyDirty'["loop"] = anyDirty["loop"]
        /\ Shards' = Shards
    BY <1>3 DEF ResetShard, At, lifeVars, Shards, TypeOK, Flushers
  <2>2. SUFFICES ASSUME closing # "failed", NEW s \in Shards, ~dirty'[s] PROVE CleanAt(s)'
    BY <2>1 DEF FlushInv
  <2>3. CleanAt(s)
    BY <1>3, <2>1, <2>2, ClearFacts DEF FlushInv
  <2>4. \A k \in Resident(s)' : k \in Resident(s) /\ items'[k] = items[k]
    BY <1>3, <2>1, <2>2, ClearFacts DEF Resident, Shard
  <2> QED BY <2>1, <2>3, <2>4, CleanFrame
<1>4. CASE ResetBegin \/ Close
  <2>1. /\ UNCHANGED <<layout, index, indexTmp, items, dirty>> /\ closing # "failed"
        /\ fpc'["loop"] = fpc["loop"] /\ fi'["loop"] = fi["loop"]
        /\ snap'["loop"] = snap["loop"] /\ anyDirty'["loop"] = anyDirty["loop"]
        /\ Shards' = Shards
    BY <1>4 DEF ResetBegin, Close, At, lifeVars, shardVars, dirVars, Shards, TypeOK, Flushers
  <2>2. SUFFICES ASSUME NEW s \in Shards, ~dirty'[s] PROVE CleanAt(s)'
    BY <2>1 DEF FlushInv
  <2>3. CleanAt(s)
    BY <2>1, <2>2 DEF FlushInv
  <2>4. \A k \in Resident(s)' : k \in Resident(s) /\ items'[k] = items[k]
    BY <2>1 DEF Resident, Shard
  <2> QED BY <2>1, <2>3, <2>4, CleanFrame
<1>5. CASE Tick \/ FinalFlush
  <2>1. /\ UNCHANGED <<layout, index, items, dirty>> /\ closing # "failed"
        /\ fpc["loop"] = "idle" /\ fpc'["loop"] = "snap" /\ fi'["loop"] = 0
        /\ Shards' = Shards
    BY <1>5 DEF Tick, FinalFlush, At, lifeVars, shardVars, dirVars, Shards, TypeOK, Flushers
  <2>2. SUFFICES ASSUME NEW s \in Shards, ~dirty'[s] PROVE CleanAt(s)'
    BY <2>1 DEF FlushInv
  <2>3. Listed(s, IndexEntries)
    BY <2>1, <2>2 DEF FlushInv, CleanAt
  <2>4. Listed(s, IndexEntries)'
    BY <2>1, <2>3 DEF Listed, IndexEntries, Resident, Shard, EntryOf
  <2>5. ~(s < 0)
    BY SMTT(30), LayoutFacts
  <2> QED BY <2>1, <2>4, <2>5 DEF CleanAt
<1>6. CASE FlushStep("reset")
  <2>1. fpc["reset"] \in {"snap", "write", "rename", "rearm"} /\ items' = items
    BY <1>6 DEF FlushStep, SnapshotShard, WriteTmp, RenameIndex, WriteIndexFails, Rearm, shardVars
  <2>2. \A k \in Keys : items'[k] = None
    BY <2>1 DEF ResetInv, Nothing
  <2> QED BY <2>2, CleanEmpty
<1>7. CASE FlushStep("loop")
  <2>0. /\ UNCHANGED <<layout, items>> /\ Shards' = Shards
        /\ closing' # "failed" => closing # "failed"
        /\ \A s : Resident(s)' = Resident(s)
        /\ \A k : EntryOf(k)' = EntryOf(k)
        /\ fpc \in [Flushers -> {"idle", "clear", "snap", "write", "rename", "rearm"}]
        /\ fi \in [Flushers -> Shards] /\ snap \in [Flushers -> Listing]
        /\ anyDirty \in [Flushers -> BOOLEAN] /\ dirty \in [Shards -> BOOLEAN]
        /\ "loop" \in Flushers /\ fi["loop"] \in Shards
    <3>1. UNCHANGED <<layout, items>> /\ (closing' # "failed" => closing # "failed")
      BY <1>7 DEF FlushStep, SnapshotShard, WriteTmp, RenameIndex, WriteIndexFails, Rearm,
                  lifeVars, shardVars
    <3> QED BY <3>1 DEF Shards, Resident, Shard, EntryOf, TypeOK, Flushers
  <2>1. SUFFICES ASSUME closing # "failed", closing' # "failed", NEW t \in Shards, ~dirty'[t]
                 PROVE  CleanAt(t)'
    BY <2>0 DEF FlushInv
  <2>2. ~dirty[t] => CleanAt(t)
    BY <2>1 DEF FlushInv
  <2>3. CASE SnapshotShard("loop")
    <3>1. PICK s \in Shards, g \in Listing, an \in BOOLEAN :
             s = fi["loop"] /\ g = Gather("loop", s) /\ an = (anyDirty["loop"] \/ dirty[s])
      BY <2>0, GatherFacts
    <3>2. /\ fpc["loop"] = "snap" /\ index' = index
          /\ t # s => ~dirty[t]
      BY <2>0, <2>1, <2>3, <3>1 DEF SnapshotShard, dirVars
    <3>3. IndexEntries' = IndexEntries
      BY <3>2 DEF IndexEntries
    <3>4. s \in Nat /\ t \in Nat
      BY LayoutFacts
    <3>5. ~an => Listed(t, IndexEntries)
      BY <2>2, <3>1, <3>2, <3>4 DEF CleanAt
    <3>6. t > s => Listed(t, IndexEntries)
      BY SMTT(30), <2>2, <3>1, <3>2, <3>4 DEF CleanAt
    <3>7. t <= s => Listed(t, Entries(g))
      <4>1. CASE t = s
        BY <2>0, <3>1, <4>1, GatherFacts
      <4>2. CASE t < s
        <5>1. Listed(t, Entries(snap["loop"]))
          BY SMTT(30), <2>2, <3>1, <3>2, <3>4, <4>2 DEF CleanAt
        <5>2. \A e \in Entries(snap["loop"]) : e \in Entries(g)
          BY <2>0, <3>1, GatherFacts
        <5> QED BY <5>1, <5>2 DEF Listed
      <4> QED BY SMTT(30), <3>4, <4>1, <4>2
    <3>8. CASE LastShard(s) /\ ~an /\ FlushDone("loop")
      <4>1. fpc'["loop"] = "idle"
        BY <2>0, <3>8 DEF FlushDone, At
      <4> QED BY <2>0, <3>3, <3>5, <3>8, <4>1 DEF CleanAt, Listed
    <3>9. CASE LastShard(s) /\ snap' = [snap EXCEPT !["loop"] = g] /\ At("loop", "write", 0)
      <4>1. fpc'["loop"] = "write" /\ snap'["loop"] = g
        BY <2>0, <3>9 DEF At
      <4>2. t <= s
        BY SMTT(30), <3>9, LayoutFacts DEF LastShard, Shards
      <4> QED BY <2>0, <3>7, <4>1, <4>2 DEF CleanAt, Listed
    <3>10. CASE /\ snap' = [snap EXCEPT !["loop"] = g] /\ At("loop", "snap", s + 1)
                /\ anyDirty' = [anyDirty EXCEPT !["loop"] = an]
      <4>1. /\ fpc'["loop"] = "snap" /\ snap'["loop"] = g /\ fi'["loop"] = s + 1
            /\ anyDirty'["loop"] = an
        BY <2>0, <3>10 DEF At
      <4>2. /\ t >= s + 1 => t > s
            /\ t < s + 1 => t <= s
        BY SMTT(30), <3>4
      <4> QED BY <2>0, <3>3, <3>5, <3>6, <3>7, <4>1, <4>2 DEF CleanAt, Listed
    <3> QED BY <2>3, <3>1, <3>8, <3>9, <3>10 DEF SnapshotShard
  <2>4. CASE WriteTmp("loop")
    <3>1. /\ fpc["loop"] = "write" /\ fpc'["loop"] = "rename" /\ indexTmp' = snap["loop"] /\ ~dirty[t]
      BY <2>0, <2>1, <2>4 DEF WriteTmp, At, shardVars
    <3> QED BY <2>0, <2>2, <3>1 DEF CleanAt, Listed
  <2>5. CASE RenameIndex("loop")
    <3>1. /\ fpc["loop"] = "rename" /\ fpc'["loop"] = "idle" /\ indexTmp # None
          /\ index' = indexTmp /\ ~dirty[t]
      BY <2>0, <2>1, <2>5 DEF RenameIndex, FlushDone, At, shardVars
    <3>2. IndexEntries' = Entries(indexTmp)
      BY <3>1 DEF IndexEntries
    <3> QED BY <2>0, <2>2, <3>1, <3>2 DEF CleanAt, Listed
  <2>6. CASE WriteIndexFails("loop")
    <3>1. fpc'["loop"] = "rearm" /\ fi'["loop"] = 0
      BY <2>0, <2>1, <2>6 DEF WriteIndexFails, At
    <3>2. ~(t < 0)
      BY SMT, LayoutFacts
    <3> QED BY <3>1, <3>2 DEF CleanAt
  <2>7. CASE Rearm("loop")
    <3>1. PICK s \in Shards : s = fi["loop"]
      BY <2>0
    <3>2. fpc["loop"] = "rearm" /\ t # s /\ ~dirty[t]
      BY <2>0, <2>1, <2>7, <3>1 DEF Rearm
    <3>3. s \in Nat /\ t \in Nat
      BY LayoutFacts
    <3>4. t < s + 1 => Resident(t) = {}
      BY SMTT(30), <2>2, <3>1, <3>2, <3>3 DEF CleanAt
    <3>5. CASE LastShard(s) /\ FlushDone("loop")
      <4>1. fpc'["loop"] = "idle"
        BY <2>0, <3>5 DEF FlushDone, At
      <4>2. t < s + 1
        BY SMTT(30), <3>5, LayoutFacts DEF LastShard, Shards
      <4> QED BY <2>0, <3>4, <4>1, <4>2 DEF CleanAt, Listed
    <3>6. CASE At("loop", "rearm", s + 1)
      <4>1. fpc'["loop"] = "rearm" /\ fi'["loop"] = s + 1
        BY <2>0, <3>6 DEF At
      <4> QED BY <2>0, <3>4, <4>1 DEF CleanAt
    <3> QED BY <2>7, <3>1, <3>5, <3>6 DEF Rearm
  <2> QED BY <1>7, <2>3, <2>4, <2>5, <2>6, <2>7 DEF FlushStep
<1> QED BY <1>1, <1>2, <1>3, <1>4, <1>5, <1>6, <1>7, FlushKinds DEF Exit, Crash, Flushers
-----------------------------------------------------------------------------
\* An empty directory and an empty memory are in order.
LEMMA InitInv ==
  ASSUME Init
  PROVE  IInv
<1>1. layout \in Layouts /\ layout.n \in Nat \ {0}
  BY DiskAssumptions DEF Init
<1>2. 0 \in Shards /\ Shards = 0..(layout.n - 1)
  BY SMT, <1>1 DEF Shards
<1>3. <<>> \in Listing
  BY SMT DEF Listing
<1>4. /\ lru \in [Shards -> Seq(Keys)] /\ curBytes \in [Shards -> Int]
      /\ dirty \in [Shards -> BOOLEAN] /\ locked \in [Shards -> Writers \cup {None}]
      /\ \A s \in Shards : lru[s] = <<>> /\ curBytes[s] = 0 /\ locked[s] = None
  BY SMT, <1>2 DEF Init, Each
<1>5. TypeOK
  <2>1. /\ phase \in {"reap", "read", "load", "open"} /\ layout \in Layouts /\ todo \in Listing
        /\ items \in [Keys -> Metas \cup {None}] /\ blob \in [Keys -> Metas \cup {None}]
        /\ wip \subseteq Writers /\ stray \subseteq Keys /\ strayTmp \subseteq Writers
        /\ index \in Listing \cup {None} /\ indexTmp \in Listing \cup {None}
        /\ crashes \in 0..MaxCrashes
    <3>1. 0 \in 0..MaxCrashes
      BY SMT, DiskAssumptions
    <3> QED BY <1>1, <1>3, <3>1 DEF Init, Nothing
  <2>2. /\ fpc \in [Flushers -> {"idle", "clear", "snap", "write", "rename", "rearm"}]
        /\ fi \in [Flushers -> Shards]
        /\ snap \in [Flushers -> Listing] /\ anyDirty \in [Flushers -> BOOLEAN]
        /\ closing \in {"no", "asked", "final", "done", "failed"}
    BY <1>2, <1>3 DEF Init, AllFlushers
  <2>3. /\ st \in [Writers -> {"idle", "open", "evict", "done"}]
        /\ wkey \in [Writers -> Keys \cup {None}] /\ len \in [Writers -> 0..MaxLen]
    <3>1. 0 \in 0..MaxLen
      BY SMT, DiskAssumptions
    <3> QED BY <3>1 DEF Init
  <2> QED BY <1>4, <2>1, <2>2, <2>3 DEF TypeOK
<1>6. \A s : Resident(s) = {}
  BY DEF Init, Resident, Nothing
<1>7. ShardConsistent
  <2>1. \A s \in Shards : Distinct(lru[s]) /\ Entries(lru[s]) = {}
    BY SMT, <1>4 DEF Distinct, Entries
  <2> QED BY <1>4, <1>6, <2>1, BytesEmpty DEF ShardConsistent
<1>8. ActiveInv /\ LockInv /\ WithinCap /\ TempInv /\ LoadInv
  BY <1>4 DEF Init, ActiveInv, Resting, AllFlushers, Flushers, LockInv, WithinCap, TempInv, LoadInv
<1>9. SizeInv
  BY DEF Init, Nothing, SizeInv
<1>10. ListInv
  BY SMT DEF Init, AllFlushers, ListInv, KeysDistinct
<1>11. ResetInv /\ FlushInv
  BY <1>6 DEF Init, AllFlushers, Flushers, ResetInv, FlushInv, CleanAt, Listed
<1> QED BY <1>5, <1>7, <1>8, <1>9, <1>10, <1>11 DEF IInv

\* Every step keeps every part.
LEMMA InvStep == IInv /\ [Next]_vars => IInv'
<1> SUFFICES ASSUME IInv, [Next]_vars PROVE IInv'
  OBVIOUS
<1>1. /\ TypeOK /\ ActiveInv /\ LockInv /\ ShardConsistent /\ WithinCap /\ SizeInv
      /\ TempInv /\ ListInv /\ LoadInv /\ ResetInv /\ FlushInv
  BY DEF IInv
<1>2. TypeOK' /\ ActiveInv' /\ LockInv' /\ ShardConsistent' /\ WithinCap'
  BY <1>1, TypeStep, ActiveStep, LockStep, ShardStep, CapStep
<1>3. SizeInv' /\ TempInv' /\ ListInv'
  BY <1>1, SizeStep, TempStep, ListStep
<1>4. LoadInv' /\ ResetInv' /\ FlushInv'
  BY <1>1, LoadStep, ResetStep, FlushInvStep
<1> QED BY <1>2, <1>3, <1>4 DEF IInv

\* Through any number of crashes, closes and restarts, into any layouts and with
\* any calls failing, an open disk tier accounts for its entries exactly and within
\* its caps, announces the true length of every blob, keeps no dead writer's file
\* it could remove, and when clean is the one its index file lists (NewDiskTier, load,
\* commit, removeLocked, Reset, flushIfDirty and Close of disk.go).
THEOREM RecoversTheorem == Spec => []Recovers
<1>1. Init => IInv
  BY InitInv
<1>2. IInv /\ [Next]_vars => IInv'
  BY InvStep
<1>3. IInv => Recovers
  <2> SUFFICES ASSUME IInv PROVE Recovers
    OBVIOUS
  <2>1. ShardConsistent /\ WithinCap /\ LengthHonest /\ TempFilesLive
    BY DEF IInv, SizeInv, LengthHonest, TempInv, TempFilesLive
  <2>2. CleanMeansPersisted
    <3> SUFFICES ASSUME closing # "failed", \A s \in Shards : ~dirty[s],
                        \A f \in Flushers : fpc[f] = "idle",
                        NEW k \in Keys, items[k] # None
                 PROVE  EntryOf(k) \in IndexEntries
      BY DEF CleanMeansPersisted, ResidentEntries, EntryOf
    <3>1. Shard(k) \in Shards
      BY LayoutFacts DEF IInv
    <3>2. k \in Resident(Shard(k))
      BY DEF Resident
    <3>3. Listed(Shard(k), IndexEntries)
      BY <3>1 DEF IInv, FlushInv, CleanAt, Flushers
    <3> QED BY <3>2, <3>3 DEF Listed
  <2> QED BY <2>1, <2>2 DEF Recovers
<1> QED BY <1>1, <1>2, <1>3, PTL DEF Spec
-----------------------------------------------------------------------------
(* One process, on a directory that was empty.                                *)

\* Until the tier is open it holds and loads nothing, and the file at a key's path
\* is the blob of the key's entry, or one without an entry whose remove failed.
OneInv ==
    /\ phase # "open" => items = Nothing /\ todo = <<>> /\ index = None
    /\ \A k \in Keys : blob[k] \in {items[k], None} \/ (items[k] = None /\ k \in stray)

\* Within a process, blobs come and go with their entries (commit, removeLocked).
LEMMA OneStep ==
  ASSUME IInv, OneInv, [LiveNext]_vars
  PROVE  OneInv' /\ ~Loads
<1>0. /\ TypeOK /\ ActiveInv /\ LockInv /\ LoadInv /\ ShardConsistent
      /\ [Next]_vars
  BY DEF IInv, LiveNext
<1>1. /\ UNCHANGED vars \/ (~Exit /\ ~Crash)
      /\ ~LoadEntry
  BY DEF LiveNext, OneInv, LoadEntry
<1>2. ~Loads
  BY <1>1 DEF Loads
<1>3. Removes \/ \E w \in Writers : Install(w)
  <2>1. CASE UNCHANGED vars
    BY <2>1 DEF vars, Removes
  <2> QED BY <1>0, <1>1, <1>2, <2>1, RemovesOrInserts
<1>4. \A k \in Keys : blob'[k] \in {items'[k], None} \/ (items'[k] = None /\ k \in stray')
  <2>1. CASE Removes
    BY <2>1 DEF Removes, OneInv
  <2>2. ASSUME NEW w \in Writers, Install(w), NEW k \in Keys
        PROVE  blob'[k] \in {items'[k], None} \/ (items'[k] = None /\ k \in stray')
    <3>1. /\ items'[k] = IF k = wkey[w] THEN NewMeta(w) ELSE items[k]
          /\ blob'[k] = IF k = wkey[w] THEN NewMeta(w) ELSE blob[k]
          /\ stray' = stray \ {wkey[w]}
      BY <1>0, <2>2, InstallFacts
    <3> QED BY <3>1 DEF OneInv
  <2> QED BY <1>3, <2>1, <2>2
<1>5. ASSUME phase' # "open" PROVE items' = Nothing /\ todo' = <<>> /\ index' = None
  <2>1. phase # "open" /\ todo' = <<>>
    <3>1. CASE UNCHANGED vars
      BY <1>5, <3>1 DEF vars, OneInv
    <3> QED BY <1>0, <1>1, <1>5, <3>1, LifeKinds DEF lifeVars, Reap, ReadIndex, Opened, OneInv
  <2>2. index' = None
    BY <1>0, <2>1, IndexQuiet DEF OneInv
  <2>3. \A k \in Keys : items'[k] = None
    BY <1>3, <2>1 DEF Removes, Install, OneInv, Nothing
  <2>4. items' \in [Keys -> Metas \cup {None}]
    BY <1>0, ShardStep DEF ShardTypes
  <2> QED BY <2>1, <2>2, <2>3, <2>4 DEF Nothing
<1> QED BY <1>2, <1>4, <1>5 DEF OneInv

\* The invariant of one process.
LEMMA OneInvariance == OneProcess => [](IInv /\ OneInv)
<1>1. Init => IInv /\ OneInv
  <2> SUFFICES ASSUME Init PROVE IInv /\ OneInv
    OBVIOUS
  <2>1. IInv
    BY InitInv
  <2>2. OneInv
    BY DEF Init, Nothing, OneInv
  <2> QED BY <2>1, <2>2
<1>2. IInv /\ OneInv /\ [LiveNext]_vars => (IInv /\ OneInv)'
  <2> SUFFICES ASSUME IInv, OneInv, [LiveNext]_vars PROVE IInv' /\ OneInv'
    OBVIOUS
  <2>1. [Next]_vars
    BY DEF LiveNext
  <2>2. IInv'
    BY <2>1, InvStep
  <2> QED BY <2>2, OneStep
<1> QED BY <1>1, <1>2, PTL DEF OneProcess

\* While a process lives, whatever calls fail, whoever removes files and in whatever
\* order commits, evictions, deletes, resets and flushes go, every entry describes
\* the blob at its path, and every blob belongs to an entry unless the remove of that
\* very file failed (commit, removeLocked, Reset and Get of disk.go).
THEOREM BlobsOwnedTheorem == OneProcess => []BlobsOwned
<1>1. IInv /\ OneInv => BlobsOwned
  BY DEF IInv, OneInv, BlobsOwned, MetaMatchesBlob, NoOrphanBlobs
<1> QED BY OneInvariance, <1>1, PTL

\* In one process the disk tier implements Tier: refused, aborted and failed writes
\* never show another object, an object is installed at most once, and a copy that
\* was replaced, evicted, deleted or reset never comes back (DiskTier and diskWriter
\* of disk.go against the interface of cache.go).
THEOREM DiskRefinement == OneProcess => ImplementsTier
<1> DEFINE Held == [k \in Keys |-> IF items[k] = None THEN None ELSE items[k].obj]
           Unborn == {w \in Writers : st[w] # "done"}
<1>1. Init => Abstract!Init
  BY DEF Init, Nothing, Abstract!Init
<1>2. IInv /\ OneInv /\ [LiveNext]_vars => [Abstract!Next]_(Abstract!vars)
  <2> SUFFICES ASSUME IInv, OneInv, [LiveNext]_vars
               PROVE  Abstract!Next \/ UNCHANGED <<Held, Unborn>>
    BY DEF Abstract!vars
  <2>0. /\ TypeOK /\ LockInv /\ LoadInv /\ ShardConsistent /\ ~Loads
        /\ [Next]_vars
    BY OneStep DEF IInv, LiveNext
  <2>1. st \in [Writers -> {"idle", "open", "evict", "done"}]
    BY <2>0 DEF TypeOK
  <2>2. ASSUME NEW w \in Writers, st[w] # "done", st' = [st EXCEPT ![w] = "done"], items' = items
        PROVE  Abstract!Next
    <3>1. w \in Unborn /\ Unborn' = Unborn \ {w} /\ Held' = Held
      BY <2>1, <2>2
    <3>2. Abstract!Discard(w)
      BY <3>1 DEF Abstract!Discard
    <3> QED BY <3>2 DEF Abstract!Next
  <2>3. ASSUME Unborn' = Unborn, \A k \in Keys : items'[k] \in {items[k], None}
        PROVE  Abstract!Next
    <3>1. PICK S \in SUBSET Keys : S = {k \in Keys : items'[k] = None}
      OBVIOUS
    <3>2. Held' = [k \in Keys |-> IF k \in S THEN None ELSE Held[k]]
      BY <2>3, <3>1
    <3>3. Abstract!Drop(S)
      BY <2>3, <3>2 DEF Abstract!Drop
    <3> QED BY <3>3 DEF Abstract!Next
  <2>4. CASE UNCHANGED vars
    BY <2>4 DEF vars
  <2>5. CASE WriterFrame \/ Reap
    <3>1. st' = st /\ Unborn' = Unborn
      BY <2>5 DEF WriterFrame, Reap, writerVars
    <3>2. ASSUME NEW w \in Writers, Install(w) PROVE FALSE
      BY <2>1, <3>1, <3>2 DEF Install, Finish, Goto
    <3>3. Removes \/ UNCHANGED vars
      BY <2>0, <3>2, RemovesOrInserts DEF LiveNext
    <3> QED BY <2>3, <2>4, <3>1, <3>3 DEF Removes
  <2>6. ASSUME NEW w \in Writers,
               (\E k \in Keys : Open(w, k)) \/ (\E n \in Chunks : Write(w, n))
        PROVE  UNCHANGED <<Held, Unborn>>
    <3>1. items' = items /\ (st' = st \/ (st[w] = "idle" /\ st' = [st EXCEPT ![w] = "open"]))
      BY <2>6 DEF Open, Write, Goto, shardVars
    <3> QED BY <2>1, <3>1
  <2>7. ASSUME NEW w \in Writers, Abort(w) \/ CommitRefused(w) \/ RenameFails(w)
        PROVE  Abstract!Next
    <3>1. st[w] # "done" /\ st' = [st EXCEPT ![w] = "done"] /\ items' = items
      BY <2>7 DEF Abort, CommitRefused, RenameFails, Discard, Finish, Goto, shardVars
    <3> QED BY <2>2, <3>1
  <2>8. ASSUME NEW w \in Writers, CommitBegin(w) PROVE Abstract!Next
    <3>1. st[w] = "open" /\ st' = [st EXCEPT ![w] = "evict"]
      BY <2>8 DEF CommitBegin, Goto
    <3>2. Unborn' = Unborn
      BY <2>1, <3>1
    <3>3. \A k \in Keys : items'[k] \in {items[k], None}
      BY <2>0, <2>8 DEF CommitBegin, RemoveLocked, TypeOK
    <3> QED BY <2>3, <3>2, <3>3
  <2>9. ASSUME NEW w \in Writers, Install(w) PROVE Abstract!Next
    <3>1. PICK k \in Keys : k = wkey[w]
      BY <2>0, <2>9, InstallFacts
    <3>2. /\ NewMeta(w) \in Metas /\ NewMeta(w).obj = w
          /\ \A x \in Keys : items'[x] = IF x = k THEN NewMeta(w) ELSE items[x]
      BY <2>0, <2>9, <3>1, InstallFacts DEF NewMeta
    <3>3. NewMeta(w) # None
      BY <3>2, DiskAssumptions DEF Metas
    <3>4. Held' = [Held EXCEPT ![k] = w]
      BY <3>2, <3>3
    <3>5. st[w] = "evict" /\ st' = [st EXCEPT ![w] = "done"]
      BY <2>9 DEF Install, Finish, Goto
    <3>6. w \in Unborn /\ Unborn' = Unborn \ {w}
      BY <2>1, <3>5
    <3>7. Abstract!Install(k, w)
      BY <3>4, <3>6 DEF Abstract!Install
    <3> QED BY <3>7 DEF Abstract!Next
  <2> QED BY <2>0, <2>4, <2>5, <2>6, <2>7, <2>8, <2>9, WriterKinds DEF LiveNext
<1> QED BY OneInvariance, <1>1, <1>2, PTL DEF OneProcess, ImplementsTier, Abstract!Spec
=============================================================================
