------------------------------ MODULE DiskTier ------------------------------
(* The disk tier (internal/cache/disk.go): an in-memory index with one LRU    *)
(* list per shard; blobs, temp files and an index file in a directory; a      *)
(* background flusher; Close, crashes and restarts.                           *)
(*                                                                            *)
(* A writer stands for the object it writes.  blob, wip, index and indexTmp   *)
(* are the directory and survive a crash; everything else is the process.     *)
(* A loop over entries or shards is one step per lap, so other goroutines,    *)
(* and a crash, can come between any two file operations.                     *)
EXTENDS Integers, Sequences, FiniteSets, TierData

CONSTANTS Keys, Writers, None,
          Layouts,   \* how a budget splits into shards: records of n (shardCount),
                     \* shardOf (shardIndex) and cap (shardCaps)
          Chunks,    \* the lengths of the slices a caller may Write
          MaxLen,    \* bound: the longest body
          MaxCrashes,\* bound: crashes in a behaviour
          May        \* which of "reset", "close", "vanish" happen, and "iofail":
                     \* any call on the directory fails

ASSUME DiskAssumptions ==
    /\ None \notin Writers /\ None \notin [obj : Writers, size : 0..MaxLen]
    /\ IsFiniteSet(Keys)
    /\ Chunks \subseteq Nat \ {0}
    /\ MaxLen \in Nat /\ MaxCrashes \in Nat
    /\ \A l \in Layouts :
         /\ l.n \in Nat \ {0}
         /\ l.shardOf \in [Keys -> 0..(l.n - 1)]
         /\ l.cap \in [0..(l.n - 1) -> Int]

VARIABLES
    phase,     \* "down", or where NewDiskTier is, or "open"
    layout,    \* the shards of the opened tier
    todo,      \* index entries load has still to go through
    items,     \* the entry of each key, or None
    lru,       \* per shard, its keys, most recently used first
    curBytes,  \* per shard, the bytes it accounts for
    dirty,     \* per shard, changed since the last flush
    locked,    \* per shard, the writer whose commit holds mu, or None
    fpc, fi, snap, anyDirty,  \* per caller of flushIfDirty: where it is, its
               \* next shard, the entries gathered, whether a shard was dirty
    closing,   \* Close: "no", "asked", "final", "done" or "failed"
    blob,      \* directory: the file at each key's blobPath, or None
    wip,       \* directory: the writers whose temp file exists
    index,     \* directory: the entries of index.json, or None
    indexTmp,  \* directory: the entries of index.json.tmp, or None
    stray,     \* the keys at whose path a failed remove of this process left a file
    strayTmp,  \* the writers whose temp file one left
    st, wkey, len,  \* the writers: where they are, their key, bytes written
    crashes

shardVars  == <<items, lru, curBytes, dirty, locked>>
flushVars  == <<fpc, fi, snap, anyDirty, closing>>
dirVars    == <<blob, wip, index, indexTmp, stray, strayTmp>>
indexVars  == <<index, indexTmp>>
writerVars == <<st, wkey, len>>
lifeVars   == <<phase, layout, todo, crashes>>
vars == <<phase, layout, todo, items, lru, curBytes, dirty, locked, fpc, fi, snap,
          anyDirty, closing, blob, wip, index, indexTmp, stray, strayTmp, st, wkey, len, crashes>>

\* The background loop (once it has exited, the final flush of Close), and Reset.
Flushers == {"loop", "reset"}

Shards == 0..(layout.n - 1)
Shard(k) == layout.shardOf[k]
Cap(s) == layout.cap[s]
Unlocked(s) == locked[s] = None
Sizes == [k \in Keys |-> IF items[k] = None THEN 0 ELSE items[k].size]

Each(l, v) == [s \in 0..(l.n - 1) |-> v]
AllFlushers(v) == [f \in Flushers |-> v]
Nothing == [k \in Keys |-> None]

\* A process that starts on an empty directory.
Init ==
    /\ layout \in Layouts
    /\ phase = "reap" /\ todo = <<>>
    /\ items = Nothing /\ lru = Each(layout, <<>>) /\ curBytes = Each(layout, 0)
    /\ dirty = Each(layout, FALSE) /\ locked = Each(layout, None)
    /\ fpc = AllFlushers("idle") /\ fi = AllFlushers(0)
    /\ snap = AllFlushers(<<>>) /\ anyDirty = AllFlushers(FALSE)
    /\ closing = "no"
    /\ blob = Nothing /\ wip = {} /\ index = None /\ indexTmp = None
    /\ stray = {} /\ strayTmp = {}
    /\ st = [w \in Writers |-> "idle"]
    /\ wkey = [w \in Writers |-> None]
    /\ len = [w \in Writers |-> 0]
    /\ crashes = 0
-----------------------------------------------------------------------------
(* removeLocked, and the tier's writers.                                      *)

\* Mutant: a change does not mark its shard.
MarkNothing(s) == dirty

MarkDirty(s) == [dirty EXCEPT ![s] = TRUE]

\* Mutant: the bytes of a removed entry stay on the account.
KeepCharge(k) == curBytes

Discharge(k) == [curBytes EXCEPT ![Shard(k)] = @ - items[k].size]

\* Of files to remove, those whose os.Remove may fail together.
Unremoved(files) == IF "iofail" \in May THEN SUBSET files ELSE {{}}

\* Mutant: the blobs of removed entries stay in the directory.
KeepBlobs(gone) == UNCHANGED <<blob, stray>>

\* The files at the paths of some keys go, but for those whose remove fails: the
\* error is ignored.
RemoveBlobs(gone) ==
    \E kept \in Unremoved({k \in gone : blob[k] # None}) :
        /\ blob' = [k \in Keys |-> IF k \in gone \ kept THEN None ELSE blob[k]]
        /\ stray' = (stray \ gone) \cup kept

\* removeLocked: entry, bytes, list node and blob go; the shard is dirty.
RemoveLocked(k) ==
    LET s == Shard(k)
    IN  /\ curBytes' = Discharge(k)
        /\ lru' = [lru EXCEPT ![s] = RemoveKey(@, k)]
        /\ items' = [items EXCEPT ![k] = None]
        /\ dirty' = MarkDirty(s)
        /\ RemoveBlobs({k})

Goto(w, s) == st' = [st EXCEPT ![w] = s]

\* The writer is used up and its locals go.
Finish(w) ==
    /\ Goto(w, "done")
    /\ wkey' = [wkey EXCEPT ![w] = None]
    /\ len' = [len EXCEPT ![w] = 0]

\* A tier serves once it is open, and not while the reload path still resets it.
Serving == phase = "open" /\ fpc["reset"] = "idle"

Open(w, k) ==
    /\ Serving /\ st[w] = "idle"
    /\ Goto(w, "open")
    /\ wkey' = [wkey EXCEPT ![w] = k]
    /\ wip' = wip \cup {w}
    /\ UNCHANGED <<lifeVars, shardVars, flushVars, indexVars, blob, stray, strayTmp, len>>

Write(w, n) ==
    /\ phase = "open" /\ st[w] = "open"
    /\ len[w] + n <= MaxLen
    /\ len' = [len EXCEPT ![w] = @ + n]
    /\ UNCHANGED <<lifeVars, shardVars, flushVars, dirVars, st, wkey>>

\* Mutant: the temp file stays where it is.
KeepTemp(w) == UNCHANGED <<wip, strayTmp>>

\* The temp file goes, unless its remove fails.
RemoveTemp(w) ==
    \E kept \in Unremoved(wip \cap {w}) :
        /\ wip' = (wip \ {w}) \cup kept
        /\ strayTmp' = strayTmp \cup kept

\* The temp file goes and nothing is stored: Abort, a failed close of the temp
\* file, or an object over its shard's cap, which commit discards before it
\* touches any copy the shard already holds.
Discard(w) ==
    /\ Finish(w)
    /\ RemoveTemp(w)
    /\ UNCHANGED <<lifeVars, shardVars, flushVars, indexVars, blob, stray>>

Abort(w) == phase = "open" /\ st[w] = "open" /\ Discard(w)

\* Mutant: the resident copy is removed before the cap is looked at.
CommitRefusedLate(w) ==
    LET k == wkey[w]
    IN  /\ phase = "open" /\ st[w] = "open" /\ Unlocked(Shard(k))
        /\ len[w] > Cap(Shard(k)) /\ items[k] # None
        /\ Finish(w)
        /\ RemoveTemp(w)
        /\ RemoveLocked(k)
        /\ UNCHANGED <<lifeVars, flushVars, indexVars, locked>>

CommitRefused(w) ==
    /\ phase = "open" /\ st[w] = "open" /\ Unlocked(Shard(wkey[w]))
    /\ len[w] > Cap(Shard(wkey[w]))
    /\ Discard(w)

\* commit: take the lock and remove the entry the object replaces.
CommitBegin(w) ==
    LET k == wkey[w]
        s == Shard(k)
    IN  /\ phase = "open" /\ st[w] = "open" /\ Unlocked(s)
        /\ len[w] <= Cap(s)
        /\ Goto(w, "evict")
        /\ locked' = [locked EXCEPT ![s] = w]
        /\ \/ items[k] # None /\ RemoveLocked(k)
           \/ items[k] = None /\ UNCHANGED <<items, lru, curBytes, dirty, blob, stray>>
        /\ UNCHANGED <<lifeVars, flushVars, indexVars, wip, strayTmp, wkey, len>>

\* Mutant: room is looked for before the object is counted.
FitsAlready(w, s) == curBytes[s] <= Cap(s)

Fits(w, s) == curBytes[s] + len[w] <= Cap(s)

\* commit: remove the least recently used entry while the object does not fit.
Evict(w) ==
    LET s == Shard(wkey[w])
    IN  /\ phase = "open" /\ st[w] = "evict"
        /\ ~Fits(w, s) /\ lru[s] # <<>>
        /\ RemoveLocked(Back(lru[s]))
        /\ UNCHANGED <<lifeVars, flushVars, writerVars, indexVars, locked, wip, strayTmp>>

HasRoom(w) == Fits(w, Shard(wkey[w])) \/ lru[Shard(wkey[w])] = <<>>

\* Mutant: the entry keeps the size its caller declared (none, when unknown).
DeclaredMeta(w) == [obj |-> w, size |-> 0]

\* commit: the entry's size is what was written.
NewMeta(w) == [obj |-> w, size |-> len[w]]

\* commit: the temp file becomes the blob, the object enters the index at the
\* front, the shard is dirty and unlocked.
Install(w) ==
    LET k == wkey[w]
        s == Shard(k)
    IN  /\ phase = "open" /\ st[w] = "evict" /\ HasRoom(w)
        /\ w \in wip
        /\ wip' = wip \ {w}
        /\ blob' = [blob EXCEPT ![k] = [obj |-> w, size |-> len[w]]]
        /\ stray' = stray \ {k}
        /\ items' = [items EXCEPT ![k] = NewMeta(w)]
        /\ lru' = [lru EXCEPT ![s] = PushFront(@, k)]
        /\ curBytes' = [curBytes EXCEPT ![s] = @ + len[w]]
        /\ dirty' = MarkDirty(s)
        /\ locked' = [locked EXCEPT ![s] = None]
        /\ Finish(w)
        /\ UNCHANGED <<lifeVars, flushVars, indexVars, strayTmp>>

\* commit: the rename fails (it must when the temp file is gone); the entry the
\* object was to replace stays removed.
RenameFails(w) ==
    LET s == Shard(wkey[w])
    IN  /\ phase = "open" /\ st[w] = "evict" /\ HasRoom(w)
        /\ w \notin wip \/ "iofail" \in May
        /\ RemoveTemp(w)
        /\ locked' = [locked EXCEPT ![s] = None]
        /\ Finish(w)
        /\ UNCHANGED <<lifeVars, flushVars, indexVars, items, lru, curBytes, dirty, blob, stray>>
-----------------------------------------------------------------------------
(* Get, Delete, Reset.                                                        *)

\* Get opens the blob under the lock; an entry whose blob cannot be opened is dropped.
Get(k) ==
    LET s == Shard(k)
    IN  /\ phase = "open" /\ Unlocked(s) /\ items[k] # None
        /\ \/ /\ blob[k] # None
              /\ lru' = [lru EXCEPT ![s] = MoveToFront(@, k)]
              /\ UNCHANGED <<items, curBytes, dirty, blob, stray>>
           \/ (blob[k] = None \/ "iofail" \in May) /\ RemoveLocked(k)
        /\ UNCHANGED <<lifeVars, flushVars, writerVars, indexVars, locked, wip, strayTmp>>

Delete(k) ==
    /\ phase = "open" /\ Unlocked(Shard(k)) /\ items[k] # None
    /\ RemoveLocked(k)
    /\ UNCHANGED <<lifeVars, flushVars, writerVars, indexVars, locked, wip, strayTmp>>

\* Mutant: the loop over the shards goes one too far.
PastLast(s) == s = layout.n

LastShard(s) == s + 1 = layout.n

At(f, pc, i) ==
    /\ fpc' = [fpc EXCEPT ![f] = pc]
    /\ fi' = [fi EXCEPT ![f] = i]

\* Reset is called on a store that is not serving yet: no writer is active.
ResetBegin ==
    /\ "reset" \in May /\ Serving /\ closing = "no"
    /\ \A w \in Writers : st[w] \in {"idle", "done"}
    /\ At("reset", "clear", 0)
    /\ UNCHANGED <<lifeVars, shardVars, dirVars, writerVars, snap, anyDirty, closing>>

\* Reset: every entry of one shard goes; after the last shard, flushIfDirty.
ResetShard ==
    LET s    == fi["reset"]
        gone == Entries(lru[s])
    IN  /\ fpc["reset"] = "clear" /\ Unlocked(s)
        /\ items' = [k \in Keys |-> IF k \in gone THEN None ELSE items[k]]
        /\ RemoveBlobs(gone)
        /\ lru' = [lru EXCEPT ![s] = <<>>]
        /\ curBytes' = [curBytes EXCEPT ![s] = @ - Bytes(gone, Sizes)]
        /\ dirty' = [dirty EXCEPT ![s] = @ \/ gone # {}]
        /\ IF LastShard(s) THEN At("reset", "snap", 0) ELSE At("reset", "clear", s + 1)
        /\ UNCHANGED <<lifeVars, writerVars, indexVars, locked, snap, anyDirty, closing, wip, strayTmp>>
-----------------------------------------------------------------------------
(* The index file: flushIfDirty, its callers, and Close.                      *)

\* flushLoop: a tick of the persist interval.
Tick ==
    /\ phase = "open" /\ closing = "no" /\ fpc["loop"] = "idle"
    /\ At("loop", "snap", 0)
    /\ UNCHANGED <<lifeVars, shardVars, dirVars, writerVars, snap, anyDirty, closing>>

Close ==
    /\ "close" \in May /\ Serving /\ closing = "no"
    /\ closing' = "asked"
    /\ UNCHANGED <<lifeVars, shardVars, dirVars, writerVars, fpc, fi, snap, anyDirty>>

\* Close: the loop has exited; the final flush writes whatever the dirty flags say.
FinalFlush ==
    /\ closing = "asked" /\ fpc["loop"] = "idle"
    /\ closing' = "final"
    /\ At("loop", "snap", 0)
    /\ anyDirty' = [anyDirty EXCEPT !["loop"] = TRUE]
    /\ UNCHANGED <<lifeVars, shardVars, dirVars, writerVars, snap>>

\* The persisted form of a shard: its entries, most recently used first.
ShardEntries(s) ==
    [i \in 1..Len(lru[s]) |-> [key  |-> lru[s][i], obj |-> items[lru[s][i]].obj,
                               size |-> items[lru[s][i]].size]]

\* Mutant: only the dirty shards are gathered.
GatherDirty(f, s) == IF dirty[s] THEN snap[f] \o ShardEntries(s) ELSE snap[f]

Gather(f, s) == snap[f] \o ShardEntries(s)

FlushDone(f) ==
    /\ At(f, "idle", 0)
    /\ snap' = [snap EXCEPT ![f] = <<>>]
    /\ anyDirty' = [anyDirty EXCEPT ![f] = FALSE]

\* snapshotIfDirty: one shard under its lock; its dirty flag is cleared.
SnapshotShard(f) ==
    LET s  == fi[f]
        an == anyDirty[f] \/ dirty[s]
    IN  /\ fpc[f] = "snap" /\ Unlocked(s)
        /\ dirty' = [dirty EXCEPT ![s] = FALSE]
        /\ \/ /\ LastShard(s) /\ ~an
              /\ FlushDone(f)
           \/ /\ ~LastShard(s) \/ an
              /\ snap' = [snap EXCEPT ![f] = Gather(f, s)]
              /\ anyDirty' = [anyDirty EXCEPT ![f] = an]
              /\ IF LastShard(s) THEN At(f, "write", 0) ELSE At(f, "snap", s + 1)
        /\ UNCHANGED <<lifeVars, dirVars, writerVars, items, lru, curBytes, locked, closing>>

\* writeIndex: the temp file of the index ...
WriteTmp(f) ==
    /\ fpc[f] = "write"
    /\ indexTmp' = snap[f]
    /\ At(f, "rename", 0)
    /\ UNCHANGED <<lifeVars, shardVars, writerVars, snap, anyDirty, closing, blob, wip, index, stray, strayTmp>>

\* ... and its rename over the index.
RenameIndex(f) ==
    /\ fpc[f] = "rename" /\ indexTmp # None
    /\ index' = indexTmp
    /\ indexTmp' = None
    /\ closing' = IF f = "loop" /\ closing = "final" THEN "done" ELSE closing
    /\ FlushDone(f)
    /\ UNCHANGED <<lifeVars, shardVars, writerVars, blob, wip, stray, strayTmp>>

\* writeIndex fails, as the rename must once another flush took the temp file.
\* The flusher goes on to re-arm the dirty flags; Close returns the error.
WriteIndexFails(f) ==
    /\ \/ fpc[f] \in {"write", "rename"} /\ "iofail" \in May
       \/ fpc[f] = "rename" /\ indexTmp = None
    /\ IF f = "loop" /\ closing = "final"
          THEN closing' = "failed" /\ FlushDone(f)
          ELSE At(f, "rearm", 0) /\ UNCHANGED <<snap, anyDirty, closing>>
    /\ UNCHANGED <<lifeVars, shardVars, dirVars, writerVars>>

\* flushIfDirty after a failed write: one shard is marked dirty again.
Rearm(f) ==
    LET s == fi[f]
    IN  /\ fpc[f] = "rearm" /\ Unlocked(s)
        /\ dirty' = [dirty EXCEPT ![s] = TRUE]
        /\ IF LastShard(s)
             THEN FlushDone(f)
             ELSE At(f, "rearm", s + 1) /\ UNCHANGED <<snap, anyDirty>>
        /\ UNCHANGED <<lifeVars, dirVars, writerVars, items, lru, curBytes, locked, closing>>
-----------------------------------------------------------------------------
(* NewDiskTier, and the end of the process.                                   *)

\* Mutant: the temp files of the previous process stay.
ReapNothing ==
    /\ phase = "reap"
    /\ phase' = "read"
    /\ UNCHANGED <<shardVars, flushVars, dirVars, writerVars, layout, todo, crashes>>

\* reapTempBlobs: every wip-* file goes, but for those whose remove fails (all of
\* them, when the directory cannot be read).
Reap ==
    /\ phase = "reap"
    /\ wip' \in Unremoved(wip)
    /\ strayTmp' = wip'
    /\ phase' = "read"
    /\ UNCHANGED <<shardVars, flushVars, writerVars, indexVars, layout, todo, crashes, blob, stray>>

\* load: read the index; a missing one is an empty one, and so is one whose text a
\* crash has spoilt.
ReadIndex ==
    /\ phase = "read"
    /\ \/ todo' = IF index = None THEN <<>> ELSE index
       \/ "iofail" \in May /\ crashes > 0 /\ todo' = <<>>
    /\ phase' = "load"
    /\ UNCHANGED <<shardVars, flushVars, dirVars, writerVars, layout, crashes>>

\* Mutant: the blob's size is not compared.
LoadableAnySize(e) == blob[e.key] # None /\ e.size <= Cap(Shard(e.key))

\* load keeps an entry whose blob exists with its size and fits its shard's cap.
Loadable(e) ==
    blob[e.key] # None /\ blob[e.key].size = e.size /\ e.size <= Cap(Shard(e.key))

\* load: the entries from the last to the first; one that cannot be kept is
\* skipped and the file at its path removed.
LoadEntry ==
    LET e == todo[Len(todo)]
        k == e.key
        s == Shard(k)
    IN  /\ phase = "load" /\ todo # <<>>
        /\ todo' = SubSeq(todo, 1, Len(todo) - 1)
        /\ \/ /\ ~Loadable(e)
              /\ RemoveBlobs({k})
              /\ UNCHANGED <<items, lru, curBytes>>
           \/ /\ Loadable(e)
              /\ lru' = [lru EXCEPT ![s] = PushFront(@, k)]
              /\ items' = [items EXCEPT ![k] = [obj |-> e.obj, size |-> e.size]]
              /\ curBytes' = [curBytes EXCEPT ![s] = @ + e.size]
              /\ UNCHANGED <<blob, stray>>
        /\ UNCHANGED <<flushVars, writerVars, indexVars, phase, layout, crashes, dirty, locked, wip, strayTmp>>

\* Mutant: nothing is trimmed after the entries are distributed.
NeverOverfull(s) == FALSE

Overfull(s) == curBytes[s] > Cap(s) /\ lru[s] # <<>>

\* load: a shard over its cap loses its least recently used entry.
Trim(s) ==
    /\ phase = "load" /\ todo = <<>> /\ Overfull(s)
    /\ RemoveLocked(Back(lru[s]))
    /\ UNCHANGED <<lifeVars, flushVars, writerVars, indexVars, locked, wip, strayTmp>>

Opened ==
    /\ phase = "load" /\ todo = <<>> /\ \A s \in Shards : ~Overfull(s)
    /\ phase' = "open"
    /\ UNCHANGED <<shardVars, flushVars, dirVars, writerVars, layout, todo, crashes>>

\* The process ends and the next one starts, with any layout: memory is lost,
\* the directory stays, the active writers are gone.
NextProcess ==
    /\ layout' \in Layouts
    /\ phase' = "reap" /\ todo' = <<>>
    /\ items' = Nothing /\ lru' = Each(layout', <<>>) /\ curBytes' = Each(layout', 0)
    /\ dirty' = Each(layout', FALSE) /\ locked' = Each(layout', None)
    /\ fpc' = AllFlushers("idle") /\ fi' = AllFlushers(0)
    /\ snap' = AllFlushers(<<>>) /\ anyDirty' = AllFlushers(FALSE)
    /\ closing' = "no"
    /\ st' = [w \in Writers |-> IF st[w] = "idle" THEN "idle" ELSE "done"]
    /\ wkey' = [w \in Writers |-> None]
    /\ len' = [w \in Writers |-> 0]
    /\ stray' = {} /\ strayTmp' = {}
    /\ UNCHANGED <<indexVars, blob, wip>>

\* After Close; or NewDiskTier returns the error of reading the index.
Exit ==
    /\ closing \in {"done", "failed"} \/ (phase = "read" /\ "iofail" \in May)
    /\ NextProcess
    /\ UNCHANGED crashes

Crash ==
    /\ crashes < MaxCrashes
    /\ crashes' = crashes + 1
    /\ NextProcess

\* Someone outside removes a blob.
Vanish(k) ==
    /\ "vanish" \in May /\ phase = "open" /\ blob[k] # None
    /\ blob' = [blob EXCEPT ![k] = None]
    /\ UNCHANGED <<lifeVars, shardVars, flushVars, writerVars, indexVars, wip, stray, strayTmp>>

CommitStep(w) == CommitBegin(w) \/ Evict(w) \/ Install(w) \/ RenameFails(w)

FlushStep(f) == SnapshotShard(f) \/ WriteTmp(f) \/ RenameIndex(f) \/ WriteIndexFails(f) \/ Rearm(f)

OpenStep == Reap \/ ReadIndex \/ LoadEntry \/ (\E s \in Shards : Trim(s)) \/ Opened

Next ==
    \/ OpenStep
    \/ \E w \in Writers :
         \/ \E k \in Keys : Open(w, k)
         \/ \E n \in Chunks : Write(w, n)
         \/ Abort(w) \/ CommitRefused(w) \/ CommitStep(w)
    \/ \E k \in Keys : Get(k) \/ Delete(k) \/ Vanish(k)
    \/ ResetBegin \/ ResetShard \/ Tick \/ Close \/ FinalFlush
    \/ \E f \in Flushers : FlushStep(f)
    \/ Exit \/ Crash

Spec == Init /\ [][Next]_vars

\* One process, until it exits or crashes.
LiveNext == Next /\ ~Exit /\ ~Crash
OneProcess == Init /\ [][LiveNext]_vars

\* The ticker keeps firing, a commit or a flush under way runs to its end, and
\* writing the index does not fail every time it is tried; a caller may leave a
\* writer open for ever.
FairProcess ==
    /\ OneProcess
    /\ WF_vars(OpenStep)
    /\ WF_vars(Tick \/ FinalFlush \/ FlushStep("loop"))
    /\ WF_vars(ResetShard \/ FlushStep("reset"))
    /\ SF_vars(WriteTmp("loop")) /\ SF_vars(RenameIndex("loop"))
    /\ \A w \in Writers : WF_vars(CommitStep(w) /\ st[w] = "evict")
-----------------------------------------------------------------------------
(* Properties.                                                                *)

Metas == [obj : Writers, size : 0..MaxLen]
Listing == Seq([key : Keys, obj : Writers, size : 0..MaxLen])
Resident(s) == {k \in Keys : items[k] # None /\ Shard(k) = s}
ResidentEntries == {[key |-> k, obj |-> items[k].obj, size |-> items[k].size] :
                      k \in {x \in Keys : items[x] # None}}
IndexEntries == IF index = None THEN {} ELSE Entries(index)

\* Every variable has the type its declaration gives it.
TypeOK ==
    /\ phase \in {"reap", "read", "load", "open"}
    /\ layout \in Layouts
    /\ todo \in Listing
    /\ items \in [Keys -> Metas \cup {None}] /\ blob \in [Keys -> Metas \cup {None}]
    /\ lru \in [Shards -> Seq(Keys)] /\ curBytes \in [Shards -> Int]
    /\ dirty \in [Shards -> BOOLEAN] /\ locked \in [Shards -> Writers \cup {None}]
    /\ fpc \in [Flushers -> {"idle", "clear", "snap", "write", "rename", "rearm"}]
    /\ fi \in [Flushers -> Shards]
    /\ snap \in [Flushers -> Listing] /\ anyDirty \in [Flushers -> BOOLEAN]
    /\ closing \in {"no", "asked", "final", "done", "failed"}
    /\ wip \subseteq Writers /\ stray \subseteq Keys /\ strayTmp \subseteq Writers
    /\ index \in Listing \cup {None} /\ indexTmp \in Listing \cup {None}
    /\ st \in [Writers -> {"idle", "open", "evict", "done"}]
    /\ wkey \in [Writers -> Keys \cup {None}] /\ len \in [Writers -> 0..MaxLen]
    /\ crashes \in 0..MaxCrashes

\* The three structures a shard keeps agree at every step, through loads into
\* another layout, replacements, evictions and failed renames: the list holds
\* exactly the keys of its entries, each once, and curBytes is their total.
ShardConsistent ==
    \A s \in Shards : /\ Distinct(lru[s])
                      /\ Entries(lru[s]) = Resident(s)
                      /\ curBytes[s] = Bytes(Resident(s), Sizes)

\* An open tier never holds more in a shard than its cap, however it was loaded.
WithinCap ==
    phase = "open" => \A s \in Shards : curBytes[s] <= Cap(s) \/ lru[s] = <<>>

\* Without a crash, an entry never describes another object's blob: what a Get
\* would return as metadata belongs to the body it opens.
MetaMatchesBlob ==
    \A k \in Keys : (phase = "open" /\ items[k] # None /\ blob[k] # None) => items[k] = blob[k]

\* Even after a crash, the size an entry announces is the size of its blob.
LengthHonest ==
    \A k \in Keys : (phase = "open" /\ items[k] # None /\ blob[k] # None)
                      => items[k].size = blob[k].size

\* Without a crash, a blob without an entry, which no eviction will ever reach, is
\* one whose remove failed; a later commit of its key takes it over.
NoOrphanBlobs ==
    phase = "open" => \A k \in Keys : blob[k] # None => items[k] # None \/ k \in stray

\* While the process lives, an entry describes the blob at its path, and a blob has
\* an entry unless its own remove failed, whatever other calls fail and in whatever
\* order commits, evictions, deletes and flushes go (commit, removeLocked).
BlobsOwned == TypeOK /\ MetaMatchesBlob /\ NoOrphanBlobs

\* Once a tier is open, the temp files in its directory are those of its active
\* writers and those whose remove failed: what a crash left behind was reaped, what
\* ended was removed.
TempFilesLive ==
    phase = "open" => wip \subseteq {w \in Writers : st[w] \in {"open", "evict"}} \cup strayTmp

\* The dirty flags never lose a change: when no shard is dirty and no flush is
\* under way, every entry in memory is listed, as it is, by the index file.
CleanMeansPersisted ==
    (/\ phase = "open" /\ closing # "failed"
     /\ \A s \in Shards : ~dirty[s]
     /\ \A f \in Flushers : fpc[f] = "idle")
        => ResidentEntries \subseteq IndexEntries

\* Through crashes, restarts into other shards and failing calls, an open tier
\* accounts for its entries exactly and within its caps, announces the true length
\* of every blob, keeps no dead writer's file it could remove, and when clean is the
\* one its index file lists (NewDiskTier, load, commit, flushIfDirty).
Recovers ==
    ShardConsistent /\ WithinCap /\ LengthHonest /\ TempFilesLive /\ CleanMeansPersisted

\* What the comment of Close says: once it has returned, the index lists every
\* entry.  (Refuted by a commit that ends meanwhile: README, Known limits.)
GracefulLosesNothing ==
    closing = "done" => ResidentEntries \subseteq IndexEntries

\* What the comment of DiskTier says: the blobs in its directory fit its budget.
\* (Refuted after a crash: README, Known limits.)
DirectoryBounded ==
    phase = "open" =>
        Bytes(Keys, [k \in Keys |-> IF blob[k] = None THEN 0 ELSE blob[k].size])
            <= Bytes(Shards, layout.cap)

\* The index file catches up: as the writers are finite, the changes stop, and
\* from some point on the index lists exactly what memory holds.
IndexCatchesUp == <>[](IndexEntries = ResidentEntries)

\* In one process the tier implements what Tier promises: refused, aborted and
\* failed writes never show another object, and removed copies never come back.
Abstract == INSTANCE Tier
    WITH Objects <- Writers,
         contents <- [k \in Keys |-> IF items[k] = None THEN None ELSE items[k].obj],
         unborn <- {w \in Writers : st[w] # "done"}

ImplementsTier == Abstract!Spec

\* An instance for model checking: one key has a shard of one byte to itself, the
\* others share one of three.
TwoShards ==
    LET alone == CHOOSE k \in Keys : TRUE
    IN  {[n |-> 2, shardOf |-> [k \in Keys |-> IF k = alone THEN 1 ELSE 0],
          cap |-> [s \in 0..1 |-> IF s = 1 THEN 1 ELSE 3]]}
=============================================================================
