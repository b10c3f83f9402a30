------------------------------- MODULE Store -------------------------------
(* The two-tier store (internal/cache/router.go): two tiers, each known by    *)
(* what it promises (Tier), a writer that installs in one of them and then    *)
(* deletes the key from the other, and a lookup that asks RAM, then disk.     *)
(* A writer stands for the object it writes; which tier it goes to depends on *)
(* the size the response declares, so a key's copies may differ in it.        *)
EXTENDS Integers, FiniteSets

CONSTANTS Keys, Writers, Readers, None

ASSUME StoreAssumptions == None \notin Writers /\ None \notin Keys

VARIABLES
    ram, disk,              \* what each tier holds for each key
    ramUnborn, diskUnborn,  \* the objects each may still install
    st, wkey, dst,          \* the writers: where each is, its key, its tier
    stamp, last,            \* history: installs of a key are numbered; the last one
    pc, rkey, answer,       \* the lookups: where each is, its key, its answer
    floor,                  \* history: the newest settled stamp when it began
    excused                 \* history: keys evicted, reset, lost to a failed commit, or
                            \* committed at once twice

tierVars == <<ram, disk, ramUnborn, diskUnborn>>
writerVars == <<st, wkey, dst, stamp, last>>
readerVars == <<pc, rkey, answer, floor>>
vars == <<ram, disk, ramUnborn, diskUnborn, st, wkey, dst, stamp, last, pc, rkey, answer, floor, excused>>

RAM == INSTANCE Tier WITH Objects <- Writers, contents <- ram, unborn <- ramUnborn
Disk == INSTANCE Tier WITH Objects <- Writers, contents <- disk, unborn <- diskUnborn

\* NewStore.
Init ==
    /\ RAM!Init /\ Disk!Init
    /\ st = [w \in Writers |-> "idle"]
    /\ wkey = [w \in Writers |-> None] /\ dst = [w \in Writers |-> "none"]
    /\ stamp = [w \in Writers |-> 0] /\ last = [k \in Keys |-> 0]
    /\ pc = [g \in Readers |-> "idle"]
    /\ rkey = [g \in Readers |-> None] /\ answer = [g \in Readers |-> None]
    /\ floor = [g \in Readers |-> 0] /\ excused = {}
-----------------------------------------------------------------------------
(* Writing.                                                                   *)

\* Mutant: a writer is used for a second object.
OpenAgain(w, k, t) ==
    /\ st[w] \in {"idle", "done"}
    /\ st' = [st EXCEPT ![w] = "open"]
    /\ wkey' = [wkey EXCEPT ![w] = k]
    /\ dst' = [dst EXCEPT ![w] = t]
    /\ UNCHANGED <<tierVars, stamp, last, readerVars, excused>>

\* Writer: tierFor names the tier (Router), whose writer is opened.
Open(w, k, t) ==
    /\ st[w] = "idle"
    /\ st' = [st EXCEPT ![w] = "open"]
    /\ wkey' = [wkey EXCEPT ![w] = k]
    /\ dst' = [dst EXCEPT ![w] = t]
    /\ UNCHANGED <<tierVars, stamp, last, readerVars, excused>>

\* No writer of k is between its commit and its delete.
Settled(k) == \A w \in Writers : wkey[w] = k => st[w] # "dedup"

\* Commit: the tier installs the object (the copy it replaces is gone).
CommitStored(w) ==
    /\ st[w] = "open"
    /\ \/ dst[w] = "ram" /\ RAM!Install(wkey[w], w) /\ UNCHANGED <<disk, diskUnborn>>
       \/ dst[w] = "disk" /\ Disk!Install(wkey[w], w) /\ UNCHANGED <<ram, ramUnborn>>
    /\ st' = [st EXCEPT ![w] = "dedup"]
    /\ last' = [last EXCEPT ![wkey[w]] = @ + 1]
    /\ stamp' = [stamp EXCEPT ![w] = last[wkey[w]] + 1]
    /\ excused' = IF Settled(wkey[w]) THEN excused ELSE excused \cup {wkey[w]}
    /\ UNCHANGED <<wkey, dst, readerVars>>

\* Mutant: a commit that returned nil is taken to have stored.
AfterRefusalDedup == "dedup"

AfterRefusal == "done"

\* Commit returned nil without storing (Stored is false), or failed before it touched
\* the tier; or Abort.
CommitRefused(w) ==
    /\ st[w] = "open"
    /\ \/ dst[w] = "ram" /\ RAM!Discard(w) /\ UNCHANGED <<disk, diskUnborn>>
       \/ dst[w] = "disk" /\ Disk!Discard(w) /\ UNCHANGED <<ram, ramUnborn>>
    /\ st' = [st EXCEPT ![w] = AfterRefusal]
    /\ UNCHANGED <<wkey, dst, stamp, last, readerVars, excused>>

\* The rename of a disk commit failed: the disk copy the object was to replace is
\* gone by then, and Commit returns the error without looking at the other tier.
CommitFailed(w) ==
    /\ st[w] = "open" /\ dst[w] = "disk" /\ w \in diskUnborn
    /\ disk' = [disk EXCEPT ![wkey[w]] = None] /\ diskUnborn' = diskUnborn \ {w}
    /\ st' = [st EXCEPT ![w] = "done"]
    /\ excused' = IF disk[wkey[w]] # None THEN excused \cup {wkey[w]} ELSE excused
    /\ UNCHANGED <<ram, ramUnborn, wkey, dst, stamp, last, readerVars>>

Sibling(t) == IF t = "disk" THEN "ram" ELSE "disk"

\* Mutant: the sibling copy is left alone.
DedupForgotten(w) ==
    /\ st[w] = "dedup"
    /\ st' = [st EXCEPT ![w] = "done"]
    /\ UNCHANGED <<tierVars, wkey, dst, stamp, last, readerVars, excused>>

\* The dedup writer deletes the key from the other tier.
Dedup(w) ==
    LET s == Sibling(dst[w])
    IN  /\ st[w] = "dedup"
        /\ \/ s = "ram" /\ RAM!Drop({wkey[w]}) /\ UNCHANGED <<disk, diskUnborn>>
           \/ s = "disk" /\ Disk!Drop({wkey[w]}) /\ UNCHANGED <<ram, ramUnborn>>
        /\ st' = [st EXCEPT ![w] = "done"]
        /\ UNCHANGED <<wkey, dst, stamp, last, readerVars, excused>>

\* Either tier evicts on its own account.
Evict(k) ==
    /\ \/ ram[k] # None /\ RAM!Drop({k}) /\ UNCHANGED <<disk, diskUnborn>>
       \/ disk[k] # None /\ Disk!Drop({k}) /\ UNCHANGED <<ram, ramUnborn>>
    /\ excused' = excused \cup {k}
    /\ UNCHANGED <<writerVars, readerVars>>

\* Reset of both tiers, on a store that serves no traffic.
Reset ==
    /\ \A w \in Writers : st[w] \in {"idle", "done"}
    /\ \A g \in Readers : pc[g] \in {"idle", "done"}
    /\ \E k \in Keys : ram[k] # None \/ disk[k] # None
    /\ RAM!Drop(Keys) /\ Disk!Drop(Keys)
    /\ excused' = Keys
    /\ UNCHANGED <<writerVars, readerVars>>
-----------------------------------------------------------------------------
(* Reading.                                                                   *)

\* GetTier: RAM first.
GetRAM(g, k) ==
    /\ pc[g] = "idle"
    /\ rkey' = [rkey EXCEPT ![g] = k]
    /\ floor' = [floor EXCEPT ![g] = IF Settled(k) THEN last[k] ELSE 0]
    /\ answer' = [answer EXCEPT ![g] = ram[k]]
    /\ pc' = [pc EXCEPT ![g] = IF ram[k] # None THEN "done" ELSE "disk"]
    /\ UNCHANGED <<tierVars, writerVars, excused>>

\* Then disk.
GetDisk(g) ==
    /\ pc[g] = "disk"
    /\ answer' = [answer EXCEPT ![g] = disk[rkey[g]]]
    /\ pc' = [pc EXCEPT ![g] = "done"]
    /\ UNCHANGED <<tierVars, writerVars, rkey, floor, excused>>

Next ==
    \/ \E w \in Writers :
         \/ \E k \in Keys, t \in {"ram", "disk"} : Open(w, k, t)
         \/ CommitStored(w) \/ CommitRefused(w) \/ CommitFailed(w) \/ Dedup(w)
    \/ \E k \in Keys : Evict(k)
    \/ \E g \in Readers : GetDisk(g) \/ \E k \in Keys : GetRAM(g, k)
    \/ Reset

Spec == Init /\ [][Next]_vars
-----------------------------------------------------------------------------
(* Properties.                                                                *)

\* Every variable has the type its declaration gives it, and a tier holds under
\* a key only what was written for it.
TypeOK ==
    /\ ram \in [Keys -> Writers \cup {None}] /\ disk \in [Keys -> Writers \cup {None}]
    /\ \A k \in Keys : /\ ram[k] # None => wkey[ram[k]] = k /\ dst[ram[k]] = "ram"
                       /\ disk[k] # None => wkey[disk[k]] = k /\ dst[disk[k]] = "disk"
    /\ st \in [Writers -> {"idle", "open", "dedup", "done"}]
    /\ stamp \in [Writers -> Nat] /\ last \in [Keys -> Nat] /\ excused \subseteq Keys
    /\ pc \in [Readers -> {"idle", "disk", "done"}]
    /\ answer \in [Readers -> Writers \cup {None}]

\* Once every commit of a key has deleted its sibling copy, the key lives in at
\* most one tier and what is left of it is the newest copy, however the commits
\* and deletes of several writers interleaved.
SettledOneNewest ==
    \A k \in Keys : Settled(k) =>
        /\ ram[k] = None \/ disk[k] = None
        /\ \A o \in {ram[k], disk[k]} \ {None} : stamp[o] = last[k]

\* A lookup, which asks the tiers one after the other, never answers a copy
\* older than the newest one at the last quiet moment before it began.
ReadsMonotone ==
    \A g \in Readers : answer[g] # None => stamp[answer[g]] >= floor[g]

\* However the commits, deletes and lookups of a key interleave, it settles in one
\* tier as its newest copy and no lookup goes back in time (dedupWriter.Commit,
\* Store.Get).
OneNewestCopy == TypeOK /\ SettledOneNewest /\ ReadsMonotone

\* No copy is lost to deduplication: unless it was evicted, a failed disk commit had
\* removed it to replace it, or two commits of the key overlapped, the newest copy is
\* there once the key is settled, however many later writes were refused, aborted or
\* failed on their way to the other tier (dedupWriter.Commit).
NewestResident ==
    \A k \in Keys \ excused : Settled(k) /\ last[k] > 0 =>
        \E o \in {ram[k], disk[k]} \ {None} : stamp[o] = last[k]

\* What the comment of Writer says: a lookup returns the most recently committed
\* copy.  (Refuted between a commit and its delete: README, Known limits.)
GetsNewest ==
    [][\A g \in Readers : (pc[g] = "idle" /\ answer'[g] # None) =>
         stamp[answer'[g]] = last[rkey'[g]]]_vars

\* What the comments of Delete and of the dedup writer say: the copy deleted from
\* the sibling tier is a superseded one.  (Refuted by overlapping commits: README,
\* Known limits.)
DedupOnlyOlder ==
    [][\A w \in Writers : (st[w] = "dedup" /\ st'[w] = "done") =>
         \A o \in {ram[wkey[w]], disk[wkey[w]]} \ {ram'[wkey[w]], disk'[wkey[w]], None} :
            stamp[o] < stamp[w]]_vars
=============================================================================
