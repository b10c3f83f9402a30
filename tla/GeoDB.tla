------------------------------- MODULE GeoDB -------------------------------
(***************************************************************************)
(* The hot-reloadable geo database: one memory-mapped reader shared by all *)
(* requests, replaced by Reload and unmapped by Close while lookups are in *)
(* flight (internal/geo/maxmind.go).  Reading an unmapped reader is a      *)
(* fault no handler can catch, so the model keeps mapping and lock as      *)
(* separate state and every access as a step of its own.                   *)
(*                                                                         *)
(* A reader is a number: the edition of the file it was opened from.       *)
(***************************************************************************)
EXTENDS Integers, FiniteSets

CONSTANTS
  Lookups,      \* requests that resolve their geo class
  Reloaders,    \* calls of Reload
  Closers,      \* calls of Close
  Countries,    \* country of the client's address by edition, "" for no record
  Headers       \* values of the CDN's country header: a code, "" or "junk"

VARIABLES
  reader,       \* db.reader: an edition, or 0 for nil
  mapped,       \* the editions that are mapped
  edition,      \* the last edition opened
  holders,      \* the processes that hold the lock: many readers or one writer
  pc,           \* process -> its next step
  held,         \* process -> the edition it opened, loaded or swapped out
  answer,       \* lookup -> the class it resolved
  fault         \* a lookup read an unmapped reader

vars == <<reader, mapped, edition, holders, pc, held, answer, fault>>

Writers == Reloaders \cup Closers
Procs == Lookups \cup Writers
Unknown == "unknown"

Init ==
  /\ reader = 1 /\ mapped = {1} /\ edition = 1
  /\ holders = {}
  /\ pc = [p \in Procs |-> "start"]
  /\ held = [p \in Procs |-> 0]
  /\ answer = [l \in Lookups |-> Unknown]
  /\ fault = FALSE

Goto(p, l) == pc' = [pc EXCEPT ![p] = l]

-----------------------------------------------------------------------------
(* The lock: a writer that waits keeps new readers out, as sync.RWMutex does. *)

CanRLock == holders \cap Writers = {} /\ \A w \in Writers : pc[w] # "lock"
CanLock == holders = {}

Acquire(p) == holders' = holders \cup {p}
Release(p) == holders' = holders \ {p}

-----------------------------------------------------------------------------
(* Lookups *)

\* boundGeoClass: a value that is too long or has other characters is unknown.
BoundGeoClass(v) == IF v \in {"", "junk"} THEN Unknown ELSE v

\* NewFallbackSource: the second source only fills a total miss of the first.
Fallback(first, second) == IF first # Unknown THEN first ELSE second

\* Lookup with the header source first: only a miss asks the database.
StartLookup(l) ==
  /\ pc[l] = "start"
  /\ \E h \in Headers :
       IF Fallback(BoundGeoClass(h), Unknown) # Unknown
       THEN answer' = [answer EXCEPT ![l] = BoundGeoClass(h)] /\ Goto(l, "done")
       ELSE Goto(l, "rlock") /\ UNCHANGED answer
  /\ UNCHANGED <<reader, mapped, edition, holders, held, fault>>

RLock(l) ==
  /\ pc[l] = "rlock" /\ CanRLock
  /\ Acquire(l)
  /\ Goto(l, "load")
  /\ UNCHANGED <<reader, mapped, edition, held, answer, fault>>

\* Mutant: the lock only covers the load of the pointer.
LoadAndRelease(l) ==
  /\ pc[l] = "load"
  /\ held' = [held EXCEPT ![l] = reader]
  /\ Release(l)
  /\ Goto(l, IF reader = 0 THEN "unlock" ELSE "decode")
  /\ UNCHANGED <<reader, mapped, edition, answer, fault>>

\* The lock stays held: the result is decoded out of the same mapping.
Load(l) ==
  /\ pc[l] = "load"
  /\ held' = [held EXCEPT ![l] = reader]
  /\ Goto(l, IF reader = 0 THEN "unlock" ELSE "decode")
  /\ UNCHANGED <<reader, mapped, edition, holders, answer, fault>>

\* Lookup and Decode read the mapping of the reader that was loaded.
Decode(l) ==
  /\ pc[l] = "decode"
  /\ fault' = (fault \/ held[l] \notin mapped)
  /\ answer' = [answer EXCEPT ![l] = BoundGeoClass(Countries[held[l]])]
  /\ Goto(l, "unlock")
  /\ UNCHANGED <<reader, mapped, edition, holders, held>>

RUnlock(l) ==
  /\ pc[l] = "unlock"
  /\ Release(l)
  /\ Goto(l, "done")
  /\ UNCHANGED <<reader, mapped, edition, held, answer, fault>>

-----------------------------------------------------------------------------
(* Reload and Close *)

\* maxminddb.Open of the file as it is now, outside the lock; it may fail.
Open(w) ==
  /\ w \in Reloaders /\ pc[w] = "start"
  /\ \/ /\ edition + 1 \in DOMAIN Countries
        /\ edition' = edition + 1
        /\ mapped' = mapped \cup {edition + 1}
        /\ held' = [held EXCEPT ![w] = edition + 1]
        /\ Goto(w, "lock")
     \/ Goto(w, "done") /\ UNCHANGED <<edition, mapped, held>>
  /\ UNCHANGED <<reader, holders, answer, fault>>

StartClose(w) ==
  /\ w \in Closers /\ pc[w] = "start"
  /\ Goto(w, "lock")
  /\ UNCHANGED <<reader, mapped, edition, holders, held, answer, fault>>

Lock(w) ==
  /\ w \in Writers /\ pc[w] = "lock" /\ CanLock
  /\ Acquire(w)
  /\ Goto(w, "swap")
  /\ UNCHANGED <<reader, mapped, edition, held, answer, fault>>

Swap(w) ==
  /\ w \in Writers /\ pc[w] = "swap"
  /\ reader' = (IF w \in Reloaders THEN held[w] ELSE 0)
  /\ held' = [held EXCEPT ![w] = reader]
  /\ Goto(w, "unmap")
  /\ UNCHANGED <<mapped, edition, holders, answer, fault>>

\* The old reader is unmapped, then the lock is given back.
Unmap(w) ==
  /\ w \in Writers /\ pc[w] = "unmap"
  /\ mapped' = mapped \ {held[w]}
  /\ Goto(w, "unlockw")
  /\ UNCHANGED <<reader, edition, holders, held, answer, fault>>

Unlock(w) ==
  /\ w \in Writers /\ pc[w] = "unlockw"
  /\ Release(w)
  /\ Goto(w, "done")
  /\ UNCHANGED <<reader, mapped, edition, held, answer, fault>>

Step(p) ==
  \/ p \in Lookups /\ (StartLookup(p) \/ RLock(p) \/ Load(p) \/ Decode(p) \/ RUnlock(p))
  \/ Open(p) \/ StartClose(p) \/ Lock(p) \/ Swap(p) \/ Unmap(p) \/ Unlock(p)

Next == \E p \in Procs : Step(p)

Spec == Init /\ [][Next]_vars

-----------------------------------------------------------------------------
(* Properties *)

\* No lookup reads a reader that was unmapped under it, whatever reloads and closes
\* run at the same time; and once they have all returned, nothing stays mapped but
\* the reader in use: every replaced one was given back (lookupRecord, Reload,
\* Close; the comment of MaxMindDB).
MappedWhileRead ==
  /\ ~fault
  /\ (\A w \in Writers : pc[w] = "done") => mapped = {reader} \ {0}
=============================================================================
