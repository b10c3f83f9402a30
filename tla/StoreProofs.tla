---------------------------- MODULE StoreProofs ----------------------------
(* Theorems about Store, for any sets of keys, writers and readers.           *)
EXTENDS Store, TLAPS

\* What each step keeps about the writers: a key's installs are numbered without
\* gaps at the top and without duplicates.
WriterInv ==
    /\ wkey \in [Writers -> Keys \cup {None}] /\ dst \in [Writers -> {"none", "ram", "disk"}]
    /\ \A w \in Writers : /\ st[w] # "idle" => wkey[w] \in Keys /\ dst[w] \in {"ram", "disk"}
                          /\ st[w] \in {"idle", "open"} => stamp[w] = 0
                          /\ st[w] = "dedup" => stamp[w] > 0
                          /\ stamp[w] > 0 => stamp[w] <= last[wkey[w]]
    /\ \A v, w \in Writers : stamp[v] > 0 /\ stamp[v] = stamp[w] /\ wkey[v] = wkey[w] => v = w
    /\ \A k \in Keys : last[k] > 0 => \E w \in Writers : wkey[w] = k /\ stamp[w] = last[k]

\* The heart of the argument: a copy in tier t is older than an installed copy
\* of its key only if that one went to the other tier and its delete is due.
Superseded(c, t) ==
    \A k \in Keys, w \in Writers :
        (c[k] # None /\ wkey[w] = k /\ stamp[w] > stamp[c[k]]) => st[w] = "dedup" /\ dst[w] # t

\* A tier holds only what was installed in it, under its key.
Held(c, t) == \A k \in Keys : c[k] # None => wkey[c[k]] = k /\ dst[c[k]] = t /\ stamp[c[k]] > 0

\* A lookup on its way to the disk tier will find nothing older than its floor.
ReaderInv ==
    /\ rkey \in [Readers -> Keys \cup {None}] /\ floor \in [Readers -> Nat]
    /\ \A g \in Readers : pc[g] = "disk" =>
          /\ rkey[g] \in Keys /\ floor[g] <= last[rkey[g]]
          /\ disk[rkey[g]] # None => stamp[disk[rkey[g]]] >= floor[g]
    /\ \A g \in Readers : answer[g] # None => answer[g] \in Writers /\ stamp[answer[g]] > 0

IInv ==
    /\ TypeOK /\ WriterInv /\ ReaderInv /\ ReadsMonotone
    /\ Superseded(ram, "ram") /\ Held(ram, "ram")
    /\ Superseded(disk, "disk") /\ Held(disk, "disk")

\* An empty store satisfies it.
LEMMA InitIInv == Init => IInv
<1> SUFFICES ASSUME Init PROVE IInv
  OBVIOUS
<1> USE StoreAssumptions DEF StoreAssumptions, Init, RAM!Init, Disk!Init
<1>1. TypeOK
  BY DEF TypeOK
<1>2. WriterInv /\ ReaderInv /\ ReadsMonotone
  BY DEF WriterInv, ReaderInv, ReadsMonotone
<1>3. Superseded(ram, "ram") /\ Held(ram, "ram") /\ Superseded(disk, "disk") /\ Held(disk, "disk")
  BY DEF Superseded, Held
<1> QED  BY <1>1, <1>2, <1>3 DEF IInv

\* Once a key is settled, a resident copy is its last install.
LEMMA ResidentIsLast ==
    ASSUME IInv, NEW k \in Keys, Settled(k)
    PROVE  /\ ram[k] # None => stamp[ram[k]] = last[k]
           /\ disk[k] # None => stamp[disk[k]] = last[k]
<1> USE DEF IInv, TypeOK, WriterInv, Held
<1>1. ASSUME ram[k] # None PROVE stamp[ram[k]] = last[k]
  <2>1. ram[k] \in Writers /\ stamp[ram[k]] <= last[k] /\ last[k] > 0
    BY <1>1
  <2>2. PICK w \in Writers : wkey[w] = k /\ stamp[w] = last[k]
    BY <2>1
  <2>3. ~(stamp[w] > stamp[ram[k]])
    BY <1>1, <2>2 DEF Superseded, Settled
  <2> QED  BY <2>1, <2>2, <2>3
<1>2. ASSUME disk[k] # None PROVE stamp[disk[k]] = last[k]
  <2>1. disk[k] \in Writers /\ stamp[disk[k]] <= last[k] /\ last[k] > 0
    BY <1>2
  <2>2. PICK w \in Writers : wkey[w] = k /\ stamp[w] = last[k]
    BY <2>1
  <2>3. ~(stamp[w] > stamp[disk[k]])
    BY <1>2, <2>2 DEF Superseded, Settled
  <2> QED  BY <2>1, <2>2, <2>3
<1> QED  BY <1>1, <1>2

\* The invariant gives the property: two resident copies would be the same
\* install, and no install is in both tiers.
LEMMA IInvSettled == IInv => SettledOneNewest
<1> SUFFICES ASSUME IInv, NEW k \in Keys, Settled(k)
             PROVE  /\ ram[k] = None \/ disk[k] = None
                    /\ \A o \in {ram[k], disk[k]} \ {None} : stamp[o] = last[k]
  BY DEF SettledOneNewest
<1>1. /\ ram[k] # None => stamp[ram[k]] = last[k]
      /\ disk[k] # None => stamp[disk[k]] = last[k]
  BY ResidentIsLast
<1>2. ASSUME ram[k] # None, disk[k] # None PROVE FALSE
  <2>1. /\ ram[k] \in Writers /\ disk[k] \in Writers /\ wkey[ram[k]] = k /\ wkey[disk[k]] = k
        /\ dst[ram[k]] = "ram" /\ dst[disk[k]] = "disk" /\ stamp[ram[k]] > 0
    BY <1>2 DEF IInv, Held, TypeOK
  <2>2. ram[k] = disk[k]
    BY <2>1, <1>1, <1>2 DEF IInv, WriterInv
  <2> QED  BY <2>1, <2>2
<1> QED  BY <1>1, <1>2

\* Dropping copies and leaving everything else alone keeps the invariant.
LEMMA DropStep ==
    ASSUME IInv,
           ram' \in [Keys -> Writers \cup {None}], disk' \in [Keys -> Writers \cup {None}],
           \A k \in Keys : ram'[k] \in {ram[k], None} /\ disk'[k] \in {disk[k], None},
           UNCHANGED <<wkey, dst, stamp, last, readerVars>>, excused' \subseteq Keys,
           st' \in [Writers -> {"idle", "open", "dedup", "done"}],
           \A w \in Writers : st'[w] # st[w] =>
              /\ st[w] \in {"open", "dedup"} /\ st'[w] = "done"
              /\ st[w] = "dedup" /\ dst[w] = "disk" => ram'[wkey[w]] = None
              /\ st[w] = "dedup" /\ dst[w] = "ram" => disk'[wkey[w]] = None
    PROVE  IInv'
<1> USE StoreAssumptions DEF StoreAssumptions, readerVars
<1>1. TypeOK'
  BY DEF IInv, TypeOK
<1>2. WriterInv'
  BY DEF IInv, TypeOK, WriterInv
<1>3. ReaderInv'
  BY DEF IInv, TypeOK, ReaderInv
<1>4. ReadsMonotone'
  BY DEF IInv, ReadsMonotone
<1>5. Held(ram, "ram")' /\ Held(disk, "disk")'
  BY DEF IInv, Held
<1>6. Superseded(ram, "ram")'
  <2> SUFFICES ASSUME NEW k \in Keys, NEW w \in Writers,
                      ram'[k] # None, wkey[w] = k, stamp[w] > stamp[ram'[k]]
               PROVE  st'[w] = "dedup" /\ dst[w] # "ram"
    BY DEF Superseded
  <2>1. ram'[k] = ram[k]
    OBVIOUS
  <2>2. st[w] = "dedup" /\ dst[w] # "ram"
    BY <2>1 DEF IInv, Superseded
  <2>3. dst[w] = "disk"
    BY <2>2 DEF IInv, WriterInv
  <2> QED  BY <2>1, <2>2, <2>3
<1>7. Superseded(disk, "disk")'
  <2> SUFFICES ASSUME NEW k \in Keys, NEW w \in Writers,
                      disk'[k] # None, wkey[w] = k, stamp[w] > stamp[disk'[k]]
               PROVE  st'[w] = "dedup" /\ dst[w] # "disk"
    BY DEF Superseded
  <2>1. disk'[k] = disk[k]
    OBVIOUS
  <2>2. st[w] = "dedup" /\ dst[w] # "disk"
    BY <2>1 DEF IInv, Superseded
  <2>3. dst[w] = "ram"
    BY <2>2 DEF IInv, WriterInv
  <2> QED  BY <2>1, <2>2, <2>3
<1> QED  BY <1>1, <1>2, <1>3, <1>4, <1>5, <1>6, <1>7 DEF IInv

\* Opening a writer touches nothing that is installed.
LEMMA OpenStep ==
    ASSUME IInv, NEW w \in Writers, NEW k \in Keys, NEW t \in {"ram", "disk"}, Open(w, k, t)
    PROVE  IInv'
<1> USE StoreAssumptions DEF StoreAssumptions
<1>0. /\ st[w] = "idle" /\ stamp[w] = 0
      /\ st' = [st EXCEPT ![w] = "open"] /\ wkey' = [wkey EXCEPT ![w] = k] /\ dst' = [dst EXCEPT ![w] = t]
      /\ ram' = ram /\ disk' = disk /\ stamp' = stamp /\ last' = last /\ excused' = excused
      /\ pc' = pc /\ rkey' = rkey /\ answer' = answer /\ floor' = floor
  BY DEF Open, tierVars, readerVars, IInv, WriterInv
<1>1. \A x \in Writers : stamp[x] > 0 => x # w
  BY <1>0
<1>2. TypeOK'
  BY <1>0, <1>1 DEF IInv, TypeOK, Held
<1>3. WriterInv'
  BY <1>0, <1>1 DEF IInv, WriterInv, TypeOK
<1>4. ReaderInv' /\ ReadsMonotone'
  BY <1>0 DEF IInv, ReaderInv, ReadsMonotone
<1>5. Held(ram, "ram")' /\ Held(disk, "disk")'
  BY <1>0, <1>1 DEF IInv, Held, WriterInv, TypeOK
<1>6. Superseded(ram, "ram")' /\ Superseded(disk, "disk")'
  <2>1. \A x \in Writers, y \in Writers : stamp[x] > stamp[y] => x # w
    BY <1>0 DEF IInv, TypeOK
  <2> QED  BY <1>0, <2>1 DEF IInv, Superseded, TypeOK, WriterInv
<1> QED  BY <1>2, <1>3, <1>4, <1>5, <1>6 DEF IInv

\* An install gets the next number of its key, replaces the copy of its own
\* tier, and owes the delete that the copy of the other tier is waiting for.
LEMMA CommitStep ==
    ASSUME IInv, NEW w \in Writers, CommitStored(w)
    PROVE  IInv'
<1> USE StoreAssumptions DEF StoreAssumptions
<1>0. PICK k \in Keys, n \in Nat : wkey[w] = k /\ n = last[k] + 1
  BY DEF CommitStored, IInv, WriterInv, TypeOK
<1>1. /\ st[w] = "open" /\ stamp[w] = 0 /\ dst[w] \in {"ram", "disk"}
      /\ st' = [st EXCEPT ![w] = "dedup"] /\ wkey' = wkey /\ dst' = dst
      /\ stamp' = [stamp EXCEPT ![w] = n] /\ last' = [last EXCEPT ![k] = n]
      /\ pc' = pc /\ rkey' = rkey /\ answer' = answer /\ floor' = floor
      /\ excused' \subseteq Keys
  BY <1>0 DEF CommitStored, readerVars, IInv, WriterInv, TypeOK
<1>2. \/ dst[w] = "ram" /\ ram' = [ram EXCEPT ![k] = w] /\ disk' = disk
      \/ dst[w] = "disk" /\ disk' = [disk EXCEPT ![k] = w] /\ ram' = ram
  BY <1>0 DEF CommitStored, RAM!Install, Disk!Install
<1>3. /\ \A x \in Writers : x # w => stamp'[x] = stamp[x] /\ st'[x] = st[x]
      /\ \A x \in Writers : stamp[x] > 0 => x # w
      /\ \A x \in Writers : wkey[x] = k => stamp[x] < n
      /\ stamp'[w] = n /\ n > 0
  BY <1>0, <1>1 DEF IInv, TypeOK, WriterInv
<1>4. TypeOK'
  BY <1>0, <1>1, <1>2 DEF IInv, TypeOK
<1>5. WriterInv'
  BY <1>0, <1>1, <1>3 DEF IInv, TypeOK, WriterInv
<1>6. ReaderInv'
  <2>1. \A g \in Readers : pc[g] = "disk" => floor[g] <= last'[rkey[g]]
    BY <1>0, <1>1 DEF IInv, TypeOK, ReaderInv
  <2>2. \A g \in Readers : pc[g] = "disk" /\ disk'[rkey[g]] # None => stamp'[disk'[rkey[g]]] >= floor[g]
    BY <1>0, <1>1, <1>2, <1>3, <2>1 DEF IInv, TypeOK, ReaderInv, Held
  <2>3. \A g \in Readers : answer[g] # None => answer[g] \in Writers /\ stamp'[answer[g]] > 0
    BY <1>1, <1>3 DEF IInv, ReaderInv
  <2> QED  BY <1>1, <2>1, <2>2, <2>3 DEF IInv, ReaderInv
<1>7. ReadsMonotone'
  BY <1>1, <1>3 DEF IInv, ReadsMonotone, ReaderInv
<1>8. Held(ram, "ram")' /\ Held(disk, "disk")'
  BY <1>0, <1>1, <1>2, <1>3 DEF IInv, TypeOK, Held
<1>9. Superseded(ram, "ram")'
  <2> SUFFICES ASSUME NEW j \in Keys, NEW v \in Writers,
                      ram'[j] # None, wkey[v] = j, stamp'[v] > stamp'[ram'[j]]
               PROVE  st'[v] = "dedup" /\ dst[v] # "ram"
    BY <1>1 DEF Superseded
  <2>1. CASE ram'[j] = ram[j]
    <3>1. ram[j] \in Writers /\ ram[j] # w /\ stamp'[ram[j]] = stamp[ram[j]] /\ wkey[ram[j]] = j
      BY <2>1, <1>3 DEF IInv, TypeOK, Held
    <3>2. CASE v # w
      BY <3>1, <3>2, <2>1, <1>3 DEF IInv, Superseded
    <3>3. CASE v = w
      <4>1. dst[w] # "ram"
        BY <3>1, <3>3, <2>1, <1>0, <1>2 DEF IInv, TypeOK
      <4> QED  BY <4>1, <3>3, <1>1 DEF IInv, TypeOK
    <3> QED  BY <3>2, <3>3
  <2>2. CASE ram'[j] # ram[j]
    <3>1. j = k /\ ram'[j] = w
      BY <2>2, <1>2 DEF IInv, TypeOK
    <3> QED  BY <3>1, <1>3, <1>0 DEF IInv, TypeOK
  <2> QED  BY <2>1, <2>2
<1>10. Superseded(disk, "disk")'
  <2> SUFFICES ASSUME NEW j \in Keys, NEW v \in Writers,
                      disk'[j] # None, wkey[v] = j, stamp'[v] > stamp'[disk'[j]]
               PROVE  st'[v] = "dedup" /\ dst[v] # "disk"
    BY <1>1 DEF Superseded
  <2>1. CASE disk'[j] = disk[j]
    <3>1. disk[j] \in Writers /\ disk[j] # w /\ stamp'[disk[j]] = stamp[disk[j]] /\ wkey[disk[j]] = j
      BY <2>1, <1>3 DEF IInv, TypeOK, Held
    <3>2. CASE v # w
      BY <3>1, <3>2, <2>1, <1>3 DEF IInv, Superseded
    <3>3. CASE v = w
      <4>1. dst[w] # "disk"
        BY <3>1, <3>3, <2>1, <1>0, <1>2 DEF IInv, TypeOK
      <4> QED  BY <4>1, <3>3, <1>1 DEF IInv, TypeOK
    <3> QED  BY <3>2, <3>3
  <2>2. CASE disk'[j] # disk[j]
    <3>1. j = k /\ disk'[j] = w
      BY <2>2, <1>2 DEF IInv, TypeOK
    <3> QED  BY <3>1, <1>3, <1>0 DEF IInv, TypeOK
  <2> QED  BY <2>1, <2>2
<1> QED  BY <1>4, <1>5, <1>6, <1>7, <1>8, <1>9, <1>10 DEF IInv

\* The steps that only drop copies: a refused or failed commit, a dedup, an
\* eviction, a reset.
LEMMA DroppingSteps ==
    ASSUME IInv,
           \/ \E w \in Writers : CommitRefused(w) \/ CommitFailed(w) \/ Dedup(w)
           \/ \E k \in Keys : Evict(k)
           \/ Reset
    PROVE  IInv'
<1> USE StoreAssumptions DEF StoreAssumptions
<1>0. /\ ram \in [Keys -> Writers \cup {None}] /\ disk \in [Keys -> Writers \cup {None}]
      /\ st \in [Writers -> {"idle", "open", "dedup", "done"}] /\ excused \subseteq Keys
  BY DEF IInv, TypeOK
<1>1. ASSUME NEW w \in Writers, CommitRefused(w) PROVE IInv'
  <2>1. /\ ram' = ram /\ disk' = disk /\ st' = [st EXCEPT ![w] = "done"] /\ st[w] = "open"
        /\ UNCHANGED <<wkey, dst, stamp, last, readerVars>> /\ excused' = excused
    BY <1>1 DEF CommitRefused, RAM!Discard, Disk!Discard, AfterRefusal, readerVars
  <2>2. /\ st' \in [Writers -> {"idle", "open", "dedup", "done"}]
        /\ \A x \in Writers : st'[x] # st[x] => st[x] = "open" /\ st'[x] = "done"
    BY <2>1, <1>0
  <2> QED  BY <2>1, <2>2, <1>0, DropStep
<1>2. ASSUME NEW w \in Writers, Dedup(w) PROVE IInv'
  <2>1. /\ st' = [st EXCEPT ![w] = "done"] /\ st[w] = "dedup" /\ wkey[w] \in Keys
        /\ dst[w] \in {"ram", "disk"}
        /\ UNCHANGED <<wkey, dst, stamp, last, readerVars>> /\ excused' = excused
    BY <1>2 DEF Dedup, IInv, WriterInv, readerVars
  <2>2. /\ st' \in [Writers -> {"idle", "open", "dedup", "done"}]
        /\ \A x \in Writers : st'[x] # st[x] => x = w /\ st'[x] = "done"
    BY <2>1, <1>0
  <2>3. \/ dst[w] = "disk" /\ ram' = [k \in Keys |-> IF k \in {wkey[w]} THEN None ELSE ram[k]] /\ disk' = disk
        \/ dst[w] = "ram" /\ disk' = [k \in Keys |-> IF k \in {wkey[w]} THEN None ELSE disk[k]] /\ ram' = ram
    BY <1>2, <2>1 DEF Dedup, Sibling, RAM!Drop, Disk!Drop
  <2>4. /\ ram' \in [Keys -> Writers \cup {None}] /\ disk' \in [Keys -> Writers \cup {None}]
        /\ \A k \in Keys : ram'[k] \in {ram[k], None} /\ disk'[k] \in {disk[k], None}
        /\ dst[w] = "disk" => ram'[wkey[w]] = None
        /\ dst[w] = "ram" => disk'[wkey[w]] = None
    BY <1>0, <2>1, <2>3
  <2> QED  BY <2>1, <2>2, <2>4, <1>0, DropStep
<1>3. ASSUME NEW k \in Keys, Evict(k) PROVE IInv'
  <2>1. UNCHANGED <<st, wkey, dst, stamp, last, readerVars>> /\ excused' \subseteq Keys
    BY <1>3, <1>0 DEF Evict, writerVars
  <2>2. /\ ram' \in [Keys -> Writers \cup {None}] /\ disk' \in [Keys -> Writers \cup {None}]
        /\ \A j \in Keys : ram'[j] \in {ram[j], None} /\ disk'[j] \in {disk[j], None}
    BY <1>3, <1>0 DEF Evict, RAM!Drop, Disk!Drop
  <2> QED  BY <2>1, <2>2, <1>0, DropStep
<1>4. ASSUME Reset PROVE IInv'
  <2>1. UNCHANGED <<st, wkey, dst, stamp, last, readerVars>> /\ excused' \subseteq Keys
    BY <1>4 DEF Reset, writerVars
  <2>2. /\ ram' \in [Keys -> Writers \cup {None}] /\ disk' \in [Keys -> Writers \cup {None}]
        /\ \A j \in Keys : ram'[j] \in {ram[j], None} /\ disk'[j] \in {disk[j], None}
    BY <1>4, <1>0 DEF Reset, RAM!Drop, Disk!Drop
  <2> QED  BY <2>1, <2>2, <1>0, DropStep
<1>5. ASSUME NEW w \in Writers, CommitFailed(w) PROVE IInv'
  <2>1. /\ st' = [st EXCEPT ![w] = "done"] /\ st[w] = "open" /\ wkey[w] \in Keys /\ ram' = ram
        /\ disk' = [disk EXCEPT ![wkey[w]] = None] /\ excused' \subseteq Keys
        /\ UNCHANGED <<wkey, dst, stamp, last, readerVars>>
    BY <1>0, <1>5 DEF CommitFailed, IInv, WriterInv, readerVars
  <2>2. /\ st' \in [Writers -> {"idle", "open", "dedup", "done"}]
        /\ \A x \in Writers : st'[x] # st[x] => st[x] = "open" /\ st'[x] = "done"
    BY <2>1, <1>0
  <2>3. /\ ram' \in [Keys -> Writers \cup {None}] /\ disk' \in [Keys -> Writers \cup {None}]
        /\ \A j \in Keys : ram'[j] \in {ram[j], None} /\ disk'[j] \in {disk[j], None}
    BY <1>0, <2>1
  <2> QED  BY <2>1, <2>2, <2>3, DropStep
<1> QED  BY <1>1, <1>2, <1>3, <1>4, <1>5

\* A lookup that begins on a settled key sees its last install or nothing, in
\* either tier; what it may find on disk later is newer.
LEMMA LookupSteps ==
    ASSUME IInv, NEW g \in Readers, GetDisk(g) \/ \E k \in Keys : GetRAM(g, k)
    PROVE  IInv'
<1> USE StoreAssumptions DEF StoreAssumptions
<1>0. UNCHANGED <<ram, disk, st, wkey, dst, stamp, last, excused>>
  BY DEF GetDisk, GetRAM, tierVars, writerVars
<1>1. WriterInv' /\ Superseded(ram, "ram")' /\ Held(ram, "ram")' /\ Superseded(disk, "disk")' /\ Held(disk, "disk")'
  BY <1>0 DEF IInv, WriterInv, Superseded, Held
<1>2. CASE GetDisk(g)
  <2>1. /\ pc[g] = "disk" /\ rkey[g] \in Keys /\ rkey' = rkey /\ floor' = floor
        /\ answer' = [answer EXCEPT ![g] = disk[rkey[g]]] /\ pc' = [pc EXCEPT ![g] = "done"]
    BY <1>2 DEF GetDisk, IInv, ReaderInv
  <2>2. TypeOK'
    BY <1>0, <2>1 DEF IInv, TypeOK
  <2>3. ReaderInv' /\ ReadsMonotone'
    BY <1>0, <2>1 DEF IInv, TypeOK, ReaderInv, ReadsMonotone, Held
  <2> QED  BY <1>1, <2>2, <2>3 DEF IInv
<1>3. ASSUME NEW k \in Keys, GetRAM(g, k) PROVE IInv'
  <2>1. PICK n \in Nat : /\ n = (IF Settled(k) THEN last[k] ELSE 0)
                         /\ floor' = [floor EXCEPT ![g] = n]
    BY <1>3 DEF GetRAM, IInv, TypeOK
  <2>2. /\ rkey' = [rkey EXCEPT ![g] = k] /\ answer' = [answer EXCEPT ![g] = ram[k]]
        /\ pc' = [pc EXCEPT ![g] = IF ram[k] # None THEN "done" ELSE "disk"]
    BY <1>3 DEF GetRAM
  <2>3. /\ n <= last[k]
        /\ ram[k] # None => stamp[ram[k]] >= n
        /\ disk[k] # None => stamp[disk[k]] >= n
    BY <2>1, ResidentIsLast DEF IInv, TypeOK
  <2>4. TypeOK'
    BY <1>0, <2>2 DEF IInv, TypeOK
  <2>5. ReaderInv'
    BY <1>0, <2>1, <2>2, <2>3 DEF IInv, TypeOK, ReaderInv, Held
  <2>6. ReadsMonotone'
    BY <1>0, <2>1, <2>2, <2>3 DEF IInv, TypeOK, ReaderInv, ReadsMonotone
  <2> QED  BY <1>1, <2>4, <2>5, <2>6 DEF IInv
<1> QED  BY <1>2, <1>3

\* Every step preserves the invariant.
LEMMA NextIInv == IInv /\ [Next]_vars => IInv'
<1> SUFFICES ASSUME IInv, [Next]_vars PROVE IInv'
  OBVIOUS
<1>1. CASE UNCHANGED vars
  BY <1>1 DEF vars, IInv, TypeOK, WriterInv, ReaderInv, ReadsMonotone, Superseded, Held
<1>2. CASE Next
  BY <1>2, OpenStep, CommitStep, DroppingSteps, LookupSteps DEF Next
<1> QED  BY <1>1, <1>2

\* The inductive invariant holds throughout.
LEMMA Invariance == Spec => []IInv
  BY InitIInv, NextIInv, PTL DEF Spec

\* Cross-tier deduplication converges to one copy, the newest, for any number of
\* writers: what the dedup writer's Commit is for.
THEOREM SettledOneNewestTheorem == Spec => []SettledOneNewest
  BY Invariance, IInvSettled, PTL

\* GetTier, which asks RAM and then disk, never goes back behind the newest copy
\* of the last quiet moment.
THEOREM ReadsMonotoneTheorem == Spec => []ReadsMonotone
<1>1. IInv => ReadsMonotone  BY DEF IInv
<1> QED  BY <1>1, Invariance, PTL

\* What the two tiers promise as one store: one copy per settled key, the newest,
\* and lookups that never go back.
THEOREM OneNewestCopyTheorem == Spec => []OneNewestCopy
<1>1. IInv => OneNewestCopy  BY IInvSettled DEF IInv, OneNewestCopy
<1> QED  BY <1>1, Invariance, PTL

-----------------------------------------------------------------------------
(* Nothing is lost to deduplication.                                          *)

\* Why the newest copy survives: while no two commits of the key overlap, at most
\* one delete is due, it is that of the last install, and it spares the tier the
\* last install is in.
KeptInv ==
    \A k \in Keys \ excused :
        /\ last[k] > 0 => \E o \in {ram[k], disk[k]} \ {None} : stamp[o] = last[k]
        /\ \A w \in Writers : wkey[w] = k /\ st[w] = "dedup" => stamp[w] = last[k]

\* An install of a settled key is its last one and the only one whose delete is due.
LEMMA KeptCommit ==
    ASSUME IInv, KeptInv, NEW w \in Writers, CommitStored(w)
    PROVE  KeptInv'
<1> USE StoreAssumptions DEF StoreAssumptions
<1>0. PICK k \in Keys, n \in Nat : wkey[w] = k /\ n = last[k] + 1
  BY DEF CommitStored, IInv, WriterInv, TypeOK
<1>1. /\ st[w] = "open" /\ stamp[w] = 0
      /\ st' = [st EXCEPT ![w] = "dedup"] /\ wkey' = wkey
      /\ stamp' = [stamp EXCEPT ![w] = n] /\ last' = [last EXCEPT ![k] = n]
      /\ excused' = IF Settled(k) THEN excused ELSE excused \cup {k}
  BY <1>0 DEF CommitStored, IInv, WriterInv, TypeOK
<1>2. \/ ram' = [ram EXCEPT ![k] = w] /\ disk' = disk
      \/ disk' = [disk EXCEPT ![k] = w] /\ ram' = ram
  BY <1>0 DEF CommitStored, RAM!Install, Disk!Install
<1> SUFFICES ASSUME NEW j \in Keys, j \notin excused'
             PROVE  /\ last'[j] > 0 => \E o \in {ram'[j], disk'[j]} \ {None} : stamp'[o] = last'[j]
                    /\ \A x \in Writers : wkey'[x] = j /\ st'[x] = "dedup" => stamp'[x] = last'[j]
  BY DEF KeptInv
<1>3. j \notin excused /\ (j = k => Settled(k))
  BY <1>1
<1>4. CASE j = k
  <2>1. w \in {ram'[j], disk'[j]} \ {None} /\ stamp'[w] = last'[j]
    BY <1>0, <1>1, <1>2, <1>4 DEF IInv, TypeOK
  <2>2. ASSUME NEW x \in Writers, wkey'[x] = j, st'[x] = "dedup" PROVE stamp'[x] = last'[j]
    <3>1. x = w
      BY <1>1, <1>3, <1>4, <2>2 DEF Settled, IInv, TypeOK
    <3> QED  BY <2>1, <3>1
  <2> QED  BY <2>1, <2>2
<1>5. CASE j # k
  <2>1. last'[j] = last[j] /\ ram'[j] = ram[j] /\ disk'[j] = disk[j]
    BY <1>1, <1>2, <1>5 DEF IInv, TypeOK
  <2>2. \A x \in Writers : wkey[x] = j => x # w /\ stamp'[x] = stamp[x] /\ st'[x] = st[x]
    BY <1>0, <1>1, <1>5 DEF IInv, TypeOK
  <2>3. \A o \in {ram[j], disk[j]} \ {None} : o \in Writers /\ wkey[o] = j
    BY DEF IInv, TypeOK, Held
  <2> QED  BY <1>1, <1>3, <2>1, <2>2, <2>3 DEF KeptInv
<1> QED  BY <1>4, <1>5

\* The delete that is due is the last install's own, and it spares that copy.
LEMMA KeptDedup ==
    ASSUME IInv, KeptInv, NEW w \in Writers, Dedup(w)
    PROVE  KeptInv'
<1> USE StoreAssumptions DEF StoreAssumptions
<1>0. PICK k \in Keys : wkey[w] = k
  BY DEF Dedup, IInv, WriterInv
<1>1. /\ st[w] = "dedup" /\ st' = [st EXCEPT ![w] = "done"] /\ dst[w] \in {"ram", "disk"} /\ stamp[w] > 0
      /\ UNCHANGED <<wkey, dst, stamp, last, excused>>
  BY DEF Dedup, IInv, WriterInv
<1>2. \/ dst[w] = "disk" /\ ram' = [x \in Keys |-> IF x \in {k} THEN None ELSE ram[x]] /\ disk' = disk
      \/ dst[w] = "ram" /\ disk' = [x \in Keys |-> IF x \in {k} THEN None ELSE disk[x]] /\ ram' = ram
  BY <1>0, <1>1 DEF Dedup, Sibling, RAM!Drop, Disk!Drop
<1> SUFFICES ASSUME NEW j \in Keys, j \notin excused
             PROVE  /\ last[j] > 0 => \E o \in {ram'[j], disk'[j]} \ {None} : stamp[o] = last[j]
                    /\ \A x \in Writers : wkey[x] = j /\ st'[x] = "dedup" => stamp[x] = last[j]
  BY <1>1 DEF KeptInv
<1>3. \A x \in Writers : wkey[x] = j /\ st'[x] = "dedup" => stamp[x] = last[j]
  BY <1>1 DEF KeptInv, IInv, TypeOK
<1>4. CASE j = k
  <2>1. stamp[w] = last[k] /\ last[k] > 0
    BY <1>0, <1>1, <1>4 DEF KeptInv
  <2>2. PICK o \in {ram[k], disk[k]} \ {None} : stamp[o] = last[k]
    BY <1>4, <2>1 DEF KeptInv
  <2>3. o \in Writers /\ wkey[o] = k
    BY <2>2 DEF IInv, TypeOK, Held
  <2>4. o = w
    BY <1>0, <1>1, <2>1, <2>2, <2>3 DEF IInv, WriterInv
  <2>5. \/ dst[w] = "ram" /\ ram[k] = w
        \/ dst[w] = "disk" /\ disk[k] = w
    BY <1>1, <2>2, <2>4 DEF IInv, Held
  <2>6. w \in {ram'[k], disk'[k]} \ {None}
    BY <1>2, <2>5 DEF IInv, TypeOK
  <2> QED  BY <1>3, <1>4, <2>1, <2>6
<1>5. CASE j # k
  <2>1. ram'[j] = ram[j] /\ disk'[j] = disk[j]
    BY <1>2, <1>5
  <2> QED  BY <1>3, <2>1 DEF KeptInv
<1> QED  BY <1>4, <1>5

\* Every step keeps it: a refused commit drops nothing, and what is evicted, reset or
\* lost to a failed commit is excused.
LEMMA NextKept == IInv /\ KeptInv /\ [Next]_vars => KeptInv'
<1> SUFFICES ASSUME IInv, KeptInv, [Next]_vars PROVE KeptInv'
  OBVIOUS
<1>1. ASSUME NEW w \in Writers, NEW k \in Keys, NEW t \in {"ram", "disk"}, Open(w, k, t)
      PROVE  KeptInv'
  <2>1. /\ UNCHANGED <<ram, disk, stamp, last, excused>> /\ st' = [st EXCEPT ![w] = "open"]
        /\ wkey' = [wkey EXCEPT ![w] = k]
    BY <1>1 DEF Open, tierVars
  <2>2. \A x \in Writers : st'[x] = "dedup" => st[x] = "dedup" /\ wkey'[x] = wkey[x]
    BY <2>1 DEF IInv, TypeOK, WriterInv
  <2> QED  BY <2>1, <2>2 DEF KeptInv
<1>2. ASSUME NEW w \in Writers, CommitRefused(w) PROVE KeptInv'
  <2>1. /\ UNCHANGED <<ram, disk, stamp, last, excused, wkey>> /\ st' = [st EXCEPT ![w] = "done"]
    BY <1>2 DEF CommitRefused, RAM!Discard, Disk!Discard, AfterRefusal
  <2>2. \A x \in Writers : st'[x] = "dedup" => st[x] = "dedup"
    BY <2>1 DEF IInv, TypeOK
  <2> QED  BY <2>1, <2>2 DEF KeptInv
<1>3. ASSUME NEW k \in Keys, Evict(k) PROVE KeptInv'
  <2>1. excused' = excused \cup {k} /\ UNCHANGED <<st, wkey, stamp, last>>
    BY <1>3 DEF Evict, writerVars
  <2>2. \A j \in Keys : j # k => ram'[j] = ram[j] /\ disk'[j] = disk[j]
    BY <1>3 DEF Evict, RAM!Drop, Disk!Drop
  <2> QED  BY <2>1, <2>2 DEF KeptInv
<1>4. ASSUME Reset PROVE KeptInv'
  BY <1>4 DEF Reset, KeptInv
<1>5. ASSUME NEW g \in Readers, GetDisk(g) \/ \E k \in Keys : GetRAM(g, k) PROVE KeptInv'
  BY <1>5 DEF GetDisk, GetRAM, tierVars, writerVars, KeptInv
<1>6. CASE UNCHANGED vars
  BY <1>6 DEF vars, KeptInv
<1>7. ASSUME NEW w \in Writers, CommitFailed(w) PROVE KeptInv'
  <2>0. PICK k \in Keys : k = wkey[w]
    BY <1>7 DEF CommitFailed, IInv, WriterInv
  <2>1. /\ UNCHANGED <<ram, stamp, last, wkey>> /\ st' = [st EXCEPT ![w] = "done"]
        /\ disk' = [disk EXCEPT ![k] = None]
        /\ excused' = IF disk[k] # None THEN excused \cup {k} ELSE excused
    BY <1>7, <2>0 DEF CommitFailed
  <2>2. \A x \in Writers : st'[x] = "dedup" => st[x] = "dedup"
    BY <2>1 DEF IInv, TypeOK
  <2>3. \A j \in Keys \ excused' : j \notin excused /\ disk'[j] = disk[j]
    BY <2>1 DEF IInv, TypeOK
  <2> QED  BY <2>1, <2>2, <2>3 DEF KeptInv
<1> QED  BY <1>1, <1>2, <1>3, <1>4, <1>5, <1>6, <1>7, KeptCommit, KeptDedup DEF Next

\* The newest copy of a settled key is resident unless it was evicted, a failed disk
\* commit had removed it to replace it, or two commits of the key overlapped: Commit
\* deletes only from the sibling tier, and only after it has stored (the Stored check
\* of dedupWriter.Commit).
THEOREM NewestResidentTheorem == Spec => []NewestResident
<1>1. Init => KeptInv
  BY DEF Init, KeptInv
<1>2. KeptInv => NewestResident
  BY DEF KeptInv, NewestResident
<1> QED  BY <1>1, <1>2, NextKept, Invariance, PTL DEF Spec
=============================================================================
