--------------------------- MODULE RAMTierProofs ---------------------------
(* The invariants of RAMTier, proved for every number of keys, shards and     *)
(* writers, every split of the budget and every write length.                 *)
EXTENDS RAMTier, TLAPS

\* The steps are propositional and about sets and functions; those with arithmetic
\* cite SMT.
USE ZenonT(90)

\* What a writer has charged is what it buffers, reserve is entered only under
\* a budget, and the total a swap would install is within it.
WriterInv ==
    /\ \A w \in Writers :
         /\ reserved[w] = buffered[w]
         /\ st[w] # "idle" => wkey[w] \in Keys
         /\ st[w] \in {"load", "swap"} => InflightBudget > 0
         /\ st[w] = "swap" => seen[w] + want[w] <= InflightBudget
    /\ InflightAccounted
    /\ InflightBudget > 0 => inflight <= InflightBudget

\* A commit in its sweep holds its shard's lock, has taken out the entry it
\* replaces, and writes an object the shard can hold; nobody else holds a lock.
LockInv ==
    /\ \A w \in Writers : st[w] = "sweep" =>
         /\ locked[ShardOf[wkey[w]]] = w
         /\ held[wkey[w]] = None
         /\ buffered[w] <= Cap[ShardOf[wkey[w]]]
    /\ \A s \in Shards : locked[s] # None =>
         /\ st[locked[s]] = "sweep"
         /\ ShardOf[wkey[locked[s]]] = s

ShardInv == RingMatchesItems /\ BytesAccounted /\ WithinCap

IInv == TypeOK /\ WriterInv /\ LockInv /\ ShardInv
-----------------------------------------------------------------------------
\* Taking a resident key out of its shard leaves the ring, the entries and the
\* byte count in step (commit's replace and evict branches, and Delete).
LEMMA UnlinkFacts ==
  ASSUME TypeOK, ShardInv, NEW s \in Shards, NEW k \in Resident(s), Unlink(s, k)
  PROVE  /\ ring' \in [Shards -> Seq(Keys)]
         /\ held' \in [Keys -> Writers \cup {None}]
         /\ size' \in [Keys -> Nat]
         /\ ref' \in [Keys -> BOOLEAN]
         /\ curBytes' \in [Shards -> Int]
         /\ RingMatchesItems'
         /\ \A t \in Shards : curBytes'[t] = Bytes(Resident(t)', size')
         /\ \A t \in Shards \ {s} :
              /\ curBytes'[t] = curBytes[t]
              /\ Resident(t)' = Resident(t)
         /\ Resident(s)' = Resident(s) \ {k}
         /\ curBytes'[s] <= curBytes[s]
<1> USE RAMAssumptions
<1>1. k \in Keys /\ ShardOf[k] = s
  BY DEF Resident
<1>2. /\ held' \in [Keys -> Writers \cup {None}]
      /\ size' \in [Keys -> Nat]
      /\ ref' \in [Keys -> BOOLEAN]
  BY <1>1 DEF Unlink, TypeOK
<1>3. size[k] \in Nat /\ curBytes[s] \in Int
  BY <1>1 DEF TypeOK
<1>4. /\ curBytes' \in [Shards -> Int]
      /\ curBytes'[s] = curBytes[s] - size[k]
      /\ \A t \in Shards \ {s} : curBytes'[t] = curBytes[t]
  BY SMT, <1>3 DEF Unlink, TypeOK
<1>5. /\ Resident(s)' = Resident(s) \ {k}
      /\ \A t \in Shards \ {s} : Resident(t)' = Resident(t)
  BY <1>1 DEF Unlink, TypeOK, Resident
<1>6. ring[s] \in Seq(Keys) /\ Distinct(ring[s]) /\ k \in Entries(ring[s])
  BY DEF ShardInv, RingMatchesItems, TypeOK
<1>7. /\ RemoveKey(ring[s], k) \in Seq(Keys)
      /\ Entries(RemoveKey(ring[s], k)) = Entries(ring[s]) \ {k}
      /\ Distinct(RemoveKey(ring[s], k))
  BY <1>6, RemoveKeyFacts
<1>8. /\ ring' \in [Shards -> Seq(Keys)]
      /\ ring'[s] = RemoveKey(ring[s], k)
      /\ \A t \in Shards \ {s} : ring'[t] = ring[t]
  BY <1>7 DEF Unlink, TypeOK
<1>9. RingMatchesItems'
  BY <1>5, <1>7, <1>8 DEF ShardInv, RingMatchesItems
<1>10. ASSUME NEW t \in Shards PROVE curBytes'[t] = Bytes(Resident(t)', size')
  <2>1. IsFiniteSet(Resident(t)) /\ \A x \in Resident(t) : x \in Keys /\ size[x] \in Nat
    <3>1. Resident(t) \subseteq Keys
      BY DEF Resident
    <3> QED BY <3>1, FinitePart DEF TypeOK
  <2>2. \A x \in Keys \ {k} : size'[x] = size[x]
    BY DEF Unlink, TypeOK
  <2>3. curBytes[t] = Bytes(Resident(t), size)
    BY DEF ShardInv, BytesAccounted
  <2>4. CASE t = s
    <3>1. \A x \in Resident(s) \ {k} : size'[x] = size[x]
      BY <2>1, <2>2, <2>4
    <3>2. Bytes(Resident(s) \ {k}, size') = Bytes(Resident(s), size) - size[k]
      BY <2>1, <2>4, <3>1, BytesRemove
    <3> QED BY <1>4, <1>5, <2>3, <2>4, <3>2
  <2>5. CASE t # s
    <3>1. \A x \in Resident(t) : size'[x] = size[x]
      BY <1>1, <2>2, <2>5 DEF Resident
    <3>2. Bytes(Resident(t), size') = Bytes(Resident(t), size)
      BY <3>1, BytesSame
    <3> QED BY <1>4, <1>5, <2>3, <2>5, <3>2
  <2> QED BY <2>4, <2>5
<1>11. curBytes'[s] <= curBytes[s]
  BY SMT, <1>3, <1>4
<1> QED BY <1>2, <1>4, <1>5, <1>8, <1>9, <1>10, <1>11

\* A sweep that stopped has room for its object: either it fits beside what is
\* left, or nothing is left and the object alone is within the cap.
LEMMA SweepMakesRoom ==
  ASSUME TypeOK, WriterInv, LockInv, ShardInv,
         NEW w \in Writers, st[w] = "sweep",
         Fits(w, ShardOf[wkey[w]]) \/ ring[ShardOf[wkey[w]]] = <<>>
  PROVE  curBytes[ShardOf[wkey[w]]] + buffered[w] <= Cap[ShardOf[wkey[w]]]
<1> DEFINE s == ShardOf[wkey[w]]
<1>1. s \in Shards /\ buffered[w] \in Nat /\ Cap[s] \in Int /\ buffered[w] <= Cap[s]
  BY RAMAssumptions DEF TypeOK, WriterInv, LockInv
<1>2. CASE Fits(w, s)
  BY <1>2 DEF Fits
<1>3. CASE ring[s] = <<>>
  <2>1. Entries(ring[s]) = {}
    BY SMT, <1>3 DEF Entries
  <2>2. Resident(s) = {}
    BY <1>1, <2>1 DEF ShardInv, RingMatchesItems
  <2>3. curBytes[s] = 0
    BY <1>1, <2>2, BytesEmpty DEF ShardInv, BytesAccounted
  <2> QED BY SMT, <1>1, <2>3
<1> QED BY <1>2, <1>3

\* Installing an object in the room its sweep made keeps the ring, the entries
\* and the byte count in step and the shard within its cap.
LEMMA InstallFacts ==
  ASSUME TypeOK, WriterInv, LockInv, ShardInv, NEW w \in Writers, Install(w)
  PROVE  /\ ring' \in [Shards -> Seq(Keys)]
         /\ curBytes' \in [Shards -> Int]
         /\ atomicBytes' \in [Shards -> Int]
         /\ ShardInv'
<1> USE RAMAssumptions
<1>0. PICK k \in Keys, s \in Shards : wkey[w] = k /\ ShardOf[k] = s
  BY DEF TypeOK, WriterInv, Install
<1>1. buffered[w] \in Nat /\ held[k] = None /\ w # None
  BY <1>0 DEF TypeOK, LockInv, Install
<1>2. curBytes[s] \in Int /\ Cap[s] \in Int /\ curBytes[s] + buffered[w] <= Cap[s]
  BY <1>0, SweepMakesRoom DEF Install, TypeOK
<1>3. /\ curBytes' \in [Shards -> Int]
      /\ atomicBytes' \in [Shards -> Int]
      /\ curBytes'[s] = curBytes[s] + buffered[w]
      /\ atomicBytes'[s] = curBytes'[s]
      /\ \A t \in Shards \ {s} : /\ curBytes'[t] = curBytes[t]
                                 /\ atomicBytes'[t] = atomicBytes[t]
                                 /\ locked'[t] = locked[t]
  <2>1. /\ curBytes' = [curBytes EXCEPT ![s] = curBytes[s] + buffered[w]]
        /\ atomicBytes' = [atomicBytes EXCEPT ![s] = curBytes[s] + buffered[w]]
        /\ locked' = [locked EXCEPT ![s] = None]
    BY <1>0 DEF Install
  <2>2. curBytes \in [Shards -> Int] /\ atomicBytes \in [Shards -> Int]
    BY DEF TypeOK
  <2>3. locked \in [Shards -> Writers \cup {None}]
    BY DEF TypeOK
  <2> QED BY SMT, <1>1, <1>2, <2>1, <2>2, <2>3
<1>4. /\ Resident(s)' = Resident(s) \cup {k}
      /\ k \notin Resident(s)
      /\ \A t \in Shards \ {s} : Resident(t)' = Resident(t)
  BY <1>0, <1>1 DEF Install, TypeOK, Resident
<1>5. ring[s] \in Seq(Keys) /\ Distinct(ring[s]) /\ Entries(ring[s]) = Resident(s)
  BY <1>0, <1>1 DEF ShardInv, RingMatchesItems, TypeOK
<1>6. /\ PushFront(ring[s], k) \in Seq(Keys)
      /\ Entries(PushFront(ring[s], k)) = Resident(s) \cup {k}
      /\ Distinct(PushFront(ring[s], k))
  BY SMT, <1>0, <1>1, <1>4, <1>5, PushFrontFacts
<1>7. /\ ring' \in [Shards -> Seq(Keys)]
      /\ ring'[s] = PushFront(ring[s], k)
      /\ \A t \in Shards \ {s} : ring'[t] = ring[t]
  BY <1>0, <1>1, <1>6 DEF Install, TypeOK
<1>8. RingMatchesItems'
  BY <1>4, <1>6, <1>7 DEF ShardInv, RingMatchesItems
<1>9. ASSUME NEW t \in Shards PROVE curBytes'[t] = Bytes(Resident(t)', size')
  <2>1. IsFiniteSet(Resident(t)) /\ \A x \in Resident(t) : x \in Keys /\ size[x] \in Nat
    <3>1. Resident(t) \subseteq Keys
      BY DEF Resident
    <3> QED BY <3>1, FinitePart DEF TypeOK
  <2>2. size'[k] = buffered[w] /\ \A x \in Keys \ {k} : size'[x] = size[x]
    BY <1>0, <1>1 DEF Install, TypeOK
  <2>3. curBytes[t] = Bytes(Resident(t), size)
    BY DEF ShardInv, BytesAccounted
  <2>4. \A x \in Resident(t) : size[x] \in Nat /\ size'[x] = size[x]
    BY <1>0, <1>1, <1>4, <2>1, <2>2 DEF Resident
  <2>5. CASE t = s
    <3>1. /\ IsFiniteSet(Resident(s))
          /\ \A x \in Resident(s) : size[x] \in Nat /\ size'[x] = size[x]
      BY <2>1, <2>4, <2>5
    <3>2. k \notin Resident(s) /\ size'[k] = buffered[w]
      BY <1>4, <2>2
    <3>3. Bytes(Resident(s) \cup {k}, size') = Bytes(Resident(s), size) + buffered[w]
      <4>1. PICK R, f, g, n : R = Resident(s) /\ f = size /\ g = size' /\ n = buffered[w]
        OBVIOUS
      <4>2. /\ IsFiniteSet(R) /\ k \notin R /\ n \in Nat /\ g[k] = n
            /\ \A x \in R : f[x] \in Nat /\ g[x] = f[x]
        BY <1>1, <3>1, <3>2, <4>1
      <4>3. Bytes(R \cup {k}, g) = Bytes(R, f) + n
        BY SMT, <4>2, BytesInsert
      <4> QED BY <4>1, <4>3
    <3> QED BY <1>3, <1>4, <2>3, <2>5, <3>3
  <2>6. CASE t # s
    <3>1. Bytes(Resident(t), size') = Bytes(Resident(t), size)
      BY <2>4, BytesSame
    <3> QED BY <1>3, <1>4, <2>3, <2>6, <3>1
  <2> QED BY <2>5, <2>6
<1>10. \A t \in Shards : Unlocked(t)' => atomicBytes'[t] = curBytes'[t]
  BY <1>3 DEF ShardInv, BytesAccounted, Unlocked
<1>11. WithinCap'
  <2>1. curBytes'[s] <= Cap[s]
    BY <1>2, <1>3
  <2>2. \A t \in Shards \ {s} : curBytes'[t] <= Cap[t] \/ Resident(t)' = {}
    BY <1>3, <1>4 DEF ShardInv, WithinCap
  <2> QED BY <2>1, <2>2 DEF WithinCap
<1>12. BytesAccounted'
  BY <1>9, <1>10 DEF BytesAccounted
<1> QED BY <1>3, <1>7, <1>8, <1>11, <1>12 DEF ShardInv

\* Handing back a writer's whole charge keeps the budget exact (dropBuffer,
\* Abort and the end of Commit).
LEMMA ReleaseFacts ==
  ASSUME TypeOK, WriterInv, NEW w \in Writers, Release(w)
  PROVE  /\ inflight' \in Int
         /\ reserved' \in [Writers -> Nat]
         /\ buffered' \in [Writers -> Nat]
         /\ \A v \in Writers : reserved'[v] = buffered'[v] /\ buffered'[v] <= buffered[v]
         /\ \A v \in Writers \ {w} : buffered'[v] = buffered[v]
         /\ InflightAccounted'
         /\ InflightBudget > 0 => inflight' <= InflightBudget
<1> USE RAMAssumptions
<1>1. reserved \in [Writers -> Nat] /\ buffered \in [Writers -> Nat] /\ inflight \in Int
  BY DEF TypeOK
<1>2. /\ reserved' \in [Writers -> Nat]
      /\ buffered' \in [Writers -> Nat]
      /\ \A v \in Writers : reserved'[v] = buffered'[v] /\ buffered'[v] <= buffered[v]
      /\ \A v \in Writers \ {w} : buffered'[v] = buffered[v]
  BY SMT, <1>1 DEF Release, WriterInv
<1>3. inflight' \in Int /\ inflight' = inflight - reserved[w]
  BY SMT, <1>1 DEF Release
<1>4. Bytes(Writers, reserved') = Bytes(Writers, reserved) - reserved[w] + 0
  <2>1. /\ \A y \in Writers : reserved[y] \in Nat
        /\ \A y \in Writers \ {w} : reserved'[y] = reserved[y]
        /\ reserved'[w] = 0
    BY <1>1 DEF Release
  <2> QED BY SMT, <2>1, BytesChange
<1>5. reserved[w] \in Nat /\ Bytes(Writers, reserved) \in Nat
  BY <1>1, ByteSetFinite
<1>6. InflightAccounted'
  BY SMT, <1>3, <1>4, <1>5 DEF WriterInv, InflightAccounted
<1>7. InflightBudget > 0 => inflight' <= InflightBudget
  BY SMT, <1>1, <1>3, <1>5 DEF WriterInv
<1> QED BY <1>2, <1>3, <1>6, <1>7

\* A swap that found the total it loaded charges exactly the bytes it buffers,
\* and the new total is within the budget.
LEMMA SwapFacts ==
  ASSUME TypeOK, WriterInv, NEW w \in Writers, st[w] = "swap",
         inflight = seen[w], inflight' = seen[w] + Delta(w), Grow(w, want[w])
  PROVE  /\ inflight' \in Int
         /\ reserved' \in [Writers -> Nat]
         /\ buffered' \in [Writers -> Nat]
         /\ \A v \in Writers : reserved'[v] = buffered'[v]
         /\ \A v \in Writers \ {w} : buffered'[v] = buffered[v]
         /\ InflightAccounted'
         /\ InflightBudget > 0 => inflight' <= InflightBudget
<1> USE RAMAssumptions
<1>1. /\ reserved \in [Writers -> Nat] /\ buffered \in [Writers -> Nat]
      /\ want \in [Writers -> Nat] /\ inflight \in Int
      /\ \A v \in Writers : reserved[v] = buffered[v]
  BY DEF TypeOK, WriterInv
<1>2. /\ reserved' \in [Writers -> Nat]
      /\ buffered' \in [Writers -> Nat]
      /\ \A v \in Writers : reserved'[v] = buffered'[v]
      /\ \A v \in Writers \ {w} : buffered'[v] = buffered[v]
  BY SMT, <1>1 DEF Grow
<1>3. want[w] \in Nat /\ inflight' = inflight + want[w]
  BY SMT, <1>1 DEF Delta
<1>4. Bytes(Writers, reserved') = Bytes(Writers, reserved) - reserved[w] + (reserved[w] + want[w])
  <2>1. /\ \A y \in Writers : reserved[y] \in Nat
        /\ \A y \in Writers \ {w} : reserved'[y] = reserved[y]
        /\ reserved[w] + want[w] \in Nat
        /\ reserved'[w] = reserved[w] + want[w]
    BY SMT, <1>1 DEF Grow
  <2> QED BY SMT, <2>1, BytesChange
<1>5. reserved[w] \in Nat /\ Bytes(Writers, reserved) \in Nat
  BY <1>1, ByteSetFinite
<1>6. InflightAccounted'
  BY SMT, <1>1, <1>3, <1>4, <1>5 DEF WriterInv, InflightAccounted
<1>7. InflightBudget > 0 => inflight' <= InflightBudget
  BY <1>1, <1>3 DEF WriterInv
<1> QED BY SMTT(30), <1>1, <1>2, <1>3, <1>6, <1>7
-----------------------------------------------------------------------------
\* Every step keeps the state well typed.
LEMMA TypeStep == IInv /\ [Next]_vars => TypeOK'
<1> SUFFICES ASSUME IInv, [Next]_vars PROVE TypeOK'
  OBVIOUS
<1> USE RAMAssumptions
<1>1. TypeOK /\ WriterInv /\ LockInv /\ ShardInv
  BY DEF IInv
<1>2. ASSUME NEW w \in Writers, NEW k \in Keys, Open(w, k) PROVE TypeOK'
  BY <1>1, <1>2 DEF Open, Goto, TypeOK, WriterStates, shardVars
<1>3. ASSUME NEW w \in Writers, NEW n \in Chunks, Write(w, n) PROVE TypeOK'
  <2>1. n \in Nat
    OBVIOUS
  <2>2. CASE DropBuffer(w) /\ UNCHANGED <<st, want>>
    <3>1. inflight' \in Int /\ reserved' \in [Writers -> Nat] /\ buffered' \in [Writers -> Nat]
      BY <1>1, <2>2, ReleaseFacts DEF DropBuffer
    <3> QED BY <1>1, <1>3, <2>2, <3>1 DEF Write, DropBuffer, TypeOK, shardVars
  <2>3. CASE Grow(w, n) /\ UNCHANGED <<st, want, inflight, overflow>>
    BY SMTT(30), <1>1, <1>3, <2>1, <2>3 DEF Write, Grow, TypeOK, shardVars
  <2>4. CASE /\ Goto(w, "load") /\ want' = [want EXCEPT ![w] = n]
             /\ UNCHANGED <<inflight, buffered, reserved, overflow>>
    BY <1>1, <1>3, <2>1, <2>4 DEF Write, Goto, TypeOK, WriterStates, shardVars
  <2> QED BY <1>3, <2>2, <2>3, <2>4 DEF Write
<1>4. ASSUME NEW w \in Writers, Abort(w) PROVE TypeOK'
  <2>1. inflight' \in Int /\ reserved' \in [Writers -> Nat] /\ buffered' \in [Writers -> Nat]
    BY <1>1, <1>4, ReleaseFacts DEF Abort
  <2> QED BY <1>1, <1>4, <2>1 DEF Abort, Goto, TypeOK, WriterStates, shardVars
<1>5. ASSUME NEW w \in Writers, CommitOverflowed(w) \/ CommitRefused(w) PROVE TypeOK'
  BY <1>1, <1>5 DEF CommitOverflowed, CommitRefused, Goto, TypeOK, WriterStates, shardVars
<1>6. ASSUME NEW w \in Writers, CommitBegin(w) PROVE TypeOK'
  <2>1. PICK k \in Keys, s \in Shards : wkey[w] = k /\ ShardOf[k] = s
    BY <1>1, <1>6 DEF TypeOK, WriterInv, CommitBegin
  <2>2. /\ st' \in [Writers -> WriterStates]
        /\ locked' \in [Shards -> Writers \cup {None}]
    BY <1>1, <1>6, <2>1 DEF CommitBegin, Goto, TypeOK, WriterStates
  <2>3. /\ held' \in [Keys -> Writers \cup {None}]
        /\ size' \in [Keys -> Nat]
        /\ ref' \in [Keys -> BOOLEAN]
        /\ ring' \in [Shards -> Seq(Keys)]
        /\ curBytes' \in [Shards -> Int]
    <3>1. CASE held[k] # None /\ Unlink(s, k)
      <4>1. k \in Resident(s)
        BY <2>1, <3>1 DEF Resident
      <4> QED BY <1>1, <3>1, <4>1, UnlinkFacts
    <3>2. CASE UNCHANGED <<held, size, ref, ring, curBytes>>
      BY <1>1, <3>2 DEF TypeOK
    <3> QED BY <1>6, <2>1, <3>1, <3>2 DEF CommitBegin
  <2> QED BY <1>1, <1>6, <2>2, <2>3 DEF CommitBegin, TypeOK
<1>7. ASSUME NEW w \in Writers, ReserveLoad(w) PROVE TypeOK'
  <2>1. CASE DropBuffer(w) /\ Return(w)
    <3>1. inflight' \in Int /\ reserved' \in [Writers -> Nat] /\ buffered' \in [Writers -> Nat]
      BY <1>1, <2>1, ReleaseFacts DEF DropBuffer
    <3>2. UNCHANGED <<shardVars, wkey>>
      BY <1>7 DEF ReserveLoad
    <3>3. /\ st' \in [Writers -> WriterStates]
          /\ want' \in [Writers -> Nat]
          /\ seen' \in [Writers -> Int]
          /\ overflow' \in [Writers -> BOOLEAN]
      BY SMT, <1>1, <2>1 DEF DropBuffer, Return, Goto, TypeOK, WriterStates
    <3> QED BY <1>1, <3>1, <3>2, <3>3 DEF TypeOK, shardVars
  <2>2. CASE /\ seen' = [seen EXCEPT ![w] = inflight] /\ Goto(w, "swap")
             /\ UNCHANGED <<inflight, buffered, reserved, overflow, want>>
    BY <1>1, <1>7, <2>2 DEF ReserveLoad, Goto, TypeOK, WriterStates, shardVars
  <2> QED BY <1>7, <2>1, <2>2 DEF ReserveLoad
<1>8. ASSUME NEW w \in Writers, ReserveSwap(w) PROVE TypeOK'
  <2>1. CASE inflight = seen[w] /\ inflight' = seen[w] + Delta(w) /\ Grow(w, want[w]) /\ Return(w)
    <3>1. inflight' \in Int /\ reserved' \in [Writers -> Nat] /\ buffered' \in [Writers -> Nat]
      BY <1>1, <1>8, <2>1, SwapFacts DEF ReserveSwap
    <3>2. UNCHANGED <<shardVars, wkey, overflow>>
      BY <1>8 DEF ReserveSwap
    <3>3. /\ st' \in [Writers -> WriterStates]
          /\ want' \in [Writers -> Nat]
          /\ seen' \in [Writers -> Int]
      BY SMT, <1>1, <2>1 DEF Return, Goto, TypeOK, WriterStates
    <3> QED BY <1>1, <3>1, <3>2, <3>3 DEF TypeOK, shardVars
  <2>2. CASE Goto(w, "load") /\ UNCHANGED <<inflight, buffered, reserved, want, seen>>
    BY <1>1, <1>8, <2>2 DEF ReserveSwap, Goto, TypeOK, WriterStates, shardVars
  <2> QED BY <1>8, <2>1, <2>2 DEF ReserveSwap
<1>9. ASSUME NEW w \in Writers, Sweep(w) PROVE TypeOK'
  <2>1. PICK s \in Shards : s = ShardOf[wkey[w]]
    BY <1>1, <1>9 DEF TypeOK, WriterInv, Sweep
  <2>2. ring[s] \in Seq(Keys) /\ ring[s] # <<>> /\ Distinct(ring[s])
    BY <1>1, <1>9, <2>1 DEF TypeOK, ShardInv, RingMatchesItems, Sweep
  <2>3. PICK k \in Keys : k = Back(ring[s]) /\ k \in Entries(ring[s])
    BY <2>2, BackFacts
  <2>4. /\ held' \in [Keys -> Writers \cup {None}]
        /\ size' \in [Keys -> Nat]
        /\ ref' \in [Keys -> BOOLEAN]
        /\ ring' \in [Shards -> Seq(Keys)]
        /\ curBytes' \in [Shards -> Int]
    <3>1. CASE /\ ref' = [ref EXCEPT ![k] = FALSE]
               /\ ring' = [ring EXCEPT ![s] = MoveToFront(ring[s], k)]
               /\ UNCHANGED <<held, size, curBytes>>
      <4>1. MoveToFront(ring[s], k) \in Seq(Keys)
        BY <2>2, <2>3, MoveToFrontFacts
      <4> QED BY <1>1, <3>1, <4>1 DEF TypeOK
    <3>2. CASE Unlink(s, k)
      <4>1. k \in Resident(s)
        BY <1>1, <2>3 DEF ShardInv, RingMatchesItems
      <4> QED BY <1>1, <3>2, <4>1, UnlinkFacts
    <3> QED BY <1>9, <2>1, <2>3, <3>1, <3>2 DEF Sweep
  <2> QED BY <1>1, <1>9, <2>4 DEF Sweep, TypeOK, writerVars
<1>10. ASSUME NEW w \in Writers, Install(w) PROVE TypeOK'
  <2>1. ring' \in [Shards -> Seq(Keys)] /\ curBytes' \in [Shards -> Int] /\ atomicBytes' \in [Shards -> Int]
    BY <1>1, <1>10, InstallFacts
  <2>2. PICK k \in Keys, s \in Shards : wkey[w] = k /\ ShardOf[k] = s
    BY <1>1, <1>10 DEF TypeOK, WriterInv, Install
  <2>3. /\ held' \in [Keys -> Writers \cup {None}]
        /\ size' \in [Keys -> Nat]
        /\ ref' \in [Keys -> BOOLEAN]
        /\ locked' \in [Shards -> Writers \cup {None}]
        /\ st' \in [Writers -> WriterStates]
    BY <1>1, <1>10, <2>2 DEF Install, Goto, TypeOK, WriterStates
  <2> QED BY <1>1, <1>10, <2>1, <2>3 DEF Install, TypeOK
<1>11. ASSUME NEW w \in Writers, CommitEnd(w) PROVE TypeOK'
  <2>1. inflight' \in Int /\ reserved' \in [Writers -> Nat] /\ buffered' \in [Writers -> Nat]
    BY <1>1, <1>11, ReleaseFacts DEF CommitEnd
  <2> QED BY <1>1, <1>11, <2>1 DEF CommitEnd, Goto, TypeOK, WriterStates, shardVars
<1>12. ASSUME NEW k \in Keys, Get(k) PROVE TypeOK'
  BY <1>1, <1>12 DEF Get, TypeOK, writerVars
<1>13. ASSUME NEW k \in Keys, Delete(k) PROVE TypeOK'
  <2>1. PICK s \in Shards : s = ShardOf[k] /\ k \in Resident(s)
    BY <1>13 DEF Delete, Resident
  <2>2. Unlink(s, k)
    BY <1>13, <2>1 DEF Delete
  <2>3. /\ held' \in [Keys -> Writers \cup {None}]
        /\ size' \in [Keys -> Nat]
        /\ ref' \in [Keys -> BOOLEAN]
        /\ ring' \in [Shards -> Seq(Keys)]
        /\ curBytes' \in [Shards -> Int]
    BY <1>1, <2>1, <2>2, UnlinkFacts
  <2>4. atomicBytes' \in [Shards -> Int]
    BY SMTT(30), <1>1, <1>13 DEF Delete, TypeOK
  <2> QED BY <1>1, <1>13, <2>3, <2>4 DEF Delete, TypeOK, writerVars
<1>14. ASSUME NEW s \in Shards, Reset(s) PROVE TypeOK'
  <2>1. ring' \in [Shards -> Seq(Keys)]
    BY SMT, <1>1, <1>14 DEF Reset, TypeOK
  <2>2. held' \in [Keys -> Writers \cup {None}] /\ size' \in [Keys -> Nat]
    BY <1>1, <1>14 DEF Reset, TypeOK
  <2>3. ref' \in [Keys -> BOOLEAN]
    BY <1>1, <1>14 DEF Reset, TypeOK
  <2>4. curBytes' \in [Shards -> Int] /\ atomicBytes' \in [Shards -> Int]
    BY SMT, <1>1, <1>14 DEF Reset, TypeOK
  <2>5. UNCHANGED <<locked, inflight, writerVars>>
    BY <1>14 DEF Reset
  <2> QED BY <1>1, <2>1, <2>2, <2>3, <2>4, <2>5 DEF TypeOK, writerVars
<1>15. CASE UNCHANGED vars
  BY <1>1, <1>15 DEF vars, TypeOK
<1> QED
  BY <1>2, <1>3, <1>4, <1>5, <1>6, <1>7, <1>8, <1>9, <1>10, <1>11, <1>12, <1>13, <1>14, <1>15
  DEF Next, Proceed

\* Every step keeps charges equal to buffers and the total within the budget.
LEMMA WriterStep == IInv /\ [Next]_vars => WriterInv'
<1> SUFFICES ASSUME IInv, [Next]_vars PROVE WriterInv'
  OBVIOUS
<1> USE RAMAssumptions
<1>1. TypeOK /\ WriterInv
  BY DEF IInv
<1>2. ASSUME UNCHANGED <<inflight, wkey, buffered, reserved, want, seen>>,
             \A w \in Writers : /\ st'[w] # "idle" => st[w] # "idle"
                                /\ st'[w] \in {"load", "swap"} => st[w] = st'[w]
      PROVE  WriterInv'
  BY <1>1, <1>2 DEF WriterInv, InflightAccounted
<1>3. ASSUME NEW w \in Writers, NEW k \in Keys, Open(w, k) PROVE WriterInv'
  BY <1>1, <1>3 DEF Open, Goto, TypeOK, WriterInv, InflightAccounted
<1>4. ASSUME NEW w \in Writers, Release(w),
             UNCHANGED wkey,
             \A v \in Writers \ {w} : /\ st'[v] = st[v]
                                      /\ want'[v] = want[v] /\ seen'[v] = seen[v],
             st[w] # "idle", st'[w] \notin {"load", "swap"}
      PROVE  WriterInv'
  <2>1. /\ \A v \in Writers : reserved'[v] = buffered'[v]
        /\ InflightAccounted'
        /\ InflightBudget > 0 => inflight' <= InflightBudget
    BY <1>1, <1>4, ReleaseFacts
  <2> QED BY <1>1, <1>4, <2>1 DEF WriterInv
<1>5. ASSUME NEW w \in Writers, NEW n \in Chunks, Write(w, n) PROVE WriterInv'
  <2>1. CASE DropBuffer(w) /\ UNCHANGED <<st, want>>
    BY <1>4, <1>5, <2>1 DEF Write, DropBuffer
  <2>2. CASE InflightBudget <= 0 /\ Grow(w, n) /\ UNCHANGED <<st, want, inflight, overflow>>
    <3>1. \A v \in Writers : reserved'[v] = buffered'[v]
      BY <1>1, <2>2 DEF Grow, TypeOK, WriterInv
    <3>2. ~(InflightBudget > 0)
      BY SMT, <2>2
    <3>3. UNCHANGED <<st, want, wkey, seen>>
      BY <1>5, <2>2 DEF Write
    <3> QED BY <1>1, <3>1, <3>2, <3>3 DEF WriterInv, InflightAccounted
  <2>3. CASE /\ InflightBudget > 0 /\ Goto(w, "load") /\ want' = [want EXCEPT ![w] = n]
             /\ UNCHANGED <<inflight, buffered, reserved, overflow>>
    <3>1. UNCHANGED <<wkey, seen>> /\ st[w] = "open"
      BY <1>5 DEF Write
    <3> QED BY <1>1, <2>3, <3>1 DEF Goto, TypeOK, WriterInv, InflightAccounted
  <2> QED BY <1>5, <2>1, <2>2, <2>3 DEF Write
<1>6. ASSUME NEW w \in Writers, Abort(w) \/ CommitEnd(w) PROVE WriterInv'
  BY <1>1, <1>4, <1>6 DEF Abort, CommitEnd, Goto, TypeOK
<1>7. ASSUME NEW w \in Writers, CommitOverflowed(w) \/ CommitRefused(w) PROVE WriterInv'
  BY <1>1, <1>2, <1>7 DEF CommitOverflowed, CommitRefused, Goto, TypeOK
<1>8. ASSUME NEW w \in Writers, CommitBegin(w) \/ Install(w) PROVE WriterInv'
  <2>1. /\ UNCHANGED <<inflight, wkey, buffered, reserved, want, seen>>
        /\ st[w] # "idle" /\ (Goto(w, "sweep") \/ Goto(w, "release"))
    BY <1>8 DEF CommitBegin, Install
  <2> QED BY <1>1, <1>2, <2>1 DEF Goto, TypeOK
<1>9. ASSUME NEW w \in Writers, ReserveLoad(w) PROVE WriterInv'
  <2>1. UNCHANGED wkey /\ st[w] = "load"
    BY <1>9 DEF ReserveLoad
  <2>2. CASE DropBuffer(w) /\ Return(w)
    <3>1. Release(w) /\ Return(w)
      BY <2>2 DEF DropBuffer
    <3> QED BY <1>1, <1>4, <2>1, <3>1 DEF Return, Goto, TypeOK
  <2>3. CASE /\ inflight + Delta(w) <= InflightBudget
             /\ seen' = [seen EXCEPT ![w] = inflight] /\ Goto(w, "swap")
             /\ UNCHANGED <<inflight, buffered, reserved, overflow, want>>
    <3>1. Delta(w) = want[w]
      BY SMT, <1>1 DEF Delta, TypeOK, WriterInv
    <3>2. seen'[w] + want'[w] <= InflightBudget
      BY <1>1, <2>3, <3>1 DEF TypeOK
    <3> QED BY <1>1, <2>1, <2>3, <3>2 DEF Goto, TypeOK, WriterInv, InflightAccounted
  <2> QED BY <1>9, <2>2, <2>3 DEF ReserveLoad
<1>10. ASSUME NEW w \in Writers, ReserveSwap(w) PROVE WriterInv'
  <2>1. UNCHANGED wkey /\ st[w] = "swap"
    BY <1>10 DEF ReserveSwap
  <2>2. CASE inflight = seen[w] /\ inflight' = seen[w] + Delta(w) /\ Grow(w, want[w]) /\ Return(w)
    <3>1. /\ \A v \in Writers : reserved'[v] = buffered'[v]
          /\ InflightAccounted'
          /\ InflightBudget > 0 => inflight' <= InflightBudget
      BY <1>1, <2>1, <2>2, SwapFacts
    <3> QED BY <1>1, <2>1, <2>2, <3>1 DEF Return, Goto, TypeOK, WriterInv
  <2>3. CASE Goto(w, "load") /\ UNCHANGED <<inflight, buffered, reserved, want, seen>>
    BY <1>1, <2>1, <2>3 DEF Goto, TypeOK, WriterInv, InflightAccounted
  <2> QED BY <1>10, <2>2, <2>3 DEF ReserveSwap
<1>11. ASSUME NEW w \in Writers, Sweep(w) PROVE WriterInv'
  BY <1>1, <1>2, <1>11 DEF Sweep, writerVars
<1>12. ASSUME NEW k \in Keys, Get(k) \/ Delete(k) PROVE WriterInv'
  BY <1>1, <1>2, <1>12 DEF Get, Delete, writerVars
<1>13. ASSUME NEW s \in Shards, Reset(s) PROVE WriterInv'
  BY <1>1, <1>2, <1>13 DEF Reset, writerVars
<1>14. CASE UNCHANGED vars
  BY <1>1, <1>2, <1>14 DEF vars
<1> QED
  BY <1>3, <1>5, <1>6, <1>7, <1>8, <1>9, <1>10, <1>11, <1>12, <1>13, <1>14 DEF Next, Proceed

\* Every step keeps the locks with the commits that are in their sweep.
LEMMA LockStep == IInv /\ [Next]_vars => LockInv'
<1> SUFFICES ASSUME IInv, [Next]_vars PROVE LockInv'
  OBVIOUS
<1> USE RAMAssumptions
<1>1. TypeOK /\ WriterInv /\ LockInv
  BY DEF IInv
<1>15. \A v \in Writers : st[v] = "sweep" =>
        wkey[v] \in Keys /\ locked[ShardOf[wkey[v]]] = v
  BY <1>1 DEF LockInv, WriterInv
<1>16. \A t \in Shards : locked[t] # None =>
        /\ locked[t] \in Writers
        /\ st[locked[t]] = "sweep" /\ ShardOf[wkey[locked[t]]] = t
  BY SMT, <1>1 DEF LockInv, TypeOK
<1>2. ASSUME UNCHANGED locked,
             \A k \in Keys : held'[k] = held[k] \/ held'[k] = None,
             \A w \in Writers : /\ st'[w] = "sweep" <=> st[w] = "sweep"
                                /\ st[w] = "sweep" => /\ wkey'[w] = wkey[w]
                                                      /\ buffered'[w] = buffered[w]
      PROVE  LockInv'
  BY SMT, <1>1, <1>2, <1>15, <1>16 DEF LockInv
<1>3. ASSUME NEW w \in Writers, NEW k \in Keys, Open(w, k) PROVE LockInv'
  BY <1>1, <1>2, <1>3 DEF Open, Goto, TypeOK, shardVars
<1>4. ASSUME NEW w \in Writers, st[w] # "sweep", st'[w] # "sweep",
             UNCHANGED <<held, locked, wkey>>,
             \A v \in Writers \ {w} : st'[v] = st[v] /\ buffered'[v] = buffered[v]
      PROVE  LockInv'
  BY <1>1, <1>2, <1>4
<1>5. ASSUME NEW w \in Writers, NEW n \in Chunks, Write(w, n) PROVE LockInv'
  <2>1. UNCHANGED <<held, locked, wkey>> /\ st[w] = "open"
    BY <1>5 DEF Write, shardVars
  <2>2. \A v \in Writers \ {w} : buffered'[v] = buffered[v]
    BY <1>1, <1>5 DEF Write, DropBuffer, Release, Grow, TypeOK
  <2>3. st'[w] # "sweep" /\ \A v \in Writers \ {w} : st'[v] = st[v]
    BY <1>1, <1>5 DEF Write, Goto, TypeOK
  <2> QED BY <1>4, <2>1, <2>2, <2>3
<1>6. ASSUME NEW w \in Writers, Abort(w) \/ CommitEnd(w) PROVE LockInv'
  BY <1>1, <1>4, <1>6 DEF Abort, CommitEnd, Release, Goto, TypeOK, shardVars
<1>7. ASSUME NEW w \in Writers, CommitOverflowed(w) \/ CommitRefused(w) PROVE LockInv'
  BY <1>1, <1>4, <1>7 DEF CommitOverflowed, CommitRefused, Goto, TypeOK, shardVars
<1>8. ASSUME NEW w \in Writers, ReserveLoad(w) \/ ReserveSwap(w) PROVE LockInv'
  <2>1. UNCHANGED <<held, locked, wkey>> /\ st[w] \in {"load", "swap"}
    BY <1>8 DEF ReserveLoad, ReserveSwap, shardVars
  <2>2. \A v \in Writers \ {w} : buffered'[v] = buffered[v]
    BY <1>1, <1>8 DEF ReserveLoad, ReserveSwap, DropBuffer, Release, Grow, TypeOK
  <2>3. st'[w] # "sweep" /\ \A v \in Writers \ {w} : st'[v] = st[v]
    BY <1>1, <1>8 DEF ReserveLoad, ReserveSwap, Return, Goto, TypeOK
  <2> QED BY <1>4, <2>1, <2>2, <2>3
<1>9. ASSUME NEW w \in Writers, CommitBegin(w) PROVE LockInv'
  <2>1. PICK k \in Keys, s \in Shards : wkey[w] = k /\ ShardOf[k] = s
    BY <1>1, <1>9 DEF TypeOK, WriterInv, CommitBegin
  <2>2. /\ locked[s] = None /\ buffered[w] <= Cap[s] /\ st[w] = "open"
        /\ locked' = [locked EXCEPT ![s] = w]
        /\ st' = [st EXCEPT ![w] = "sweep"]
        /\ UNCHANGED <<wkey, buffered>>
    BY <1>9, <2>1 DEF CommitBegin, Unlocked, Goto
  <2>3. held'[k] = None /\ \A j \in Keys : held'[j] = held[j] \/ held'[j] = None
    BY <1>1, <1>9, <2>1 DEF CommitBegin, Unlink, TypeOK
  <2>4. \A v \in Writers : st[v] = "sweep" => wkey[v] \in Keys /\ ShardOf[wkey[v]] # s
    BY <1>15, <2>2
  <2>5. \A v \in Writers : st'[v] = "sweep" =>
          /\ locked'[ShardOf[wkey'[v]]] = v
          /\ held'[wkey'[v]] = None
          /\ buffered'[v] <= Cap[ShardOf[wkey'[v]]]
    BY SMTT(20), <1>1, <2>1, <2>2, <2>3, <2>4 DEF LockInv, TypeOK
  <2>6. \A t \in Shards : locked'[t] # None =>
          st'[locked'[t]] = "sweep" /\ ShardOf[wkey'[locked'[t]]] = t
    <3> SUFFICES ASSUME NEW t \in Shards, locked'[t] # None
                 PROVE  st'[locked'[t]] = "sweep" /\ ShardOf[wkey'[locked'[t]]] = t
      OBVIOUS
    <3>1. CASE t = s
      BY <1>1, <2>1, <2>2, <3>1 DEF TypeOK
    <3>2. CASE t # s
      <4>1. locked'[t] = locked[t]
        BY <1>1, <2>2, <3>2 DEF TypeOK
      <4>2. /\ locked[t] \in Writers /\ st[locked[t]] = "sweep"
            /\ ShardOf[wkey[locked[t]]] = t /\ locked[t] # w
        BY <1>16, <2>2, <4>1
      <4> QED BY <1>1, <2>2, <4>1, <4>2 DEF TypeOK
    <3> QED BY <3>1, <3>2
  <2> QED BY <2>5, <2>6 DEF LockInv
<1>10. ASSUME NEW w \in Writers, Install(w) PROVE LockInv'
  <2>1. PICK k \in Keys, s \in Shards : wkey[w] = k /\ ShardOf[k] = s
    BY <1>1, <1>10 DEF TypeOK, WriterInv, Install
  <2>2. /\ st[w] = "sweep"
        /\ locked' = [locked EXCEPT ![s] = None]
        /\ st' = [st EXCEPT ![w] = "release"]
        /\ held' = [held EXCEPT ![k] = w]
        /\ UNCHANGED <<wkey, buffered>>
    BY <1>10, <2>1 DEF Install, Goto
  <2>3. \A v \in Writers \ {w} : st[v] = "sweep" =>
          wkey[v] \in Keys /\ ShardOf[wkey[v]] # s /\ wkey[v] # k
    BY <1>15, <2>1, <2>2
  <2>4. \A v \in Writers : st'[v] = "sweep" =>
          /\ locked'[ShardOf[wkey'[v]]] = v
          /\ held'[wkey'[v]] = None
          /\ buffered'[v] <= Cap[ShardOf[wkey'[v]]]
    BY <1>1, <2>1, <2>2, <2>3 DEF LockInv, TypeOK
  <2>5. \A t \in Shards : locked'[t] # None =>
          st'[locked'[t]] = "sweep" /\ ShardOf[wkey'[locked'[t]]] = t
    <3> SUFFICES ASSUME NEW t \in Shards, locked'[t] # None
                 PROVE  st'[locked'[t]] = "sweep" /\ ShardOf[wkey'[locked'[t]]] = t
      OBVIOUS
    <3>1. t # s /\ locked'[t] = locked[t]
      BY <1>1, <2>2 DEF TypeOK
    <3>2. locked[t] \in Writers /\ st[locked[t]] = "sweep" /\ ShardOf[wkey[locked[t]]] = t
      BY <1>16, <3>1
    <3>3. locked[t] # w
      BY <2>1, <3>1, <3>2
    <3> QED BY <1>1, <2>2, <3>1, <3>2, <3>3 DEF TypeOK
  <2> QED BY <2>4, <2>5 DEF LockInv
<1>11. ASSUME NEW w \in Writers, Sweep(w) PROVE LockInv'
  <2>1. UNCHANGED <<locked, writerVars>>
    BY <1>11 DEF Sweep
  <2>2. \A k \in Keys : held'[k] = held[k] \/ held'[k] = None
    BY <1>1, <1>11 DEF Sweep, Unlink, TypeOK
  <2> QED BY <1>2, <2>1, <2>2 DEF writerVars
<1>12. ASSUME NEW k \in Keys, Get(k) \/ Delete(k) PROVE LockInv'
  <2>1. UNCHANGED <<locked, writerVars>>
    BY <1>12 DEF Get, Delete
  <2>2. \A j \in Keys : held'[j] = held[j] \/ held'[j] = None
    BY <1>1, <1>12 DEF Get, Delete, Unlink, TypeOK
  <2> QED BY <1>2, <2>1, <2>2 DEF writerVars
<1>13. ASSUME NEW s \in Shards, Reset(s) PROVE LockInv'
  <2>1. UNCHANGED <<locked, writerVars>>
    BY <1>13 DEF Reset
  <2>2. \A k \in Keys : held'[k] = held[k] \/ held'[k] = None
    BY <1>1, <1>13 DEF Reset, TypeOK
  <2> QED BY <1>2, <2>1, <2>2 DEF writerVars
<1>14. CASE UNCHANGED vars
  BY <1>1, <1>2, <1>14 DEF vars
<1> QED
  BY <1>3, <1>5, <1>6, <1>7, <1>8, <1>9, <1>10, <1>11, <1>12, <1>13, <1>14 DEF Next, Proceed

\* Every step keeps each shard's ring, entries and byte count in step, and the
\* shard within its cap.
LEMMA ShardStep == IInv /\ [Next]_vars => ShardInv'
<1> SUFFICES ASSUME IInv, [Next]_vars PROVE ShardInv'
  OBVIOUS
<1> USE RAMAssumptions
<1>1. TypeOK /\ WriterInv /\ LockInv /\ ShardInv
  BY DEF IInv
<1>2. ASSUME UNCHANGED <<held, size, ring, curBytes, atomicBytes, locked>>
      PROVE  ShardInv'
  BY <1>1, <1>2
  DEF ShardInv, RingMatchesItems, BytesAccounted, WithinCap, Resident, Unlocked
<1>3. ASSUME NEW s \in Shards, NEW k \in Resident(s), Unlink(s, k),
             \A t \in Shards \ {s} : locked'[t] = locked[t] /\ atomicBytes'[t] = atomicBytes[t],
             Unlocked(s)' => atomicBytes'[s] = curBytes'[s]
      PROVE  ShardInv'
  <2>1. /\ RingMatchesItems'
        /\ \A t \in Shards : curBytes'[t] = Bytes(Resident(t)', size')
        /\ \A t \in Shards \ {s} : curBytes'[t] = curBytes[t] /\ Resident(t)' = Resident(t)
        /\ Resident(s)' = Resident(s) \ {k}
        /\ curBytes'[s] <= curBytes[s]
        /\ curBytes' \in [Shards -> Int]
    BY <1>1, <1>3, UnlinkFacts
  <2>2. \A t \in Shards : Unlocked(t)' => atomicBytes'[t] = curBytes'[t]
    BY <1>1, <1>3, <2>1 DEF ShardInv, BytesAccounted, Unlocked
  <2>3. curBytes'[s] <= Cap[s]
    <3>1. curBytes[s] <= Cap[s]
      BY <1>1, <1>3 DEF ShardInv, WithinCap
    <3>2. curBytes[s] \in Int /\ curBytes'[s] \in Int /\ Cap[s] \in Int
      BY <1>1, <2>1 DEF TypeOK
    <3> QED BY SMT, <2>1, <3>1, <3>2
  <2>4. WithinCap'
    BY <1>1, <2>1, <2>3 DEF ShardInv, WithinCap
  <2> QED BY <2>1, <2>2, <2>4 DEF ShardInv, BytesAccounted
<1>4. ASSUME NEW w \in Writers, NEW k \in Keys, Open(w, k) PROVE ShardInv'
  BY <1>2, <1>4 DEF Open, shardVars
<1>5. ASSUME NEW w \in Writers, NEW n \in Chunks, Write(w, n) PROVE ShardInv'
  BY <1>2, <1>5 DEF Write, shardVars
<1>6. ASSUME NEW w \in Writers,
             \/ Abort(w) \/ CommitOverflowed(w) \/ CommitRefused(w)
             \/ ReserveLoad(w) \/ ReserveSwap(w) \/ CommitEnd(w)
      PROVE  ShardInv'
  BY <1>2, <1>6
  DEF Abort, CommitOverflowed, CommitRefused, ReserveLoad, ReserveSwap, CommitEnd, shardVars
<1>7. ASSUME NEW w \in Writers, CommitBegin(w) PROVE ShardInv'
  <2>1. PICK k \in Keys, s \in Shards : wkey[w] = k /\ ShardOf[k] = s
    BY <1>1, <1>7 DEF TypeOK, WriterInv, CommitBegin
  <2>2. locked' = [locked EXCEPT ![s] = w] /\ UNCHANGED atomicBytes /\ w # None
    BY <1>7, <2>1 DEF CommitBegin
  <2>3. ~Unlocked(s)' /\ \A t \in Shards \ {s} : locked'[t] = locked[t]
    BY <1>1, <2>2 DEF Unlocked, TypeOK
  <2>4. CASE held[k] # None /\ Unlink(s, k)
    <3>1. k \in Resident(s)
      BY <2>1, <2>4 DEF Resident
    <3> QED BY <1>3, <2>2, <2>3, <2>4, <3>1
  <2>5. CASE UNCHANGED <<held, size, ref, ring, curBytes>>
    BY SMT, <1>1, <2>2, <2>3, <2>5
    DEF ShardInv, RingMatchesItems, BytesAccounted, WithinCap, Resident, Unlocked
  <2> QED BY <1>7, <2>1, <2>4, <2>5 DEF CommitBegin
<1>8. ASSUME NEW w \in Writers, Sweep(w) PROVE ShardInv'
  <2>1. PICK s \in Shards : s = ShardOf[wkey[w]]
    BY <1>1, <1>8 DEF TypeOK, WriterInv, Sweep
  <2>2. /\ ring[s] \in Seq(Keys) /\ ring[s] # <<>>
        /\ Distinct(ring[s]) /\ Entries(ring[s]) = Resident(s)
    BY <1>1, <1>8, <2>1 DEF TypeOK, ShardInv, RingMatchesItems, Sweep
  <2>3. PICK k \in Keys : k = Back(ring[s]) /\ k \in Resident(s)
    BY SMT, <2>2, BackFacts
  <2>4. UNCHANGED <<atomicBytes, locked>> /\ ~Unlocked(s)'
    BY <1>1, <1>8, <2>1 DEF Sweep, LockInv, Unlocked
  <2>5. CASE /\ ring' = [ring EXCEPT ![s] = MoveToFront(ring[s], k)]
             /\ UNCHANGED <<held, size, curBytes>>
    <3>1. /\ Entries(MoveToFront(ring[s], k)) = Entries(ring[s])
          /\ Distinct(MoveToFront(ring[s], k))
      BY <2>2, <2>3, MoveToFrontFacts
    <3>2. \A t \in Shards : Resident(t)' = Resident(t)
      BY <2>5 DEF Resident
    <3>3. RingMatchesItems'
      BY <1>1, <2>5, <3>1, <3>2 DEF ShardInv, RingMatchesItems, TypeOK
    <3> QED BY <1>1, <2>4, <2>5, <3>2, <3>3 DEF ShardInv, BytesAccounted, WithinCap, Unlocked
  <2>6. CASE Unlink(s, k)
    BY <1>3, <2>3, <2>4, <2>6
  <2> QED BY <1>8, <2>1, <2>3, <2>5, <2>6 DEF Sweep
<1>9. ASSUME NEW w \in Writers, Install(w) PROVE ShardInv'
  BY <1>1, <1>9, InstallFacts
<1>10. ASSUME NEW k \in Keys, Get(k) PROVE ShardInv'
  BY <1>2, <1>10 DEF Get
<1>11. ASSUME NEW k \in Keys, Delete(k) PROVE ShardInv'
  <2>1. PICK s \in Shards : s = ShardOf[k] /\ k \in Resident(s)
    BY <1>11 DEF Delete, Resident
  <2>2. /\ Unlink(s, k) /\ UNCHANGED locked
        /\ atomicBytes' = [atomicBytes EXCEPT ![s] = curBytes[s] - size[k]]
    BY <1>11, <2>1 DEF Delete
  <2>3. curBytes' = [curBytes EXCEPT ![s] = curBytes[s] - size[k]]
    BY <2>2 DEF Unlink
  <2>4. /\ atomicBytes'[s] = curBytes'[s]
        /\ \A t \in Shards \ {s} : atomicBytes'[t] = atomicBytes[t]
    BY <1>1, <2>2, <2>3 DEF TypeOK
  <2> QED BY <1>3, <2>1, <2>2, <2>4
<1>12. ASSUME NEW s \in Shards, Reset(s) PROVE ShardInv'
  <2>1. /\ Resident(s)' = {}
        /\ \A t \in Shards \ {s} : Resident(t)' = Resident(t)
    BY <1>1, <1>12 DEF Reset, Resident, TypeOK
  <2>2. /\ ring'[s] = <<>> /\ curBytes'[s] = 0 /\ atomicBytes'[s] = 0
        /\ \A t \in Shards \ {s} : /\ ring'[t] = ring[t] /\ curBytes'[t] = curBytes[t]
                                   /\ atomicBytes'[t] = atomicBytes[t]
        /\ UNCHANGED locked
    BY <1>1, <1>12 DEF Reset, TypeOK
  <2>3. Entries(<<>>) = {} /\ Distinct(<<>>)
    BY SMT DEF Entries, Distinct
  <2>4. RingMatchesItems'
    BY <1>1, <2>1, <2>2, <2>3 DEF ShardInv, RingMatchesItems
  <2>5. WithinCap'
    BY <1>1, <2>1, <2>2 DEF ShardInv, WithinCap
  <2>6. ASSUME NEW t \in Shards PROVE curBytes'[t] = Bytes(Resident(t)', size')
    <3>1. CASE t = s
      BY <2>1, <2>2, <3>1, BytesEmpty
    <3>2. CASE t # s
      <4>1. \A x \in Resident(t) : size'[x] = size[x]
        BY <1>1, <1>12, <3>2 DEF Reset, Resident, TypeOK
      <4>2. Bytes(Resident(t), size') = Bytes(Resident(t), size)
        BY <4>1, BytesSame
      <4> QED BY <1>1, <2>1, <2>2, <3>2, <4>2 DEF ShardInv, BytesAccounted
    <3> QED BY <3>1, <3>2
  <2>7. \A t \in Shards : Unlocked(t)' => atomicBytes'[t] = curBytes'[t]
    BY <1>1, <2>2 DEF ShardInv, BytesAccounted, Unlocked
  <2> QED BY <2>4, <2>5, <2>6, <2>7 DEF ShardInv, BytesAccounted
<1>13. CASE UNCHANGED vars
  BY <1>2, <1>13 DEF vars
<1> QED
  BY <1>4, <1>5, <1>6, <1>7, <1>8, <1>9, <1>10, <1>11, <1>12, <1>13 DEF Next, Proceed
-----------------------------------------------------------------------------
\* NewRAMTier establishes the invariant.
LEMMA InitIInv == Init => IInv
<1> SUFFICES ASSUME Init PROVE IInv
  OBVIOUS
<1> USE RAMAssumptions
<1>1. TypeOK
  BY SMT DEF Init, TypeOK, WriterStates
<1>2. WriterInv
  <2>1. Bytes(Writers, reserved) = 0
    BY BytesZero DEF Init
  <2> QED BY SMT, <2>1 DEF Init, WriterInv, InflightAccounted
<1>3. LockInv
  BY DEF Init, LockInv
<1>4. \A s \in Shards : Resident(s) = {}
  BY DEF Init, Resident
<1>5. RingMatchesItems
  BY SMT, <1>4 DEF Init, RingMatchesItems, Entries, Distinct
<1>6. BytesAccounted
  BY <1>4, BytesEmpty DEF Init, BytesAccounted
<1>7. WithinCap
  BY <1>4 DEF WithinCap
<1> QED BY <1>1, <1>2, <1>3, <1>5, <1>6, <1>7 DEF IInv, ShardInv

\* The inductive invariant: types, exact charges, locks held only by sweeping
\* commits, and shards whose ring, entries and counters agree.
THEOREM Invariance == Spec => []IInv
<1>1. IInv /\ [Next]_vars => IInv'
  BY TypeStep, WriterStep, LockStep, ShardStep DEF IInv
<1> QED BY InitIInv, <1>1, PTL DEF Spec

\* Every reachable state of the tier is well typed; in particular no buffer and
\* no charge is ever negative.
THEOREM TypeCorrect == Spec => []TypeOK
<1>1. IInv => TypeOK
  BY DEF IInv
<1> QED BY Invariance, <1>1, PTL

\* However many writers race in reserve, the in-flight total and the bytes they
\* really buffer stay within the budget (the B2 guard of ram.go).
THEOREM BudgetSafe == Spec => []BudgetRespected
<1>1. IInv => BudgetRespected
  <2> SUFFICES ASSUME IInv, InflightBudget > 0
               PROVE  inflight <= InflightBudget /\ Bytes(Active, buffered) <= InflightBudget
    BY DEF BudgetRespected
  <2> USE RAMAssumptions
  <2>1. inflight <= InflightBudget /\ inflight = Bytes(Writers, reserved) /\ inflight \in Int
    BY DEF IInv, TypeOK, WriterInv, InflightAccounted
  <2>2. \A w \in Writers : buffered[w] \in Nat /\ reserved[w] = buffered[w]
    BY DEF IInv, TypeOK, WriterInv
  <2>3. Bytes(Writers, reserved) = Bytes(Writers, buffered)
    BY <2>2, BytesSame
  <2>4. Active \subseteq Writers /\ IsFiniteSet(Active)
    <3>1. Active \subseteq Writers
      BY DEF Active
    <3> QED BY <3>1, FinitePart
  <2>5. Bytes(Active, buffered) <= Bytes(Writers, buffered)
    BY <2>2, <2>4, BytesSubset
  <2>6. Bytes(Active, buffered) \in Nat
    BY <2>2, <2>4, ByteSetFinite
  <2> QED BY SMT, <2>1, <2>3, <2>5, <2>6
<1> QED BY Invariance, <1>1, PTL

\* The in-flight counter is always the sum of what live writers have charged:
\* no byte is handed back twice and none stays charged by a finished writer.
THEOREM InflightExact == Spec => []InflightAccounted
<1>1. IInv => InflightAccounted
  BY DEF IInv, WriterInv
<1> QED BY Invariance, <1>1, PTL

\* Every shard's byte counter and its lock-free mirror are exact.
THEOREM BytesExact == Spec => []BytesAccounted
<1>1. IInv => BytesAccounted
  BY DEF IInv, ShardInv
<1> QED BY Invariance, <1>1, PTL

\* The tier never holds more bytes in a shard than the shard's cap.
THEOREM ByteBounded == Spec => []WithinCap
<1>1. IInv => WithinCap
  BY DEF IInv, ShardInv
<1> QED BY Invariance, <1>1, PTL

\* The eviction ring and the map of every shard list the same keys.
THEOREM RingExact == Spec => []RingMatchesItems
<1>1. IInv => RingMatchesItems
  BY DEF IInv, ShardInv
<1> QED BY Invariance, <1>1, PTL

\* The store the server relies on: budget, charges, bytes, caps and ring together,
\* at every point of every interleaving of writers, lookups, deletes and resets.
THEOREM TierSoundTheorem == Spec => []TierSound
<1>1. TypeOK /\ BudgetRespected /\ InflightAccounted /\ BytesAccounted /\ WithinCap /\ RingMatchesItems
        => TierSound
  BY DEF TierSound
<1> QED
  BY <1>1, TypeCorrect, BudgetSafe, InflightExact, BytesExact, ByteBounded, RingExact, PTL
-----------------------------------------------------------------------------
\* The tier implements the abstract tier: a commit installs its object exactly
\* once, a refused or aborted write disturbs nothing, and every other change is
\* the loss of entries.
THEOREM Refinement == Spec => ImplementsTier
<1> USE RAMAssumptions
<1> DEFINE Unborn == {w \in Writers : st[w] \notin {"release", "done"}}
<1>1. Init => Abstract!Init
  BY DEF Init, Abstract!Init
<1>2. IInv /\ [Next]_vars => [Abstract!Next]_(Abstract!vars)
  <2> SUFFICES ASSUME IInv, [Next]_vars PROVE Abstract!Next \/ UNCHANGED <<held, Unborn>>
    BY DEF Abstract!vars
  <2>1. TypeOK /\ WriterInv /\ ShardInv
    BY DEF IInv
  <2>2. ASSUME NEW w \in Writers, w \in Unborn, UNCHANGED held,
               st' = [st EXCEPT ![w] = "release"] \/ st' = [st EXCEPT ![w] = "done"]
        PROVE  Abstract!Next
    <3>1. Unborn' = Unborn \ {w}
      BY <2>1, <2>2 DEF TypeOK
    <3>2. Abstract!Discard(w)
      BY <2>2, <3>1 DEF Abstract!Discard
    <3> QED BY <3>2 DEF Abstract!Next
  <2>3. ASSUME NEW S, S \subseteq Keys, UNCHANGED Unborn,
               held' = [k \in Keys |-> IF k \in S THEN None ELSE held[k]]
        PROVE  Abstract!Next
    <3>1. Abstract!Drop(S)
      BY <2>3 DEF Abstract!Drop
    <3> QED BY <2>3, <3>1 DEF Abstract!Next
  <2>4. ASSUME NEW k \in Keys, NEW s \in Shards, Unlink(s, k), UNCHANGED Unborn
        PROVE  Abstract!Next
    <3>1. held' = [j \in Keys |-> IF j \in {k} THEN None ELSE held[j]]
      BY <2>1, <2>4 DEF Unlink, TypeOK
    <3>2. {k} \subseteq Keys
      OBVIOUS
    <3> HIDE DEF Unborn
    <3> QED BY <2>3, <2>4, <3>1, <3>2
  <2>5. ASSUME NEW w \in Writers, NEW k \in Keys, Open(w, k)
        PROVE  UNCHANGED <<held, Unborn>>
    BY <2>1, <2>5 DEF Open, Goto, TypeOK, shardVars
  <2>6. ASSUME NEW w \in Writers, NEW n \in Chunks, Write(w, n)
        PROVE  UNCHANGED <<held, Unborn>>
    <3>1. UNCHANGED held
      BY <2>6 DEF Write, shardVars
    <3>2. st[w] = "open" /\ (st' = st \/ st' = [st EXCEPT ![w] = "load"])
      BY <2>6 DEF Write, Goto
    <3> QED BY <2>1, <3>1, <3>2 DEF TypeOK
  <2>7. ASSUME NEW w \in Writers, Abort(w) \/ CommitOverflowed(w) \/ CommitRefused(w)
        PROVE  Abstract!Next
    BY <2>2, <2>7 DEF Abort, CommitOverflowed, CommitRefused, Goto, shardVars
  <2>8. ASSUME NEW w \in Writers, CommitBegin(w)
        PROVE  Abstract!Next \/ UNCHANGED <<held, Unborn>>
    <3>1. PICK k \in Keys, s \in Shards : wkey[w] = k /\ ShardOf[k] = s
      BY <2>1, <2>8 DEF TypeOK, WriterInv, CommitBegin
    <3>2. st[w] = "open" /\ st' = [st EXCEPT ![w] = "sweep"]
      BY <2>8 DEF CommitBegin, Goto
    <3>3. UNCHANGED Unborn
      BY <2>1, <3>2 DEF TypeOK
    <3>4. Unlink(s, k) \/ UNCHANGED held
      BY <2>8, <3>1 DEF CommitBegin
    <3> QED BY <2>4, <3>3, <3>4
  <2>9. ASSUME NEW w \in Writers, ReserveLoad(w) \/ ReserveSwap(w)
        PROVE  UNCHANGED <<held, Unborn>>
    <3>1. UNCHANGED held
      BY <2>9 DEF ReserveLoad, ReserveSwap, shardVars
    <3>2. /\ st[w] \in {"load", "swap"}
          /\ \E x \in {"open", "load", "swap"} : st' = [st EXCEPT ![w] = x]
      BY <2>9 DEF ReserveLoad, ReserveSwap, Return, Goto
    <3> QED BY <2>1, <3>1, <3>2 DEF TypeOK
  <2>10. ASSUME NEW w \in Writers, Sweep(w)
         PROVE  Abstract!Next \/ UNCHANGED <<held, Unborn>>
    <3>1. PICK s \in Shards : s = ShardOf[wkey[w]]
      BY <2>1, <2>10 DEF TypeOK, WriterInv, Sweep
    <3>2. ring[s] \in Seq(Keys) /\ ring[s] # <<>>
      BY <2>1, <2>10, <3>1 DEF TypeOK, Sweep
    <3>3. PICK k \in Keys : k = Back(ring[s])
      BY <3>2, BackFacts
    <3>4. UNCHANGED st /\ (Unlink(s, k) \/ UNCHANGED held)
      BY <2>10, <3>1, <3>3 DEF Sweep, writerVars
    <3> QED BY <2>4, <3>4
  <2>11. ASSUME NEW w \in Writers, Install(w) PROVE Abstract!Next
    <3>1. PICK k \in Keys : wkey[w] = k
      BY <2>1, <2>11 DEF TypeOK, WriterInv, Install
    <3>2. /\ held' = [held EXCEPT ![k] = w]
          /\ st[w] = "sweep" /\ st' = [st EXCEPT ![w] = "release"]
      BY <2>11, <3>1 DEF Install, Goto
    <3>3. w \in Unborn /\ Unborn' = Unborn \ {w}
      BY <2>1, <3>2 DEF TypeOK
    <3>4. Abstract!Install(k, w)
      BY <3>2, <3>3 DEF Abstract!Install
    <3> QED BY <3>4 DEF Abstract!Next
  <2>12. ASSUME NEW w \in Writers, CommitEnd(w) PROVE UNCHANGED <<held, Unborn>>
    BY <2>1, <2>12 DEF CommitEnd, Goto, TypeOK, shardVars
  <2>13. ASSUME NEW k \in Keys, Get(k) PROVE UNCHANGED <<held, Unborn>>
    BY <2>13 DEF Get, writerVars
  <2>14. ASSUME NEW k \in Keys, Delete(k) PROVE Abstract!Next
    <3>1. ShardOf[k] \in Shards /\ Unlink(ShardOf[k], k) /\ UNCHANGED st
      BY <2>14 DEF Delete, writerVars
    <3> QED BY <2>4, <3>1
  <2>15. ASSUME NEW s \in Shards, Reset(s) PROVE Abstract!Next
    <3> DEFINE S == {k \in Keys : ShardOf[k] = s}
    <3>1. S \subseteq Keys /\ UNCHANGED Unborn
      BY <2>15 DEF Reset, writerVars
    <3>2. held' = [k \in Keys |-> IF k \in S THEN None ELSE held[k]]
      BY <2>15 DEF Reset
    <3> HIDE DEF S, Unborn
    <3> QED BY <2>3, <3>1, <3>2
  <2>16. CASE UNCHANGED vars
    BY <2>16 DEF vars
  <2> QED
    BY <2>5, <2>6, <2>7, <2>8, <2>9, <2>10, <2>11, <2>12, <2>13, <2>14, <2>15, <2>16
    DEF Next, Proceed
<1> QED BY Invariance, <1>1, <1>2, PTL DEF Spec, ImplementsTier, Abstract!Spec
=============================================================================
