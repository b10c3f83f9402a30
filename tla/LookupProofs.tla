---------------------------- MODULE LookupProofs ----------------------------
(* What a lookup rests on: the two single-flights of Coalesce, for any finite *)
(* set of requests, any keys and any cap on background revalidations, and the *)
(* freshness index of Freshness, for any number of calls, keys, windows and   *)
(* bans.                                                                      *)
EXTENDS Coalesce, Freshness, FiniteSetTheorems, TLAPS

\* The steps are propositional and about sets and functions; those with arithmetic
\* cite SMT.
USE ZenonT(90)
-----------------------------------------------------------------------------
(* The two single-flights.                                                    *)

\* The four invariants are inductive together: the map tells a waiter who its
\* winner is, and the stages tell how many tokens are out.
FlightInv == CoalesceTypeOK /\ CallsAreFetches /\ WaitersHaveAWinner /\ BackgroundBalanced

\* A new handler satisfies it.
LEMMA FlightInit == CoalesceInit => FlightInv
<1> SUFFICES ASSUME CoalesceInit PROVE FlightInv
  OBVIOUS
<1> USE CoalesceAssumptions DEF CoalesceAssumptions
<1>1. CoalesceTypeOK
  BY SMT DEF CoalesceInit, CoalesceTypeOK, Roles, Stages
<1>2. CallsAreFetches /\ WaitersHaveAWinner
  BY DEF CoalesceInit, CallsAreFetches, WaitersHaveAWinner
<1>3. Holding = {} /\ Admitted = {}
  BY DEF CoalesceInit, Holding, Admitted
<1>4. BackgroundBalanced
  BY SMTT(30), <1>3, FS_EmptySet DEF CoalesceInit, BackgroundBalanced
<1> QED  BY <1>1, <1>2, <1>4 DEF FlightInv

\* The foreground invariants survive every step of the foreground protocol.
LEMMA FetchStep ==
    ASSUME FlightInv, NEW r \in Requests,
           Enter(r) \/ (\E ok \in BOOLEAN : Unregister(r, ok)) \/ Close(r) \/ Wake(r)
             \/ Cancel(r) \/ FallThrough(r) \/ Leave(r)
    PROVE  CoalesceTypeOK' /\ CallsAreFetches' /\ WaitersHaveAWinner' /\ UNCHANGED bgVars /\ key' = key
<1> USE CoalesceAssumptions DEF CoalesceAssumptions, FlightInv, CoalesceTypeOK, CallsAreFetches, WaitersHaveAWinner, bgVars, Roles
<1>1. CASE Enter(r)
  <2>1. CASE calls[key[r]] # NoCall
    BY SMT, <1>1, <2>1 DEF Enter
  <2>2. CASE calls[key[r]] = NoCall
    BY SMT, <1>1, <2>2 DEF Enter
  <2> QED  BY <2>1, <2>2
<1>2. ASSUME NEW ok \in BOOLEAN, Unregister(r, ok)
      PROVE  CoalesceTypeOK' /\ CallsAreFetches' /\ WaitersHaveAWinner' /\ UNCHANGED bgVars /\ key' = key
  BY SMT, <1>2 DEF Unregister, Unregistered
<1>3. CASE Close(r)
  BY SMT, <1>3 DEF Close, Closed
<1>4. CASE Wake(r)
  BY SMT, <1>4 DEF Wake
<1>5. CASE Cancel(r)
  BY SMT, <1>5 DEF Cancel
<1>6. CASE FallThrough(r)
  BY SMT, <1>6 DEF FallThrough
<1>7. CASE Leave(r)
  BY SMT, <1>7 DEF Leave
<1> QED  BY SMT, <1>1, <1>2, <1>3, <1>4, <1>5, <1>6, <1>7

\* The tokens taken and the goroutines alive go up and down together.
LEMMA BackgroundStep ==
    ASSUME FlightInv, NEW r \in Requests,
           Begin(r) \/ Admit(r) \/ Revalidated(r) \/ End(r) \/ Release(r)
    PROVE  CoalesceTypeOK' /\ BackgroundBalanced' /\ UNCHANGED fetchVars
<1> USE CoalesceAssumptions DEF CoalesceAssumptions
<1>0. IsFiniteSet(Admitted) /\ Admitted \subseteq Requests
  BY FS_Subset DEF Admitted
<1>t. UNCHANGED fetchVars
  BY DEF Begin, Admit, Revalidated, End, Release
<1>k. /\ key \in [Requests -> FetchKeys] /\ key' = key
      /\ bg \in [Requests -> Stages] /\ inFlight \in SUBSET FetchKeys /\ sem \in 0..BgCap
  BY <1>t DEF fetchVars, FlightInv, CoalesceTypeOK
<1>b. /\ inFlight = {key[q] : q \in Holding}
      /\ \A p, q \in Holding : key[p] = key[q] => p = q
      /\ sem = Cardinality(Admitted)
  BY DEF FlightInv, BackgroundBalanced
<1>1. CASE Begin(r)
  <2>1. Admitted' = Admitted /\ sem' = sem
    BY <1>1, <1>k DEF Begin, Admitted, Stages
  <2>2. CASE key[r] \in inFlight
    <3>1. Holding' = Holding /\ inFlight' = inFlight
      BY <1>1, <2>2, <1>k DEF Begin, Holding, Stages
    <3>2. bg' \in [Requests -> Stages]
      BY <1>1, <2>2, <1>k DEF Begin, Stages
    <3> QED  BY SMT, <3>1, <3>2, <2>1, <1>k, <1>b, <1>t DEF CoalesceTypeOK, BackgroundBalanced, fetchVars, FlightInv
  <2>3. CASE key[r] \notin inFlight
    <3>1. Holding' = Holding \cup {r} /\ inFlight' = inFlight \cup {key[r]}
      BY <1>1, <2>3, <1>k DEF Begin, Holding, Stages
    <3>2. bg' \in [Requests -> Stages]
      BY <1>1, <2>3, <1>k DEF Begin, Stages
    <3> QED  BY SMT, <3>1, <3>2, <2>1, <2>3, <1>k, <1>b, <1>t DEF CoalesceTypeOK, BackgroundBalanced, fetchVars, FlightInv
  <2> QED  BY <2>2, <2>3
<1>2. CASE Admit(r)
  <2>1. Holding' = Holding /\ inFlight' = inFlight /\ bg' \in [Requests -> Stages]
    BY <1>2, <1>k DEF Admit, Holding, Stages
  <2>2. CASE sem < BgCap
    <3>1. Admitted' = Admitted \cup {r} /\ r \notin Admitted /\ sem' = sem + 1
      BY <1>2, <2>2, <1>k DEF Admit, Admitted, Stages, SlotLimit
    <3>2. Cardinality(Admitted') = Cardinality(Admitted) + 1
      BY <3>1, <1>0, FS_AddElement
    <3> QED  BY SMT, <3>1, <3>2, <2>1, <2>2, <1>k, <1>b, <1>t DEF CoalesceTypeOK, BackgroundBalanced, fetchVars, FlightInv
  <2>3. CASE ~(sem < BgCap)
    <3>1. Admitted' = Admitted /\ sem' = sem
      BY <1>2, <2>3, <1>k DEF Admit, Admitted, Stages, SlotLimit
    <3> QED  BY SMT, <3>1, <2>1, <1>k, <1>b, <1>t DEF CoalesceTypeOK, BackgroundBalanced, fetchVars, FlightInv
  <2> QED  BY <2>2, <2>3
<1>3. CASE Revalidated(r)
  <2>1. Holding' = Holding /\ Admitted' = Admitted /\ bg' \in [Requests -> Stages]
        /\ inFlight' = inFlight /\ sem' = sem
    BY <1>3, <1>k DEF Revalidated, Holding, Admitted, Stages
  <2> QED  BY SMT, <2>1, <1>k, <1>b, <1>t DEF CoalesceTypeOK, BackgroundBalanced, fetchVars, FlightInv
<1>4. CASE End(r)
  <2>1. Holding' = Holding \ {r} /\ r \in Holding
    BY <1>4, <1>k DEF End, Holding, Stages
  <2>2. Admitted' = Admitted /\ sem' = sem
    BY <1>4, <1>k DEF End, Admitted, Stages
  <2>3. bg' \in [Requests -> Stages] /\ inFlight' = inFlight \ {key[r]}
    BY <1>4, <1>k DEF End, Ended, Stages
  <2> QED  BY SMT, <2>1, <2>2, <2>3, <1>k, <1>b, <1>t DEF CoalesceTypeOK, BackgroundBalanced, fetchVars, FlightInv
<1>5. CASE Release(r)
  <2>1. Holding' = Holding /\ inFlight' = inFlight /\ bg' \in [Requests -> Stages] /\ sem' = sem - 1
    BY <1>5, <1>k DEF Release, Holding, Stages
  <2>2. Admitted' = Admitted \ {r} /\ r \in Admitted
    BY <1>5, <1>k DEF Release, Admitted, Stages
  <2>3. Cardinality(Admitted') = Cardinality(Admitted) - 1 /\ Cardinality(Admitted') \in Nat
    BY <2>2, <1>0, FS_RemoveElement, FS_CardinalityType, FS_Subset
  <2>4. sem' \in 0..BgCap
    BY SMT, <2>1, <2>3, <1>b, <1>k
  <2> QED  BY SMT, <2>1, <2>3, <2>4, <1>k, <1>b, <1>t DEF CoalesceTypeOK, BackgroundBalanced, fetchVars, FlightInv
<1> QED  BY <1>1, <1>2, <1>3, <1>4, <1>5

\* Every step preserves the invariant; a step of one protocol leaves the other
\* alone.
LEMMA FlightStep == FlightInv /\ [CoalesceNext]_coalescerVars => FlightInv'
<1> SUFFICES ASSUME FlightInv, [CoalesceNext]_coalescerVars PROVE FlightInv'
  OBVIOUS
<1>1. CASE UNCHANGED coalescerVars
  BY SMT, <1>1 DEF coalescerVars, FlightInv, CoalesceTypeOK, CallsAreFetches, WaitersHaveAWinner, BackgroundBalanced, Holding, Admitted
<1>2. ASSUME NEW r \in Requests,
             Enter(r) \/ (\E ok \in BOOLEAN : Unregister(r, ok)) \/ Close(r) \/ Wake(r)
               \/ Cancel(r) \/ FallThrough(r) \/ Leave(r)
      PROVE  FlightInv'
  <2>1. CoalesceTypeOK' /\ CallsAreFetches' /\ WaitersHaveAWinner' /\ UNCHANGED bgVars /\ key' = key
    BY <1>2, FetchStep
  <2>2. Holding' = Holding /\ Admitted' = Admitted
    BY <2>1 DEF bgVars, Holding, Admitted
  <2>3. BackgroundBalanced'
    BY <2>1, <2>2 DEF bgVars, FlightInv, BackgroundBalanced
  <2> QED  BY <2>1, <2>3 DEF FlightInv
<1>3. ASSUME NEW r \in Requests,
             Begin(r) \/ Admit(r) \/ Revalidated(r) \/ End(r) \/ Release(r)
      PROVE  FlightInv'
  <2>1. CoalesceTypeOK' /\ BackgroundBalanced' /\ UNCHANGED fetchVars
    BY <1>3, BackgroundStep
  <2>2. CallsAreFetches' /\ WaitersHaveAWinner'
    BY <2>1 DEF fetchVars, FlightInv, CallsAreFetches, WaitersHaveAWinner
  <2> QED  BY <2>1, <2>2 DEF FlightInv
<1> QED  BY <1>1, <1>2, <1>3 DEF CoalesceNext, FetchOver, Progress

\* The inductive invariant holds throughout.
LEMMA FlightInvariance == CoalesceSpec => []FlightInv
  BY FlightInit, FlightStep, PTL DEF CoalesceSpec

\* A key never has two winners and no entry outlives its winner, panics of the
\* fetch included: what serveMiss's deferred finish is for.
THEOREM CallsAreFetchesTheorem == CoalesceSpec => []CallsAreFetches
<1>1. FlightInv => CallsAreFetches  BY DEF FlightInv
<1> QED  BY <1>1, FlightInvariance, PTL

\* No waiter ever waits on a channel nobody will close.
THEOREM WaitersHaveAWinnerTheorem == CoalesceSpec => []WaitersHaveAWinner
<1>1. FlightInv => WaitersHaveAWinner  BY DEF FlightInv
<1> QED  BY <1>1, FlightInvariance, PTL

\* triggerBgFetch never leaks a key or a token and never exceeds the cap.
THEOREM BackgroundBalancedTheorem == CoalesceSpec => []BackgroundBalanced
<1>1. FlightInv => BackgroundBalanced  BY DEF FlightInv
<1> QED  BY <1>1, FlightInvariance, PTL

\* The single flight as a whole: one winner per key, waiters that will be woken,
\* and a background that holds what its live goroutines hold.
THEOREM SingleFlightTheorem == CoalesceSpec => []SingleFlight
<1>1. FlightInv => SingleFlight  BY DEF FlightInv, SingleFlight
<1> QED  BY <1>1, FlightInvariance, PTL
-----------------------------------------------------------------------------
(* The freshness index.                                                       *)

Running == {"store", "hfm", "observe", "classify", "prune", "staleWithin", "forget", "ban"}

\* A call that runs carries its arguments, and read the clock not long ago.
CallInv ==
    /\ clock \in Nat /\ sweepT \in Nat /\ sweepT <= clock
    /\ pc \in [Calls -> {"idle", "done"} \cup Running]
    /\ DOMAIN arg = Calls /\ t \in [Calls -> Nat]
    /\ DOMAIN answer = Calls
    /\ \A c \in Calls :
         /\ t[c] <= clock
         /\ pc[c] \in Running => clock <= t[c] + MaxStall
         /\ pc[c] = "store" => arg[c].key \in Keys /\ arg[c].win \in Windows
         /\ pc[c] = "hfm" => arg[c].key \in Keys /\ arg[c].win \in HfmWindows
         /\ pc[c] \in {"classify", "prune", "staleWithin", "forget"} => arg[c].key \in Keys
         /\ pc[c] = "observe" => arg[c].win \in Nat
         /\ pc[c] = "ban" => arg[c].keys \in Patterns

\* An entry was written by a call that is past its store; its windows are in order.
EntryInv ==
    /\ entry \in [Keys -> Entry \cup {None}]
    /\ \A k \in Keys : entry[k] # None =>
         /\ pc[entry[k].by] \in {"observe", "done"}
         /\ ~IsHfm(entry[k]) => entry[k].expires <= entry[k].graceUntil
         /\ IsHfm(entry[k]) => entry[k].maxStaleUntil = 0

IInv == CallInv /\ EntryInv

\* There is always room on the list for another ban.
RoomForBans == Cardinality(bans) < MaxBans

\* The instant from which nobody can use an entry any more.
EndOf(e) == e.storedAt + FirstGrace

\* The bans on the list were issued in the past; an entry's windows are within
\* the widest; a call writes one entry; what is doomed is written.
ListInv ==
    /\ IsFiniteSet(bans) /\ maxGrace \in Nat /\ maxGrace >= FirstGrace
    /\ \A b \in bans : b.at \in Nat /\ b.at <= clock
    /\ doomed \subseteq {c \in Calls : pc[c] \in {"observe", "done"}}
    /\ \A k \in Keys : entry[k] # None =>
         /\ entry[k].storedAt <= clock
         /\ entry[k].expires <= EndOf(entry[k]) /\ entry[k].graceUntil <= EndOf(entry[k])
         /\ entry[k].maxStaleUntil <= EndOf(entry[k]) /\ entry[k].hfmUntil <= EndOf(entry[k])
    /\ \A j, k \in Keys : entry[j] # None /\ entry[k] # None /\ entry[j].by = entry[k].by => j = k

\* The heart of the argument: an entry that a finished ban invalidated is still
\* banned, or its windows ended before the clock of any call that runs.
Gone(e) == EndOf(e) + MaxStall <= clock
DoomedInv ==
    \A k \in Keys : entry[k] # None /\ entry[k].by \in doomed => Banned(k, entry[k]) \/ Gone(entry[k])

BanInv == IInv /\ ListInv /\ DoomedInv
-----------------------------------------------------------------------------
\* The combined lookup of any entry at any instant is the pair of calls it
\* replaced (freshness.go classify, classifyPrune, hitForMiss, lookup).
LEMMA CombinedIsPair == \A k, now : Combined(k, now) = Pair(k, now)
<1> TAKE k, now
<1> DEFINE e == entry[k]
<1>1. CASE e = None
  BY <1>1 DEF Combined, Pair, ClassifyShared, HitForMiss, Lookup, Result
<1>2. CASE e # None /\ IsHfm(e)
  BY <1>2 DEF Combined, Pair, ClassifyShared, ClassifyPrune, HitForMiss, Result, Bypass
<1>3. CASE e # None /\ ~IsHfm(e)
  BY <1>3 DEF Combined, Pair, ClassifyShared, ClassifyPrune, HitForMiss, Lookup, Result
<1> QED  BY <1>1, <1>2, <1>3

\* In every state the combined lookup answers what the pair would (classify).
THEOREM ClassifyIsPairTheorem == Spec => []ClassifyIsPair
<1>1. ClassifyIsPair
  BY CombinedIsPair DEF ClassifyIsPair
<1> QED  BY <1>1, PTL

\* Each call takes its one lock, or the sweeper or the clock moves.
LEMMA Steps ==
    ASSUME [Next]_vars
    PROVE  \/ UNCHANGED vars \/ Tick \/ SweepBegin \/ \E s \in Shards : SweepShard(s)
           \/ \E c \in Calls : \/ Call(c) \/ Store(c) \/ SetHitForMiss(c) \/ ObserveWindow(c)
                               \/ Classify(c) \/ Prune(c) \/ Fallback(c) \/ Forget(c) \/ Ban(c)
  BY DEF Next, Sweep, Locked

\* What a call that begins carries with it.
Carries(op, a) ==
    /\ op \in Running \ {"observe", "prune"}
    /\ op = "store" => a.key \in Keys /\ a.win \in Windows
    /\ op = "hfm" => a.key \in Keys /\ a.win \in HfmWindows
    /\ op \in {"classify", "staleWithin", "forget"} => a.key \in Keys
    /\ op = "ban" => a.keys \in Patterns

\* A call that begins has the arguments of its operation.
LEMMA CallFacts ==
    ASSUME NEW c \in Calls, Call(c)
    PROVE  \E op, a : Carries(op, a) /\ Start(c, op, a)
<1>1. ASSUME NEW k \in Keys, NEW w \in Windows, Start(c, "store", [key |-> k, win |-> w])
      PROVE  Carries("store", [key |-> k, win |-> w])
  BY DEF Carries, Running
<1>2. ASSUME NEW k \in Keys, NEW h \in HfmWindows, Start(c, "hfm", [key |-> k, win |-> h])
      PROVE  Carries("hfm", [key |-> k, win |-> h])
  BY DEF Carries, Running
<1>3. ASSUME NEW k \in Keys, NEW op \in {"classify", "staleWithin", "forget"}, Start(c, op, [key |-> k])
      PROVE  Carries(op, [key |-> k])
  BY DEF Carries, Running
<1>4. ASSUME NEW P \in Patterns, Start(c, "ban", [keys |-> P])
      PROVE  Carries("ban", [keys |-> P])
  BY DEF Carries, Running
<1> QED  BY <1>1, <1>2, <1>3, <1>4 DEF Call

\* A call that has its arguments moves on without a new look at the clock.
LEMMA CallStep == ASSUME FreshnessAssumptions, IInv, [Next]_vars PROVE CallInv'
<1> USE DEF FreshnessAssumptions, IInv, CallInv, Running
<1>1. CASE UNCHANGED vars \/ Tick \/ SweepBegin \/ \E s \in Shards : SweepShard(s)
  BY SMT, <1>1 DEF vars, Tick, SweepBegin, SweepShard, callVars, sweepVars
<1>2. ASSUME NEW c \in Calls, Call(c) PROVE CallInv'
  <2>1. PICK op, a : Carries(op, a) /\ Start(c, op, a)
    BY <1>2, CallFacts
  <2> QED  BY SMT, <2>1 DEF Carries, Start, sweepVars
<1>3. ASSUME NEW c \in Calls, Store(c) PROVE CallInv'
  BY SMT, <1>3 DEF Store, sweepVars
<1>4. ASSUME NEW c \in Calls, SetHitForMiss(c) PROVE CallInv'
  BY <1>4 DEF SetHitForMiss, sweepVars
<1>5. ASSUME NEW c \in Calls, ObserveWindow(c) \/ Forget(c) \/ Ban(c) PROVE CallInv'
  BY SMTT(30), <1>5 DEF ObserveWindow, Forget, Ban, Return, sweepVars
<1>6. ASSUME NEW c \in Calls, Classify(c) PROVE CallInv'
  BY SMTT(30), <1>6 DEF Classify, Return, Answer, sweepVars
<1>7. ASSUME NEW c \in Calls, Prune(c) \/ Fallback(c) PROVE CallInv'
  BY SMT, <1>7 DEF Prune, Fallback, Return, Answer, sweepVars
<1> QED  BY <1>1, <1>2, <1>3, <1>4, <1>5, <1>6, <1>7, Steps

\* A step that only takes entries away, and moves no call back, keeps them in order.
LEMMA EntriesKept ==
    ASSUME IInv, entry' \in [Keys -> Entry \cup {None}],
           \A k \in Keys : entry'[k] = entry[k] \/ entry'[k] = None,
           \A c \in Calls : pc[c] \in {"observe", "done"} => pc'[c] \in {"observe", "done"}
    PROVE  EntryInv'
<1> SUFFICES ASSUME NEW k \in Keys, entry'[k] # None
             PROVE  /\ pc'[entry'[k].by] \in {"observe", "done"}
                    /\ ~IsHfm(entry'[k]) => entry'[k].expires <= entry'[k].graceUntil
                    /\ IsHfm(entry'[k]) => entry'[k].maxStaleUntil = 0
  BY DEF EntryInv, IsHfm
<1>1. entry'[k] = entry[k] /\ entry[k] \in Entry
  BY DEF IInv, EntryInv
<1> QED  BY <1>1 DEF IInv, EntryInv, Entry, IsHfm

\* An entry that a call writes.
LEMMA EntryWritten ==
    ASSUME FreshnessAssumptions, IInv, NEW c \in Calls, NEW k \in Keys, NEW e \in Entry, e.by = c,
           pc[c] \in Running, pc' = [pc EXCEPT ![c] = "observe"],
           entry' = [entry EXCEPT ![k] = e],
           ~IsHfm(e) => e.expires <= e.graceUntil,
           IsHfm(e) => e.maxStaleUntil = 0
    PROVE  EntryInv'
<1>1. entry' \in [Keys -> Entry \cup {None}]
  BY DEF IInv, EntryInv
<1> SUFFICES ASSUME NEW j \in Keys, entry'[j] # None
             PROVE  /\ pc'[entry'[j].by] \in {"observe", "done"}
                    /\ ~IsHfm(entry'[j]) => entry'[j].expires <= entry'[j].graceUntil
                    /\ IsHfm(entry'[j]) => entry'[j].maxStaleUntil = 0
  BY <1>1 DEF EntryInv, IsHfm
<1>2. CASE j = k
  BY <1>2 DEF IInv, EntryInv, CallInv, IsHfm
<1>3. CASE j # k
  <2>1. entry'[j] = entry[j] /\ entry[j] \in Entry
    BY <1>3 DEF IInv, EntryInv
  <2>2. entry[j].by \in Calls
    BY <2>1 DEF Entry
  <2> QED  BY <2>1, <2>2 DEF IInv, EntryInv, CallInv, IsHfm
<1> QED  BY <1>2, <1>3

\* The entry that store writes: its windows follow one another.
LEMMA StoreFacts ==
    ASSUME FreshnessAssumptions, IInv, NEW c \in Calls, Store(c)
    PROVE  \E k \in Keys, e \in Entry, w \in Windows :
             /\ e.by = c /\ e.storedAt = t[c] /\ e.hfmUntil = 0
             /\ e.expires = t[c] + w.ttl /\ e.graceUntil = t[c] + w.ttl + w.grace
             /\ e.maxStaleUntil <= t[c] + w.ttl + w.grace + w.maxStale
             /\ entry' = [entry EXCEPT ![k] = e]
<1>1. PICK k \in Keys, w \in Windows : arg[c].key = k /\ arg[c].win = w
  BY DEF Store, IInv, CallInv
<1> DEFINE g == t[c] + w.ttl + w.grace
           e == NewEntry(c, t[c] + w.ttl, g, IF w.maxStale > 0 THEN g + w.maxStale ELSE 0, 0)
<1>2. w.ttl \in Nat /\ w.grace \in Nat /\ w.maxStale \in Nat /\ t[c] \in Nat
  BY <1>1 DEF FreshnessAssumptions, IInv, CallInv
<1>3. e \in Entry
  BY SMT, <1>2 DEF NewEntry, Entry
<1>4. /\ e.by = c /\ e.storedAt = t[c] /\ e.hfmUntil = 0
      /\ e.expires = t[c] + w.ttl /\ e.graceUntil = t[c] + w.ttl + w.grace
      /\ e.maxStaleUntil <= t[c] + w.ttl + w.grace + w.maxStale
  BY SMT, <1>2 DEF NewEntry
<1>5. entry' = [entry EXCEPT ![k] = e]
  BY <1>1 DEF Store
<1> QED  BY <1>3, <1>4, <1>5

\* The marker that setHitForMiss writes.
LEMMA MarkerFacts ==
    ASSUME FreshnessAssumptions, IInv, NEW c \in Calls, SetHitForMiss(c)
    PROVE  \E k \in Keys, e \in Entry, h \in HfmWindows :
             /\ e.by = c /\ e.storedAt = t[c] /\ e.hfmUntil = t[c] + h
             /\ e.expires = 0 /\ e.graceUntil = 0 /\ e.maxStaleUntil = 0
             /\ entry' = [entry EXCEPT ![k] = e]
<1>1. PICK k \in Keys, h \in HfmWindows : arg[c].key = k /\ arg[c].win = h
  BY DEF SetHitForMiss, IInv, CallInv
<1> DEFINE e == NewEntry(c, 0, 0, 0, t[c] + h)
<1>2. h \in Nat /\ t[c] \in Nat
  BY <1>1 DEF FreshnessAssumptions, IInv, CallInv
<1>3. e \in Entry
  BY SMT, <1>2 DEF NewEntry, Entry
<1>4. /\ e.by = c /\ e.storedAt = t[c] /\ e.hfmUntil = t[c] + h
      /\ e.expires = 0 /\ e.graceUntil = 0 /\ e.maxStaleUntil = 0
  BY <1>2 DEF NewEntry
<1>5. entry' = [entry EXCEPT ![k] = e]
  BY <1>1 DEF SetHitForMiss
<1> QED  BY <1>3, <1>4, <1>5

\* The steps that write no entry take entries away at most.
LEMMA OnlyDrops ==
    ASSUME FreshnessAssumptions, IInv, [Next]_vars
    PROVE  \/ \E c \in Calls : Store(c) \/ SetHitForMiss(c)
           \/ /\ entry' \in [Keys -> Entry \cup {None}]
              /\ \A k \in Keys : entry'[k] = entry[k] \/ entry'[k] = None
<1> USE DEF IInv, EntryInv
<1>1. CASE UNCHANGED vars \/ Tick \/ SweepBegin
  BY <1>1 DEF vars, Tick, SweepBegin
<1>2. CASE \E s \in Shards : SweepShard(s)
  BY <1>2 DEF SweepShard
<1>3. ASSUME NEW c \in Calls, Call(c) \/ ObserveWindow(c) \/ Classify(c) \/ Fallback(c) \/ Ban(c)
      PROVE  entry' = entry
  BY <1>3 DEF Call, Start, ObserveWindow, Classify, Fallback, Ban
<1>4. ASSUME NEW c \in Calls, Prune(c) \/ Forget(c)
      PROVE  /\ entry' \in [Keys -> Entry \cup {None}]
             /\ \A k \in Keys : entry'[k] = entry[k] \/ entry'[k] = None
  BY <1>4 DEF Prune, Forget
<1>5. CASE \E c \in Calls : Call(c) \/ ObserveWindow(c) \/ Classify(c) \/ Fallback(c) \/ Ban(c)
  BY <1>3, <1>5
<1>6. CASE \E c \in Calls : Prune(c) \/ Forget(c)
  BY <1>4, <1>6
<1> QED  BY <1>1, <1>2, <1>5, <1>6, Steps

\* A call that has written its entry never runs again.
LEMMA WritersStay ==
    ASSUME FreshnessAssumptions, IInv, [Next]_vars, NEW c \in Calls, pc[c] \in {"observe", "done"}
    PROVE  pc'[c] \in {"observe", "done"}
<1> USE DEF IInv, CallInv
<1>1. CASE UNCHANGED vars \/ Tick \/ SweepBegin \/ \E s \in Shards : SweepShard(s)
  BY <1>1 DEF vars, Tick, SweepBegin, SweepShard, callVars
<1>2. ASSUME NEW d \in Calls, Call(d) PROVE pc'[c] \in {"observe", "done"}
  BY <1>2 DEF Call, Start
<1>3. ASSUME NEW d \in Calls, Store(d) \/ SetHitForMiss(d) PROVE pc'[c] \in {"observe", "done"}
  BY <1>3 DEF Store, SetHitForMiss
<1>4. ASSUME NEW d \in Calls, ObserveWindow(d) \/ Prune(d) \/ Fallback(d) \/ Forget(d) \/ Ban(d)
      PROVE  pc'[c] \in {"observe", "done"}
  BY <1>4 DEF ObserveWindow, Prune, Fallback, Forget, Ban, Return
<1>5. ASSUME NEW d \in Calls, Classify(d) PROVE pc'[c] \in {"observe", "done"}
  BY <1>5 DEF Classify, Return
<1> QED  BY <1>1, <1>2, <1>3, <1>4, <1>5, Steps

\* Entries stay in order.
LEMMA EntryStep == ASSUME FreshnessAssumptions, IInv, [Next]_vars PROVE EntryInv'
<1>1. ASSUME NEW c \in Calls, Store(c) PROVE EntryInv'
  <2>1. PICK k \in Keys, e \in Entry, w \in Windows :
             /\ e.by = c /\ e.hfmUntil = 0
             /\ e.expires = t[c] + w.ttl /\ e.graceUntil = t[c] + w.ttl + w.grace
             /\ entry' = [entry EXCEPT ![k] = e]
    BY SMT, <1>1, StoreFacts
  <2>2. e.expires <= e.graceUntil
    BY SMT, <2>1 DEF FreshnessAssumptions, IInv, CallInv
  <2>3. pc[c] \in Running /\ pc' = [pc EXCEPT ![c] = "observe"]
    BY <1>1 DEF Store, Running
  <2> QED  BY <2>1, <2>2, <2>3, EntryWritten DEF IsHfm
<1>2. ASSUME NEW c \in Calls, SetHitForMiss(c) PROVE EntryInv'
  <2>1. PICK k \in Keys, e \in Entry, h \in HfmWindows :
             /\ e.by = c /\ e.expires = 0 /\ e.graceUntil = 0 /\ e.maxStaleUntil = 0
             /\ entry' = [entry EXCEPT ![k] = e]
    BY <1>2, MarkerFacts
  <2>2. pc[c] \in Running /\ pc' = [pc EXCEPT ![c] = "observe"]
    BY <1>2 DEF SetHitForMiss, Running
  <2>3. e.expires <= e.graceUntil
    BY SMT, <2>1
  <2> QED  BY <2>1, <2>2, <2>3, EntryWritten
<1>3. CASE /\ entry' \in [Keys -> Entry \cup {None}]
           /\ \A k \in Keys : entry'[k] = entry[k] \/ entry'[k] = None
  BY <1>3, WritersStay, EntriesKept
<1> QED  BY <1>1, <1>2, <1>3, OnlyDrops

\* The invariant of the index, from an empty one on.
LEMMA Invariance == ASSUME FreshnessAssumptions PROVE Spec => []IInv
<1>1. Init => IInv
  BY SMT DEF FreshnessAssumptions, Init, IInv, CallInv, EntryInv, Running
<1>2. IInv /\ [Next]_vars => IInv'
  BY CallStep, EntryStep DEF IInv
<1> QED  BY <1>1, <1>2, PTL DEF Spec
-----------------------------------------------------------------------------
\* What prune or the sweeper finds dead at an instant is dead ever after.
LEMMA DeadStaysDead ==
    ASSUME IInv, NEW k \in Keys, NEW now \in Nat, now <= clock, entry[k] # None,
           \/ ClassifyPrune(k, now).drop
           \/ Reclaimable(k, entry[k], now)
    PROVE  ~Usable(k, clock)
<1> DEFINE e == entry[k]
<1>1. /\ e \in Entry /\ clock \in Nat
      /\ ~IsHfm(e) => e.expires <= e.graceUntil
      /\ IsHfm(e) => e.maxStaleUntil = 0
  BY DEF IInv, EntryInv, CallInv
<1>2. /\ e.expires \in Nat /\ e.graceUntil \in Nat /\ e.maxStaleUntil \in Nat /\ e.hfmUntil \in Nat
  BY <1>1 DEF Entry
<1>3. CASE Banned(k, e)
  BY <1>3 DEF Usable, ClassifyShared, StaleWithin, Bypass, Result
<1>4. CASE ~Banned(k, e) /\ IsHfm(e)
  <2>1. now >= e.hfmUntil
    BY SMT, <1>2, <1>4 DEF ClassifyPrune, Reclaimable, Bypass, Result
  <2> QED  BY SMT, <2>1, <1>1, <1>2, <1>4 DEF Usable, ClassifyShared, StaleWithin, Bypass, Result
<1>5. CASE ~Banned(k, e) /\ ~IsHfm(e)
  <2>1. now >= e.expires /\ now >= e.graceUntil /\ Prunable(e, now)
    BY SMT, <1>1, <1>2, <1>5 DEF ClassifyPrune, Reclaimable, Result
  <2>2. clock >= e.expires /\ clock >= e.graceUntil /\ (e.maxStaleUntil # 0 => clock >= e.maxStaleUntil)
    BY SMT, <2>1, <1>1, <1>2 DEF Prunable
  <2>3. ~StaleWithin(k, clock)
    BY SMT, <2>2, <1>1, <1>2 DEF StaleWithin
  <2>4. ClassifyShared(k, clock) = Result("prune", FALSE, FALSE)
    <3>1. ~(clock < e.expires) /\ ~(clock < e.graceUntil)
      BY SMT, <2>2, <1>1, <1>2
    <3> QED  BY <3>1, <1>5 DEF ClassifyShared
  <2> QED  BY SMT, <2>3, <2>4 DEF Usable, Result
<1> QED  BY <1>3, <1>4, <1>5

\* Neither a prune on a clock read earlier nor the sweeper drops an entry that
\* could still be used (freshness.go classifyPrune, sweep, entryReclaimable).
THEOREM PruneOnlyDeadTheorem == ASSUME FreshnessAssumptions PROVE Spec => PruneOnlyDead
<1>1. IInv /\ [Next]_vars => [DropsOnlyDead]_vars
  <2> SUFFICES ASSUME IInv, [Next]_vars, NEW k \in Keys, entry[k] # None, entry'[k] = None
               PROVE  \/ ~Usable(k, clock)
                      \/ \E c \in Calls : pc[c] = "forget" /\ pc'[c] = "done" /\ arg[c].key = k
    BY DEF DropsOnlyDead
  <2>1. CASE \E s \in Shards : SweepShard(s)
    <3>1. Reclaimable(k, entry[k], sweepT)
      BY <2>1 DEF SweepShard
    <3> QED  BY <3>1, DeadStaysDead DEF IInv, CallInv
  <2>2. ASSUME NEW c \in Calls, Prune(c) PROVE ~Usable(k, clock)
    <3>1. k = arg[c].key /\ ClassifyPrune(k, t[c]).drop
      BY <2>2 DEF Prune, IInv, EntryInv
    <3> QED  BY <3>1, DeadStaysDead DEF IInv, CallInv
  <2>3. ASSUME NEW c \in Calls, Forget(c)
        PROVE  pc[c] = "forget" /\ pc'[c] = "done" /\ arg[c].key = k
    BY <2>3 DEF Forget, Return, IInv, EntryInv, CallInv
  <2>4. ASSUME NEW c \in Calls, Store(c) PROVE FALSE
    <3>1. PICK j \in Keys, e \in Entry : entry' = [entry EXCEPT ![j] = e]
      BY SMT, <2>4, StoreFacts
    <3> QED  BY <3>1 DEF FreshnessAssumptions, IInv, EntryInv
  <2>5. ASSUME NEW c \in Calls, SetHitForMiss(c) PROVE FALSE
    <3>1. PICK j \in Keys, e \in Entry : entry' = [entry EXCEPT ![j] = e]
      BY SMT, <2>5, MarkerFacts
    <3> QED  BY <3>1 DEF FreshnessAssumptions, IInv, EntryInv
  <2>6. CASE UNCHANGED vars \/ Tick \/ SweepBegin
    BY <2>6 DEF vars, Tick, SweepBegin
  <2>7. ASSUME NEW c \in Calls, Call(c) \/ ObserveWindow(c) \/ Classify(c) \/ Fallback(c) \/ Ban(c)
        PROVE  FALSE
    BY <2>7 DEF Call, Start, ObserveWindow, Classify, Fallback, Ban
  <2> QED  BY <2>1, <2>2, <2>3, <2>4, <2>5, <2>6, <2>7, Steps
<1> QED  BY <1>1, Invariance, PTL DEF Spec, PruneOnlyDead
-----------------------------------------------------------------------------
\* With room on the list only age takes a ban off it.
LEMMA RoomKeepsAll ==
    ASSUME FreshnessAssumptions, IsFiniteSet(bans), RoomForBans, NEW now
    PROVE  Capped(Kept(now)) = Kept(now)
<1> SUFFICES ASSUME NEW b \in Kept(now)
             PROVE  Cardinality(After(Kept(now), b)) < MaxBans - 1
  BY DEF Capped
<1> DEFINE S == After(Kept(now), b)
<1>1. b \in bans /\ S \subseteq bans \ {b}
  BY DEF After, Kept
<1>2. Cardinality(bans \ {b}) = Cardinality(bans) - 1 /\ IsFiniteSet(bans \ {b})
  BY <1>1, FS_RemoveElement
<1>3. Cardinality(S) <= Cardinality(bans \ {b}) /\ Cardinality(S) \in Nat
  BY <1>1, <1>2, FS_Subset, FS_CardinalityType
<1>4. Cardinality(bans) \in Nat /\ Cardinality(bans) < MaxBans
  BY FS_CardinalityType DEF RoomForBans
<1> QED  BY SMT, <1>2, <1>3, <1>4 DEF FreshnessAssumptions

\* A ban adds itself and takes off the list what is older than twice the widest window.
LEMMA BanFacts ==
    ASSUME FreshnessAssumptions, BanInv, RoomForBans, NEW c \in Calls, Ban(c)
    PROVE  \E b :
             /\ b.keys = arg[c].keys /\ b.at = t[c]
             /\ bans' = Kept(t[c]) \cup {b}
<1>1. IsFiniteSet(bans)
  BY DEF BanInv, ListInv
<1>2. Capped(Kept(t[c])) = Kept(t[c])
  BY <1>1, RoomKeepsAll
<1> DEFINE b == [keys |-> arg[c].keys, at |-> t[c], no |-> Place(Kept(t[c]))]
<1>3. bans' = Kept(t[c]) \cup {b}
  BY <1>2 DEF Ban
<1>4. b.keys = arg[c].keys /\ b.at = t[c]
  OBVIOUS
<1> QED  BY <1>3, <1>4

\* The steps beside ban leave the bans and what is doomed alone.
LEMMA BansSame ==
    ASSUME FreshnessAssumptions, IInv, [Next]_vars, ~ \E c \in Calls : Ban(c)
    PROVE  /\ bans' = bans /\ doomed' = doomed
           /\ clock' = clock \/ clock' = clock + 1
           /\ maxGrace' = maxGrace \/ \E c \in Calls : ObserveWindow(c)
<1>1. CASE UNCHANGED vars \/ Tick \/ SweepBegin \/ \E s \in Shards : SweepShard(s)
  BY <1>1 DEF vars, Tick, SweepBegin, SweepShard
<1>2. ASSUME NEW c \in Calls, Call(c)
      PROVE  bans' = bans /\ doomed' = doomed /\ clock' = clock /\ maxGrace' = maxGrace
  BY <1>2 DEF Call, Start
<1>3. ASSUME NEW c \in Calls, ObserveWindow(c)
      PROVE  bans' = bans /\ doomed' = doomed /\ clock' = clock
  BY <1>3 DEF ObserveWindow
<1>4. ASSUME NEW c \in Calls, Store(c) \/ SetHitForMiss(c)
      PROVE  bans' = bans /\ doomed' = doomed /\ clock' = clock /\ maxGrace' = maxGrace
  BY <1>4 DEF Store, SetHitForMiss
<1>5. ASSUME NEW c \in Calls, Classify(c) \/ Prune(c) \/ Fallback(c) \/ Forget(c)
      PROVE  bans' = bans /\ doomed' = doomed /\ clock' = clock /\ maxGrace' = maxGrace
  BY <1>5 DEF Classify, Prune, Fallback, Forget
<1> QED  BY <1>1, <1>2, <1>3, <1>4, <1>5, Steps

\* The list's own part of the invariant: bans, their clocks and the widest window.
LEMMA ListPart ==
    ASSUME FreshnessAssumptions, BanInv, RoomForBans, [Next]_vars
    PROVE  /\ IsFiniteSet(bans') /\ maxGrace' \in Nat /\ maxGrace' >= FirstGrace
           /\ clock' \in Nat /\ clock' >= clock
           /\ \A b \in bans' : b.at \in Nat /\ b.at <= clock'
<1> USE DEF BanInv, IInv, CallInv, ListInv, FreshnessAssumptions
<1>1. ASSUME NEW c \in Calls, Ban(c)
      PROVE  /\ IsFiniteSet(bans') /\ maxGrace' = maxGrace /\ clock' = clock
             /\ \A b \in bans' : b.at \in Nat /\ b.at <= clock'
  <2>1. PICK b : b.at = t[c] /\ bans' = Kept(t[c]) \cup {b}
    BY <1>1, BanFacts
  <2>2. Kept(t[c]) \subseteq bans
    BY DEF Kept
  <2>3. IsFiniteSet(bans)
    OBVIOUS
  <2>4. IsFiniteSet(Kept(t[c]))
    <3> HIDE DEF BanInv, IInv, CallInv, ListInv, FreshnessAssumptions
    <3> QED  BY <2>2, <2>3, FS_Subset
  <2>5. IsFiniteSet(Kept(t[c]) \cup {b})
    <3> HIDE DEF BanInv, IInv, CallInv, ListInv, FreshnessAssumptions
    <3> QED  BY <2>4, FS_AddElement
  <2> QED  BY <1>1, <2>1, <2>2, <2>5 DEF Ban
<1>2. CASE ~ \E c \in Calls : Ban(c)
  <2>1. /\ bans' = bans
        /\ clock' = clock \/ clock' = clock + 1
        /\ maxGrace' = maxGrace \/ \E c \in Calls : ObserveWindow(c)
    BY <1>2, BansSame
  <2>2. maxGrace' \in Nat /\ maxGrace' >= FirstGrace
    BY SMT, <2>1 DEF ObserveWindow
  <2>3. IsFiniteSet(bans') /\ \A b \in bans' : b.at \in Nat /\ b.at <= clock
    BY <2>1
  <2>4. clock \in Nat /\ clock' \in Nat /\ clock' >= clock
    BY SMT, <2>1
  <2>5. \A b \in bans' : b.at \in Nat /\ b.at <= clock'
    BY SMT, <2>3, <2>4
  <2> QED  BY <2>2, <2>3, <2>4, <2>5
<1> QED  BY SMT, <1>1, <1>2

\* The entry part: a written entry's windows are within the widest, and no other
\* entry is by the same call.
LEMMA EntryPart ==
    ASSUME FreshnessAssumptions, WindowsKnown, BanInv, RoomForBans, [Next]_vars
    PROVE  /\ \A k \in Keys : entry'[k] # None =>
                /\ entry'[k].storedAt <= clock'
                /\ entry'[k].expires <= EndOf(entry'[k]) /\ entry'[k].graceUntil <= EndOf(entry'[k])
                /\ entry'[k].maxStaleUntil <= EndOf(entry'[k]) /\ entry'[k].hfmUntil <= EndOf(entry'[k])
           /\ \A j, k \in Keys : entry'[j] # None /\ entry'[k] # None /\ entry'[j].by = entry'[k].by => j = k
<1> DEFINE Within(e) == /\ e.expires <= EndOf(e) /\ e.graceUntil <= EndOf(e)
                        /\ e.maxStaleUntil <= EndOf(e) /\ e.hfmUntil <= EndOf(e)
           Goal == /\ \A k \in Keys : entry'[k] # None => entry'[k].storedAt <= clock' /\ Within(entry'[k])
                   /\ \A j, k \in Keys :
                        (entry'[j] # None /\ entry'[k] # None /\ entry'[j].by = entry'[k].by) => j = k
<1>1. clock' \in Nat /\ clock \in Nat /\ clock' >= clock
  BY ListPart DEF BanInv, IInv, CallInv
<1>2. \A k \in Keys : entry[k] # None => /\ entry[k] \in Entry /\ entry[k].storedAt <= clock
                                         /\ Within(entry[k]) /\ pc[entry[k].by] \in {"observe", "done"}
  BY DEF BanInv, IInv, EntryInv, ListInv
<1>3. \A j, k \in Keys : entry[j] # None /\ entry[k] # None /\ entry[j].by = entry[k].by => j = k
  BY DEF BanInv, ListInv
<1>4. ASSUME NEW c \in Calls, NEW k \in Keys, NEW e \in Entry, entry' = [entry EXCEPT ![k] = e],
             e.by = c, e.storedAt = t[c], Within(e), pc[c] \notin {"observe", "done"}
      PROVE  Goal
  <2>1. t[c] \in Nat /\ t[c] <= clock
    BY DEF BanInv, IInv, CallInv
  <2>2. \A j \in Keys : entry'[j] = IF j = k THEN e ELSE entry[j]
    BY <1>4 DEF BanInv, IInv, EntryInv
  <2>3. \A j \in Keys \ {k} : entry[j] # None => entry[j].by # c
    BY <1>2, <1>4
  <2>4. ASSUME NEW j \in Keys, entry'[j] # None PROVE entry'[j].storedAt <= clock' /\ Within(entry'[j])
    <3>1. CASE j = k
      BY SMTT(30), <1>1, <1>4, <2>1, <2>2, <3>1
    <3>2. CASE j # k
      BY SMTT(30), <1>1, <1>2, <2>2, <2>4, <3>2 DEF Entry
    <3> QED  BY <3>1, <3>2
  <2>5. \A i, j \in Keys : entry'[i] # None /\ entry'[j] # None /\ entry'[i].by = entry'[j].by => i = j
    BY SMT, <1>3, <1>4, <2>2, <2>3
  <2> QED  BY <2>4, <2>5
<1>5. ASSUME NEW c \in Calls, Store(c) PROVE Goal
  <2>1. PICK k \in Keys, e \in Entry, w \in Windows :
             /\ e.by = c /\ e.storedAt = t[c] /\ e.hfmUntil = 0
             /\ e.expires = t[c] + w.ttl /\ e.graceUntil = t[c] + w.ttl + w.grace
             /\ e.maxStaleUntil <= t[c] + w.ttl + w.grace + w.maxStale
             /\ entry' = [entry EXCEPT ![k] = e]
    BY <1>5, StoreFacts DEF BanInv
  <2>2. w.ttl \in Nat /\ w.grace \in Nat /\ w.maxStale \in Nat /\ w.ttl + w.grace + w.maxStale <= FirstGrace
        /\ FirstGrace \in Nat /\ t[c] \in Nat
    BY DEF FreshnessAssumptions, WindowsKnown, BanInv, IInv, CallInv
  <2>3. Within(e)
    BY SMT, <2>1, <2>2 DEF EndOf, Entry
  <2>4. pc[c] \notin {"observe", "done"}
    BY <1>5 DEF Store
  <2> QED  BY <1>4, <2>1, <2>3, <2>4
<1>6. ASSUME NEW c \in Calls, SetHitForMiss(c) PROVE Goal
  <2>1. PICK k \in Keys, e \in Entry, h \in HfmWindows :
             /\ e.by = c /\ e.storedAt = t[c] /\ e.hfmUntil = t[c] + h
             /\ e.expires = 0 /\ e.graceUntil = 0 /\ e.maxStaleUntil = 0
             /\ entry' = [entry EXCEPT ![k] = e]
    BY <1>6, MarkerFacts DEF BanInv
  <2>2. h \in Nat /\ h <= FirstGrace /\ FirstGrace \in Nat /\ t[c] \in Nat
    BY DEF FreshnessAssumptions, WindowsKnown, BanInv, IInv, CallInv
  <2>3. Within(e)
    BY SMT, <2>1, <2>2 DEF EndOf
  <2>4. pc[c] \notin {"observe", "done"}
    BY <1>6 DEF SetHitForMiss
  <2> QED  BY <1>4, <2>1, <2>3, <2>4
<1>7. CASE \A k \in Keys : entry'[k] = entry[k] \/ entry'[k] = None
  <2>1. ASSUME NEW k \in Keys, entry'[k] # None PROVE entry'[k].storedAt <= clock' /\ Within(entry'[k])
    <3>1. entry'[k] = entry[k]
      BY <1>7, <2>1
    <3>2. entry[k].storedAt \in Nat /\ entry[k].storedAt <= clock /\ Within(entry[k])
      BY <1>2, <2>1, <3>1 DEF Entry
    <3> QED  BY SMT, <1>1, <3>1, <3>2
  <2>2. \A j, k \in Keys : entry'[j] # None /\ entry'[k] # None /\ entry'[j].by = entry'[k].by => j = k
    BY <1>3, <1>7
  <2> QED  BY <2>1, <2>2
<1>8. \/ \E c \in Calls : Store(c) \/ SetHitForMiss(c)
      \/ \A k \in Keys : entry'[k] = entry[k] \/ entry'[k] = None
  BY OnlyDrops DEF BanInv
<1>9. CASE \E c \in Calls : Store(c)
  BY <1>5, <1>9, Zenon
<1>10. CASE \E c \in Calls : SetHitForMiss(c)
  BY <1>6, <1>10, Zenon
<1> QED  BY <1>7, <1>8, <1>9, <1>10, Zenon

\* What is doomed was written.
LEMMA DoomedWritten ==
    ASSUME FreshnessAssumptions, BanInv, [Next]_vars
    PROVE  doomed' \subseteq {c \in Calls : pc'[c] \in {"observe", "done"}}
<1>1. doomed' \subseteq {c \in Calls : pc[c] \in {"observe", "done"}}
  <2>1. ASSUME NEW c \in Calls, Ban(c)
        PROVE  doomed' \subseteq {d \in Calls : pc[d] \in {"observe", "done"}}
    <3>1. \A k \in arg[c].keys : entry[k] # None =>
             entry[k].by \in Calls /\ pc[entry[k].by] \in {"observe", "done"}
      BY <2>1 DEF Ban, FreshnessAssumptions, BanInv, IInv, CallInv, EntryInv, Entry
    <3> QED  BY <2>1, <3>1 DEF Ban, BanInv, ListInv
  <2>2. CASE ~ \E c \in Calls : Ban(c)
    BY <2>2, BansSame DEF BanInv, ListInv
  <2> QED  BY <2>1, <2>2
<1> QED  BY <1>1, WritersStay DEF BanInv

\* An entry a ban invalidated stays banned until nobody can use it.
LEMMA DoomedStep ==
    ASSUME FreshnessAssumptions, WindowsKnown, BanInv, RoomForBans, [Next]_vars
    PROVE  DoomedInv'
<1> SUFFICES ASSUME NEW k \in Keys, entry'[k] # None, entry'[k].by \in doomed'
             PROVE  \/ \E b \in bans' : b.at > entry'[k].storedAt /\ k \in b.keys
                    \/ EndOf(entry'[k]) + MaxStall <= clock'
  BY DEF DoomedInv, Banned, Gone, EndOf
<1>0. clock \in Nat /\ clock' \in Nat /\ clock' >= clock /\ MaxStall \in Nat /\ FirstGrace \in Nat
  BY ListPart DEF BanInv, IInv, CallInv, FreshnessAssumptions
<1>1. CASE \E c \in Calls : Store(c) \/ SetHitForMiss(c)
  <2>1. PICK c \in Calls : Store(c) \/ SetHitForMiss(c)
    BY <1>1
  <2>2. PICK j \in Keys, e \in Entry : e.by = c /\ entry' = [entry EXCEPT ![j] = e]
    BY SMT, <2>1, StoreFacts, MarkerFacts DEF BanInv
  <2>3. doomed' = doomed /\ bans' = bans /\ clock' = clock /\ c \notin doomed
    BY <2>1 DEF Store, SetHitForMiss, BanInv, ListInv
  <2>4. k # j /\ entry'[k] = entry[k]
    BY <2>2, <2>3 DEF BanInv, IInv, EntryInv
  <2> QED  BY <2>3, <2>4 DEF BanInv, DoomedInv, Banned, Gone
<1>2. CASE entry'[k] = entry[k] /\ ~ \E c \in Calls : Ban(c)
  <2>1. bans' = bans /\ doomed' = doomed
    BY <1>2, BansSame DEF BanInv
  <2>2. Banned(k, entry[k]) \/ Gone(entry[k])
    BY <1>2, <2>1 DEF BanInv, DoomedInv
  <2>3. entry[k].storedAt \in Nat
    BY <1>2 DEF BanInv, IInv, EntryInv, Entry
  <2> QED  BY SMT, <1>0, <1>2, <2>1, <2>2, <2>3 DEF Banned, Gone, EndOf
<1>3. ASSUME NEW c \in Calls, Ban(c), entry'[k] = entry[k]
      PROVE  \/ \E b \in bans' : b.at > entry'[k].storedAt /\ k \in b.keys
             \/ EndOf(entry'[k]) + MaxStall <= clock'
  <2>1. PICK b : b.keys = arg[c].keys /\ b.at = t[c] /\ bans' = Kept(t[c]) \cup {b}
    BY <1>3, BanFacts
  <2>2. entry[k].storedAt \in Nat /\ t[c] \in Nat /\ t[c] <= clock /\ maxGrace \in Nat /\ maxGrace >= FirstGrace
    BY <1>3 DEF BanInv, IInv, CallInv, EntryInv, Entry, ListInv
  <2>3. CASE entry[k].by \in doomed
    <3>1. CASE Gone(entry[k])
      BY SMT, <1>0, <1>3, <2>2, <3>1 DEF Gone, EndOf
    <3>2. CASE Banned(k, entry[k])
      <4>1. PICK a \in bans : a.at > entry[k].storedAt /\ k \in a.keys
        BY <3>2 DEF Banned
      <4>2. CASE a \in Kept(t[c])
        BY <1>3, <2>1, <4>1, <4>2
      <4>3. CASE a \notin Kept(t[c])
        <5>1. a.at \in Nat /\ MaxStall <= FirstGrace
          BY DEF BanInv, ListInv, WindowsKnown
        <5>2. a.at <= t[c] - 2 * maxGrace
          BY SMT, <2>2, <4>3, <5>1 DEF Kept
        <5> QED  BY SMT, <1>0, <1>3, <2>2, <4>1, <5>1, <5>2 DEF EndOf
      <4> QED  BY <4>2, <4>3
    <3> QED  BY <2>3, <3>1, <3>2, <1>3 DEF BanInv, DoomedInv
  <2>4. CASE entry[k].by \notin doomed
    <3>1. PICK j \in arg[c].keys : entry[j] # None /\ entry[j].storedAt < t[c] /\ entry[j].by = entry[k].by
      BY <1>3, <2>4 DEF Ban
    <3>2. j \in Keys
      BY <1>3, <3>1 DEF Ban, BanInv, IInv, CallInv, FreshnessAssumptions
    <3>3. j = k
      BY <1>3, <3>1, <3>2 DEF BanInv, ListInv
    <3> QED  BY <1>3, <2>1, <2>2, <3>1, <3>3
  <2> QED  BY <2>3, <2>4
<1> QED  BY <1>1, <1>2, <1>3, OnlyDrops DEF BanInv

\* The invariant as long as there is room for bans.
LEMMA BanStep ==
    ASSUME FreshnessAssumptions, WindowsKnown, BanInv, RoomForBans, [Next]_vars
    PROVE  BanInv'
<1>1. IInv'
  BY CallStep, EntryStep DEF IInv, BanInv
<1>2. ListInv'
  BY ListPart, EntryPart, DoomedWritten DEF ListInv, EndOf
<1> QED  BY <1>1, <1>2, DoomedStep DEF BanInv

\* No call is answered from a doomed entry.
LEMMA AnswersHold ==
    ASSUME FreshnessAssumptions, WindowsKnown, BanInv, [Next]_vars
    PROVE  [BanHolds]_vars
<1> SUFFICES ASSUME NEW c \in Calls, answer'[c] # answer[c]
             PROVE  answer'[c].by \notin doomed
  BY DEF BanHolds
<1>0. None \notin doomed
  BY DEF FreshnessAssumptions, BanInv, ListInv
<1>1. ASSUME NEW k \in Keys, NEW now \in Nat, clock <= now + MaxStall, entry[k] # None, entry[k].by \in doomed
      PROVE  /\ ClassifyShared(k, now) = Result("prune", FALSE, FALSE)
             /\ ClassifyPrune(k, now).res = "miss" /\ ~ClassifyPrune(k, now).hfm
             /\ ~StaleWithin(k, now)
  <2> DEFINE e == entry[k]
  <2>1. CASE Banned(k, e)
    BY <1>1, <2>1 DEF ClassifyShared, ClassifyPrune, StaleWithin, Bypass, Result
  <2>2. CASE Gone(e)
    <3>1. /\ e.storedAt \in Nat /\ e.expires \in Nat /\ e.graceUntil \in Nat /\ e.maxStaleUntil \in Nat
          /\ e.hfmUntil \in Nat /\ MaxStall \in Nat /\ FirstGrace \in Nat /\ clock \in Nat
      BY <1>1 DEF BanInv, IInv, CallInv, EntryInv, Entry, FreshnessAssumptions
    <3>2. /\ e.expires <= EndOf(e) /\ e.graceUntil <= EndOf(e)
          /\ e.maxStaleUntil <= EndOf(e) /\ e.hfmUntil <= EndOf(e)
      BY <1>1 DEF BanInv, ListInv
    <3>3. /\ ~(now < e.expires) /\ ~(now < e.graceUntil)
          /\ ~(now < e.maxStaleUntil) /\ ~(now < e.hfmUntil)
      BY SMT, <1>1, <2>2, <3>1, <3>2 DEF Gone, EndOf
    <3> QED  BY <1>1, <3>3 DEF ClassifyShared, ClassifyPrune, StaleWithin, Bypass, Result
  <2> QED  BY <1>1, <2>1, <2>2 DEF BanInv, DoomedInv
<1>2. ASSUME NEW d \in Calls, pc[d] \in Running PROVE t[d] \in Nat /\ clock <= t[d] + MaxStall
  BY <1>2 DEF BanInv, IInv, CallInv
<1>3. CASE Classify(c) \/ Prune(c) \/ Fallback(c)
  <2>1. PICK k \in Keys : k = arg[c].key
    BY <1>3 DEF Classify, Prune, Fallback, BanInv, IInv, CallInv
  <2>2. pc[c] \in Running
    BY <1>3 DEF Classify, Prune, Fallback, Running
  <2>3. CASE Classify(c)
    <3>1. answer' = [answer EXCEPT ![c] = [res |-> Said(ClassifyShared(k, t[c])),
             by |-> IF Said(ClassifyShared(k, t[c])) = "miss" THEN None ELSE entry[k].by]]
          /\ ClassifyShared(k, t[c]).res # "prune"
      BY <2>1, <2>3 DEF Classify, Answer
    <3>2. CASE entry[k] = None
      BY <1>0, <3>1, <3>2 DEF ClassifyShared, Result, Said, BanInv, IInv, CallInv
    <3>3. CASE entry[k] # None
      <4>1. t[c] \in Nat /\ clock <= t[c] + MaxStall
        BY <1>2, <2>2
      <4>2. ClassifyShared(k, t[c]) # Result("prune", FALSE, FALSE)
        BY SMT, <3>1 DEF Result
      <4>3. entry[k].by \notin doomed
        BY <1>1, <3>3, <4>1, <4>2
      <4>4. answer'[c].by \in {None, entry[k].by}
        BY <3>1 DEF BanInv, IInv, CallInv
      <4> QED  BY <1>0, <4>3, <4>4
    <3> QED  BY <3>2, <3>3
  <2>4. CASE Prune(c)
    <3>1. answer' = [answer EXCEPT ![c] = [res |-> Said(ClassifyPrune(k, t[c])),
             by |-> IF Said(ClassifyPrune(k, t[c])) = "miss" THEN None ELSE entry[k].by]]
      BY <2>1, <2>4 DEF Prune, Answer
    <3>2. CASE entry[k] = None
      BY <1>0, <3>1, <3>2 DEF ClassifyPrune, Result, Said, BanInv, IInv, CallInv
    <3>3. CASE entry[k] # None
      BY <1>0, <1>1, <1>2, <2>2, <3>1, <3>3 DEF Said, BanInv, IInv, CallInv
    <3> QED  BY <3>2, <3>3
  <2>5. CASE Fallback(c)
    <3>1. answer'[c].by = IF StaleWithin(k, t[c]) THEN entry[k].by ELSE None
      BY <2>1, <2>5 DEF Fallback, Answer, BanInv, IInv, CallInv
    <3>2. StaleWithin(k, t[c]) => entry[k] # None
      BY DEF StaleWithin
    <3> QED  BY <1>0, <1>1, <1>2, <2>2, <3>1, <3>2
  <2> QED  BY <1>3, <2>3, <2>4, <2>5
<1>4. CASE UNCHANGED vars \/ Tick \/ SweepBegin \/ \E s \in Shards : SweepShard(s)
  BY <1>4 DEF vars, Tick, SweepBegin, SweepShard
<1>5. ASSUME NEW d \in Calls, \/ Call(d) \/ Store(d) \/ SetHitForMiss(d) \/ ObserveWindow(d)
                              \/ Forget(d) \/ Ban(d)
      PROVE  FALSE
  BY <1>5 DEF Call, Start, Store, SetHitForMiss, ObserveWindow, Forget, Ban
<1>6. ASSUME NEW d \in Calls, d # c, Classify(d) \/ Prune(d) \/ Fallback(d) PROVE FALSE
  BY <1>6 DEF Classify, Prune, Fallback, Answer, BanInv, IInv, CallInv
<1> QED  BY <1>3, <1>4, <1>5, <1>6, Steps

\* A regex purge holds for good while the list has room and no window is wider than
\* those known: no lookup, however it overlaps with the ban, is answered from an
\* entry the ban invalidated (freshness.go ban, banned, classify, staleWithin).
THEOREM BanHoldsTheorem ==
    ASSUME FreshnessAssumptions, WindowsKnown
    PROVE  Spec /\ []RoomForBans => [][BanHolds]_vars
<1>1. Init => BanInv
  <2>1. IsFiniteSet({})
    BY FS_EmptySet
  <2>2. Init => CallInv
    BY SMT DEF FreshnessAssumptions, Init, CallInv, Running
  <2>3. Init => EntryInv
    BY DEF FreshnessAssumptions, Init, EntryInv
  <2>4. Init => ListInv /\ DoomedInv
    BY SMT, <2>1 DEF FreshnessAssumptions, Init, ListInv, DoomedInv
  <2> QED  BY <2>2, <2>3, <2>4 DEF BanInv, IInv
<1>2. BanInv /\ RoomForBans /\ [Next]_vars => BanInv'
  BY BanStep
<1>3. BanInv /\ [Next]_vars => [BanHolds]_vars
  BY AnswersHold
<1> QED  BY <1>1, <1>2, <1>3, PTL DEF Spec
=============================================================================
