---------------------------- MODULE ServeProofs ----------------------------
(* Theorems about Serve, for any number of requests of any kinds, any answers *)
(* of the origin and any number of its changes: what the handler does is what *)
(* Coalesce describes, what it stores may be served to anybody, writes reach  *)
(* the origin, and invalidations stick.                                       *)
EXTENDS Serve, TLAPS

\* The steps are propositional and about sets and functions; those with arithmetic
\* cite SMT.
USE ZenonT(90)

\* Where a fetch can be once it has stored.
After == {"mark", "succeeded", "failed", "close", "forget", "done"}

Card(S) == Cardinality(S)
Finite(S) == IsFiniteSet(S)

\* What the coalescer's variables tell the handler: a registered call is being
\* fetched, a verdict is only read once its winner has left, and the tokens out
\* are the goroutines alive.
CInv ==
    /\ C!CoalesceTypeOK
    /\ \A k \in Keys, r \in Requests : calls[k] = r => role[r] = "winner" /\ key[r] = k
    /\ \A r \in succeeded : role[r] = "left"
    /\ sem = Card(C!Admitted)

\* The types of the variables TypeOK leaves out, and the part it shares with them.
Types ==
    /\ object \in [Keys -> Fetches \cup {None}]
    /\ marker \in [Keys -> [at : {"none", "fresh", "stale", "past", "hfm"}, fallback : BOOLEAN]]
    /\ \A k \in Keys : marker[k].at = "past" => marker[k].fallback
    /\ version \in 0..MaxVersion /\ written \in 0..MaxVersion
    /\ kind \in [Requests -> Kinds] /\ key = [r \in Requests |-> KeyOf(kind[r])]
    /\ state \in [Requests -> {"none", "fresh", "stale", "past", "hfm"}]
    /\ pc \in [Fetches -> Labels]
    /\ got \in [Fetches -> [ans : Answers \cup {"none"}, version : 0..MaxVersion, whole : BOOLEAN]]
    /\ reply \in [Requests -> [from : {"none", "gate", "purged", "cache", "origin", "gone", "panic"},
                               by : Fetches \cup {None}]]
    /\ doomed \in SUBSET Fetches /\ seen \in [Requests -> SUBSET Fetches]

\* A fetch goes on towards its commit only with a whole body it may store, and a
\* copy in the store is one whose fetch has committed.
FetchInv ==
    /\ \A f \in Fetches :
         /\ pc[f] \in {"fallback", "lastGood", "decide", "stream", "commit", "mark"} => got[f].whole
         /\ pc[f] \in {"stream", "commit", "mark"} => Stores(f)
    /\ \A k \in Keys : object[k] # None =>
         /\ pc[object[k]] \in After /\ Stores(object[k]) /\ got[object[k]].whole
         /\ key[object[k][1]] = k
    /\ \A r \in Requests : pc[Bg(r)] # "idle" => bg[r] \notin {"none", "begun"}

\* Where a request is tells where its answer came from, and an answer's fetch is
\* past the point where it could change.
ReplyInv ==
    /\ \A r \in Requests : role[r] # "out" => Coalescable(r)
    /\ \A r \in Requests : Unsafe(r) =>
         role[r] = "out" /\ bg[r] = "none" /\ pc[Fg(r)] \notin {"cache", "trigger", "wait", "reread", "close"}
    /\ \A r \in Requests : pc[Fg(r)] \in {"fallback", "lastGood"} => got[Fg(r)].ans \in Failures \cup {"neg"}
    /\ \A r \in Requests : reply[r].from = "cache" =>
         /\ pc[Fg(r)] \in {"trigger", "failed", "close", "forget", "done"}
         /\ reply[r].by \in Fetches /\ pc[reply[r].by] \in After
    /\ \A r \in Requests : reply[r].from = "origin" =>
         reply[r].by = Fg(r) /\ pc[Fg(r)] \in After \cup {"stream", "commit"}

\* A request that is not about to read the store: if it waits, it is for a fetch
\* that has not stored.
Quiet(r) ==
    /\ pc[Fg(r)] \notin {"cache", "lastGood", "reread"}
    /\ pc[Fg(r)] = "wait" =>
         call[r] \in Requests /\ call[r] \notin succeeded /\ role[call[r]] # "finishing"

\* While a copy that was invalidated is still in the store no entry describes it,
\* no fetch is about to announce it, and no request that came after is about to
\* read it.
DoomInv ==
    /\ \A r \in Requests : seen[r] \subseteq doomed
    /\ \A f \in doomed : pc[f] \in {"failed", "close", "forget", "done"} /\ key[f[1]] = "get"
    /\ object["get"] \in doomed =>
         /\ marker["get"].at \in {"none", "hfm"} /\ Settled
         /\ \A r \in Requests : key[r] = "get" /\ object["get"] \in seen[r] => Quiet(r)

-----------------------------------------------------------------------------
\* The names of fetches are distinct, and None is none of them.
LEMMA Names ==
    /\ None \notin Fetches
    /\ \A r \in Requests : /\ Fg(r) \in Fetches /\ Fg(r)[1] = r /\ Fg(r)[2] = "fg"
                           /\ Bg(r) \in Fetches /\ Bg(r)[1] = r /\ Bg(r)[2] = "bg"
    /\ \A r, q \in Requests : Fg(r) # Bg(q) /\ (Fg(r) = Fg(q) => r = q) /\ (Bg(r) = Bg(q) => r = q)
    /\ \A f \in Fetches : /\ f[1] \in Requests
                          /\ (f[2] = "fg" /\ f = Fg(f[1])) \/ (f[2] = "bg" /\ f = Bg(f[1]))
BY SMT, ServeAssumptions DEF Fetches, Fg, Bg

\* The steps of the handler, one by one.
LEMMA Steps ==
  ASSUME [Next]_vars
  PROVE  \/ UNCHANGED vars
         \/ \E r \in Requests :
              \/ Gated(r) \/ Purge(r) \/ Lookup(r) \/ Gone(r) \/ Panic(r)
              \/ Hit(r) \/ NoHit(r) \/ Miss(r) \/ Wake(r) \/ Reread(r) \/ Fallback(r) \/ LastGood(r)
              \/ Finish(r) \/ Close(r) \/ Forget(r) \/ Trigger(r) \/ Launch(r) \/ Revalidated(r) \/ Wind(r)
         \/ \E f \in Fetches : Origin(f) \/ Decide(f) \/ Stream(f) \/ Commit(f) \/ MarkFresh(f)
         \/ \E k \in Keys : Age(k) \/ Evict(k)
         \/ Publish
BY Names DEF Next, Progress, Background, Fetch

\* Every step of the handler is one of the coalescer, or none of its business.
LEMMA CoalesceSteps ==
  ASSUME [Next]_vars
  PROVE  [C!CoalesceNext]_(C!coalescerVars)
<1> USE DEF coalesceVars, C!coalescerVars
<1>1. CASE UNCHANGED vars \/ Publish \/ \E k \in Keys : Age(k) \/ Evict(k)
  BY <1>1 DEF vars, Publish, Age, Evict
<1>2. ASSUME NEW f \in Fetches, Origin(f) \/ Decide(f) \/ Stream(f) \/ Commit(f) \/ MarkFresh(f)
      PROVE  UNCHANGED C!coalescerVars
  BY <1>2 DEF Origin, Decide, Stream, Commit, MarkFresh
<1>3. ASSUME NEW r \in Requests,
             Gated(r) \/ Purge(r) \/ Lookup(r) \/ Panic(r) \/ Hit(r) \/ NoHit(r) \/ Fallback(r)
               \/ LastGood(r) \/ Forget(r)
      PROVE  UNCHANGED C!coalescerVars
  BY <1>3 DEF Gated, Purge, Lookup, Panic, Hit, NoHit, Fallback, LastGood, Forget
<1>4. ASSUME NEW r \in Requests,
             Gone(r) \/ Miss(r) \/ Wake(r) \/ Reread(r) \/ Finish(r) \/ Close(r) \/ Trigger(r)
               \/ Launch(r) \/ Revalidated(r) \/ Wind(r)
      PROVE  C!CoalesceNext \/ UNCHANGED C!coalescerVars
  <2>1. \/ C!Enter(r) \/ C!Cancel(r) \/ C!Begin(r)
        \/ (\E ok \in BOOLEAN : C!Unregister(r, ok))
        \/ C!Close(r) \/ C!Wake(r) \/ C!FallThrough(r) \/ C!Leave(r)
        \/ C!Admit(r) \/ C!Revalidated(r) \/ C!End(r) \/ C!Release(r)
        \/ UNCHANGED C!coalescerVars
    BY <1>4 DEF Gone, Miss, Wake, Reread, Finish, Close, Trigger, Launch, Revalidated, Wind
  <2> QED BY <2>1 DEF C!CoalesceNext, C!FetchOver, C!Progress
<1> QED BY <1>1, <1>2, <1>3, <1>4, Steps

\* Each request behaves towards the coalescer as Coalesce lets it: what is proved
\* of Coalesce holds of the calls serveMiss and triggerBgFetch make in the handler.
THEOREM ImplementsCoalesce == Spec => C!CoalesceSpec
<1>1. Init => C!CoalesceInit
  BY DEF Init
<1> QED BY <1>1, CoalesceSteps, PTL DEF Spec, C!CoalesceSpec

\* Only a safe method is sent to the cache, and only by a fresh or stale entry.
LEMMA RouteFacts ==
  ASSUME NEW kd, NEW s
  PROVE  /\ Route(kd, s) \in {"origin", "miss", "cache"}
         /\ Route(kd, s) = "cache" => kd \in {"get", "range", "head"} /\ s \in {"fresh", "stale"}
BY DEF Route

\* Only an entry with a max_stale window gets to it, and no entry becomes fresh.
LEMMA OlderFacts ==
  ASSUME NEW m
  PROVE  /\ Older(m) \in {"stale", "past", "none"}
         /\ Older(m) = "past" => m.fallback
         /\ m.at = "hfm" => Older(m) = "none"
BY DEF Older

\* The types at a request and at a key.
LEMMA TypeFacts ==
  ASSUME Types
  PROVE  /\ key \in [Requests -> Keys] /\ \A r \in Requests : key[r] = KeyOf(kind[r]) /\ kind[r] \in Kinds
         /\ "get" \in Keys
         /\ \A k \in Keys : /\ object[k] # None => object[k] \in Fetches
                            /\ marker[k].at \in {"none", "fresh", "stale", "past", "hfm"}
         /\ \A f \in Fetches : /\ pc[f] \in Labels /\ got[f].ans \in Answers \cup {"none"}
                               /\ got[f].version \in 0..MaxVersion
<1>1. /\ kind \in [Requests -> Kinds] /\ key = [r \in Requests |-> KeyOf(kind[r])]
      /\ \A k : KeyOf(k) \in Keys
      /\ "get" \in Keys
  BY DEF Types, KeyOf, Keys
<1>2. key \in [Requests -> Keys] /\ \A r \in Requests : key[r] = KeyOf(kind[r]) /\ kind[r] \in Kinds
  BY <1>1
<1>3. /\ object \in [Keys -> Fetches \cup {None}]
      /\ marker \in [Keys -> [at : {"none", "fresh", "stale", "past", "hfm"}, fallback : BOOLEAN]]
      /\ pc \in [Fetches -> Labels]
      /\ got \in [Fetches -> [ans : Answers \cup {"none"}, version : 0..MaxVersion, whole : BOOLEAN]]
  BY DEF Types
<1>4. \A k \in Keys : /\ object[k] # None => object[k] \in Fetches
                      /\ marker[k].at \in {"none", "fresh", "stale", "past", "hfm"}
  BY <1>3
<1>5. \A f \in Fetches : /\ pc[f] \in Labels /\ got[f].ans \in Answers \cup {"none"}
                         /\ got[f].version \in 0..MaxVersion
  BY <1>3
<1> QED BY <1>1, <1>2, <1>4, <1>5

\* No step changes what a request is.
LEMMA KindFixed ==
  ASSUME [Next]_vars
  PROVE  kind' = kind /\ key' = key
<1>1. ASSUME UNCHANGED vars \/ Publish \/ \E k \in Keys : Age(k) \/ Evict(k)
      PROVE  kind' = kind /\ key' = key
  BY <1>1 DEF vars, coalesceVars, Publish, Age, Evict
<1>2. ASSUME NEW f \in Fetches, Origin(f) \/ Decide(f) \/ Stream(f) \/ Commit(f) \/ MarkFresh(f)
      PROVE  kind' = kind /\ key' = key
  BY <1>2 DEF coalesceVars, Origin, Decide, Stream, Commit, MarkFresh
<1>3. ASSUME NEW r \in Requests,
             \/ Gated(r) \/ Purge(r) \/ Lookup(r) \/ Panic(r) \/ Hit(r) \/ NoHit(r)
             \/ Fallback(r) \/ LastGood(r) \/ Forget(r)
      PROVE  kind' = kind /\ key' = key
  BY <1>3 DEF coalesceVars, Gated, Purge, Lookup, Panic, Hit, NoHit, Fallback, LastGood, Forget
<1>4. ASSUME NEW r \in Requests, Gone(r) \/ Miss(r) \/ Wake(r) \/ Reread(r) \/ Finish(r) \/ Close(r)
      PROVE  kind' = kind /\ key' = key
  BY <1>4 DEF coalesceVars, Gone, Miss, Wake, Reread, Finish, Close, C!Enter, C!Cancel, C!Unregister,
              C!Close, C!Wake, C!FallThrough, C!Leave
<1>5. ASSUME NEW r \in Requests, Trigger(r) \/ Launch(r) \/ Revalidated(r) \/ Wind(r)
      PROVE  kind' = kind /\ key' = key
  BY <1>5 DEF C!fetchVars, Trigger, Launch, Revalidated, Wind, C!Begin, C!Admit, C!Revalidated, C!End, C!Release
<1> QED BY <1>1, <1>2, <1>3, <1>4, <1>5, Steps

\* A step moves at most one fetch, to a label of the control flow.
LEMMA PcStep ==
  ASSUME Types, [Next]_vars
  PROVE  pc' = pc \/ \E f \in Fetches, l \in Labels : pc' = [pc EXCEPT ![f] = l]
<1>1. CASE UNCHANGED vars \/ Publish \/ \E k \in Keys : Age(k) \/ Evict(k)
  BY <1>1 DEF vars, Publish, Age, Evict
<1>2. ASSUME NEW f \in Fetches, Origin(f) \/ Decide(f) \/ Stream(f) \/ Commit(f) \/ MarkFresh(f)
      PROVE  \E l \in Labels : pc' = [pc EXCEPT ![f] = l]
  BY <1>2 DEF Origin, Decide, Stream, Commit, MarkFresh, Goto, Labels
<1>3. ASSUME NEW r \in Requests,
             Gated(r) \/ Purge(r) \/ Gone(r) \/ Panic(r) \/ Hit(r) \/ NoHit(r) \/ Miss(r) \/ Wake(r)
               \/ Reread(r) \/ Fallback(r) \/ LastGood(r) \/ Finish(r) \/ Close(r) \/ Forget(r) \/ Trigger(r)
      PROVE  \E l \in Labels : pc' = [pc EXCEPT ![Fg(r)] = l]
  BY <1>3 DEF Gated, Purge, Gone, Panic, Hit, NoHit, Miss, Wake, Reread, Fallback, LastGood, Finish,
              Close, Forget, Trigger, Goto, Labels
<1>4. ASSUME NEW r \in Requests, Lookup(r) PROVE \E l \in Labels : pc' = [pc EXCEPT ![Fg(r)] = l]
  <2>1. \A s : Route(kind[r], s) \in Labels
    BY RouteFacts DEF Labels
  <2>2. \E s : pc' = [pc EXCEPT ![Fg(r)] = Route(kind[r], s)]
    BY <1>4 DEF Lookup, Goto
  <2> QED BY <2>1, <2>2
<1>5. ASSUME NEW r \in Requests, Launch(r) \/ Revalidated(r) \/ Wind(r)
      PROVE  pc' = pc \/ \E l \in Labels : pc' = [pc EXCEPT ![Bg(r)] = l]
  BY <1>5 DEF Launch, Revalidated, Wind, Goto, Labels
<1> QED BY SMT, <1>1, <1>2, <1>3, <1>4, <1>5, Steps, Names

\* A step answers at most one request.
LEMMA ReplyStep ==
  ASSUME Types, [Next]_vars
  PROVE  \/ reply' = reply
         \/ \E r \in Requests, from \in {"gate", "purged", "cache", "origin", "gone", "panic"},
               by \in Fetches \cup {None} : reply' = [reply EXCEPT ![r] = [from |-> from, by |-> by]]
<1> DEFINE Sources == {"gate", "purged", "cache", "origin", "gone", "panic"}
           Goal == \/ reply' = reply
                   \/ \E r \in Requests, from \in Sources, by \in Fetches \cup {None} :
                        reply' = [reply EXCEPT ![r] = [from |-> from, by |-> by]]
<1>1. ASSUME UNCHANGED vars \/ Publish \/ \E k \in Keys : Age(k) \/ Evict(k)
      PROVE  Goal
  BY <1>1 DEF vars, Publish, Age, Evict
<1>2. ASSUME NEW f \in Fetches, Origin(f) \/ Stream(f) \/ Commit(f) \/ MarkFresh(f)
      PROVE  Goal
  BY <1>2 DEF Origin, Stream, Commit, MarkFresh
<1>3. ASSUME NEW f \in Fetches, Decide(f)
      PROVE  Goal
  <2>1. reply' = reply \/ reply' = [reply EXCEPT ![f[1]] = [from |-> "origin", by |-> f]]
    BY <1>3 DEF Decide, Reply
  <2>2. f[1] \in Requests /\ "origin" \in Sources
    BY Names
  <2> QED BY <2>1, <2>2
<1>4. ASSUME NEW r \in Requests,
             Lookup(r) \/ NoHit(r) \/ Miss(r) \/ Wake(r) \/ Fallback(r) \/ Finish(r) \/ Close(r) \/ Forget(r)
               \/ Trigger(r) \/ Launch(r) \/ Revalidated(r) \/ Wind(r)
      PROVE  Goal
  BY <1>4 DEF Lookup, NoHit, Miss, Wake, Fallback, Finish, Close, Forget, Trigger, Launch, Revalidated, Wind
<1>5. ASSUME NEW r \in Requests, Gated(r) \/ Purge(r) \/ Gone(r) \/ Panic(r)
      PROVE  Goal
  BY <1>5 DEF Gated, Purge, Gone, Panic, Reply
<1>6. ASSUME NEW r \in Requests, Hit(r) \/ Reread(r) \/ LastGood(r)
      PROVE  Goal
  <2>1. object[key[r]] # None => object[key[r]] \in Fetches
    BY TypeFacts
  <2>2. \/ reply' = reply
        \/ object[key[r]] # None /\ reply' = [reply EXCEPT ![r] = [from |-> "cache", by |-> object[key[r]]]]
    BY <1>6 DEF Hit, Reread, LastGood, Serve, Reply
  <2>3. "cache" \in Sources
    OBVIOUS
  <2> QED BY <2>1, <2>2, <2>3
<1> HIDE DEF Goal
<1>7. Goal
  BY <1>1, <1>2, <1>3, <1>4, <1>5, <1>6, Steps
<1> QED BY <1>7 DEF Goal

\* The store and the freshness index keep their types.
LEMMA CacheStep ==
  ASSUME Types, [Next]_vars
  PROVE  /\ object' \in [Keys -> Fetches \cup {None}]
         /\ marker' \in [Keys -> [at : {"none", "fresh", "stale", "past", "hfm"}, fallback : BOOLEAN]]
         /\ \A k \in Keys : marker'[k].at = "past" => marker'[k].fallback
<1> DEFINE Goal == /\ object' \in [Keys -> Fetches \cup {None}]
                   /\ marker' \in [Keys -> [at : {"none", "fresh", "stale", "past", "hfm"}, fallback : BOOLEAN]]
                   /\ \A k \in Keys : marker'[k].at = "past" => marker'[k].fallback
<1>0. /\ object \in [Keys -> Fetches \cup {None}]
      /\ marker \in [Keys -> [at : {"none", "fresh", "stale", "past", "hfm"}, fallback : BOOLEAN]]
      /\ \A k \in Keys : marker[k].at = "past" => marker[k].fallback
      /\ key \in [Requests -> Keys] /\ "get" \in Keys
  BY TypeFacts DEF Types
<1>1. ASSUME object' = object, marker' = marker PROVE Goal
  BY <1>0, <1>1
<1>2. ASSUME NEW k \in Keys, Evict(k) PROVE Goal
  BY <1>0, <1>2 DEF Evict
<1>3. ASSUME NEW f \in Fetches, Commit(f) PROVE Goal
  BY SMT, <1>0, <1>3, Names DEF Commit
<1>4. ASSUME NEW k \in Keys, NEW at \in {"none", "fresh", "stale", "past", "hfm"}, NEW fb \in BOOLEAN,
             at = "past" => fb, Mark(k, at, fb), object' = object
      PROVE  Goal
  BY <1>0, <1>4 DEF Mark
<1>5. ASSUME NEW k \in Keys, Age(k) PROVE Goal
  <2>1. PICK at \in {"stale", "past", "none"} : at = Older(marker[k]) /\ (at = "past" => marker[k].fallback)
    BY OlderFacts
  <2>2. PICK fb \in BOOLEAN : fb = (at # "none" /\ marker[k].fallback)
    OBVIOUS
  <2>3. Mark(k, at, fb) /\ object' = object
    BY <1>5, <2>1, <2>2 DEF Age
  <2>4. at = "past" => fb
    BY <2>1, <2>2
  <2> QED BY <1>4, <2>3, <2>4
<1>6. \A f \in Fetches : key[f[1]] \in Keys
  BY <1>0, Names
<1>7. ASSUME NEW f \in Fetches, Decide(f) PROVE Goal
  <2>1. object' = object /\ (marker' = marker \/ Mark(key[f[1]], "hfm", FALSE))
    BY <1>7 DEF Decide
  <2> QED BY <1>1, <1>4, <1>6, <2>1
<1>8. ASSUME NEW f \in Fetches, MarkFresh(f) PROVE Goal
  <2>1. PICK fb \in BOOLEAN : fb = (got[f].ans # "failNeg")
    OBVIOUS
  <2>2. object' = object /\ Mark(key[f[1]], "fresh", fb)
    BY <1>8, <2>1 DEF MarkFresh
  <2> QED BY <1>4, <1>6, <2>2
<1>9. ASSUME NEW r \in Requests, Purge(r) \/ Forget(r) PROVE Goal
  <2>1. object' = object /\ Mark("get", "none", FALSE)
    BY <1>9 DEF Purge, Forget, Invalidate, ForgottenKey
  <2> QED BY <1>0, <1>4, <2>1
<1>10. ASSUME NEW r \in Requests,
              Gated(r) \/ Lookup(r) \/ Gone(r) \/ Panic(r) \/ Hit(r) \/ NoHit(r) \/ Miss(r) \/ Wake(r)
                \/ Reread(r) \/ Fallback(r) \/ LastGood(r) \/ Finish(r) \/ Close(r) \/ Trigger(r) \/ Launch(r)
                \/ Revalidated(r) \/ Wind(r)
       PROVE  object' = object /\ marker' = marker
  BY <1>10 DEF Gated, Lookup, Gone, Panic, Hit, NoHit, Miss, Wake, Reread, Fallback, LastGood, Finish,
               Close, Trigger, Launch, Revalidated, Wind
<1>11. ASSUME NEW f \in Fetches, Origin(f) \/ Stream(f) PROVE object' = object /\ marker' = marker
  BY <1>11 DEF Origin, Stream
<1>12. ASSUME Publish \/ UNCHANGED vars PROVE Goal
  BY <1>1, <1>12 DEF Publish, vars
<1> HIDE DEF Goal
<1>13. ASSUME NEW r \in Requests,
              Gated(r) \/ Purge(r) \/ Lookup(r) \/ Gone(r) \/ Panic(r) \/ Hit(r) \/ NoHit(r) \/ Miss(r)
                \/ Wake(r) \/ Reread(r) \/ Fallback(r) \/ LastGood(r) \/ Finish(r) \/ Close(r) \/ Forget(r)
                \/ Trigger(r) \/ Launch(r) \/ Revalidated(r) \/ Wind(r)
       PROVE  Goal
  BY <1>1, <1>9, <1>10, <1>13
<1>14. ASSUME NEW f \in Fetches, Origin(f) \/ Decide(f) \/ Stream(f) \/ Commit(f) \/ MarkFresh(f)
       PROVE  Goal
  BY <1>1, <1>3, <1>7, <1>8, <1>11, <1>14
<1>15. Goal
  BY <1>2, <1>5, <1>12, <1>13, <1>14, Steps
<1> QED BY <1>15 DEF Goal

\* Every step keeps the types.
LEMMA TypesStep ==
  ASSUME Types, [Next]_vars
  PROVE  Types'
<1>1. kind' \in [Requests -> Kinds] /\ key' = [r \in Requests |-> KeyOf(kind'[r])]
  BY KindFixed DEF Types
<1>2. pc' \in [Fetches -> Labels]
  BY PcStep DEF Types
<1>3. reply' \in [Requests -> [from : {"none", "gate", "purged", "cache", "origin", "gone", "panic"},
                               by : Fetches \cup {None}]]
  BY SMT, ReplyStep DEF Types
<1>4. /\ state' \in [Requests -> {"none", "fresh", "stale", "past", "hfm"}]
      /\ version' \in 0..MaxVersion /\ written' \in 0..MaxVersion
      /\ got' \in [Fetches -> [ans : Answers \cup {"none"}, version : 0..MaxVersion, whole : BOOLEAN]]
      /\ doomed' \in SUBSET Fetches /\ seen' \in [Requests -> SUBSET Fetches]
  <2>0. /\ state \in [Requests -> {"none", "fresh", "stale", "past", "hfm"}]
        /\ version \in 0..MaxVersion /\ written \in 0..MaxVersion /\ MaxVersion \in Nat
        /\ got \in [Fetches -> [ans : Answers \cup {"none"}, version : 0..MaxVersion, whole : BOOLEAN]]
        /\ doomed \in SUBSET Fetches /\ seen \in [Requests -> SUBSET Fetches]
    BY ServeAssumptions DEF Types, ServeAssumptions
  <2>1. CASE UNCHANGED <<state, version, written, got, doomed, seen>>
    BY <2>0, <2>1
  <2>2. CASE Publish
    BY SMT, <2>0, <2>2 DEF Publish, history
  <2>3. ASSUME NEW f \in Fetches, Origin(f)
        PROVE  /\ UNCHANGED <<state, written, doomed, seen>> /\ version' \in 0..MaxVersion
               /\ got' \in [Fetches -> [ans : Answers \cup {"none"}, version : 0..MaxVersion, whole : BOOLEAN]]
    <3>1. PICK a \in Answers, d \in 0..1 :
            /\ version + d <= MaxVersion /\ version' = version + d
            /\ got' = [got EXCEPT ![f] = [ans |-> a, version |-> version + d, whole |-> TRUE]]
      BY <2>3 DEF Origin
    <3>2. version + d \in 0..MaxVersion
      BY SMT, <2>0, <3>1
    <3> QED BY <2>0, <2>3, <3>1, <3>2 DEF Origin, history
  <2>4. ASSUME NEW f \in Fetches, Stream(f)
        PROVE  /\ UNCHANGED <<state, version, written, doomed, seen>>
               /\ got' \in [Fetches -> [ans : Answers \cup {"none"}, version : 0..MaxVersion, whole : BOOLEAN]]
    <3>1. PICK whole \in BOOLEAN : got' = [got EXCEPT ![f].whole = whole]
      BY <2>4 DEF Stream
    <3> QED BY SMT, <2>0, <2>4, <3>1 DEF Stream, history
  <2>5. ASSUME NEW r \in Requests, Gated(r) \/ Lookup(r)
        PROVE  /\ UNCHANGED <<version, written, got, doomed>> /\ seen' \in [Requests -> SUBSET Fetches]
               /\ state' \in [Requests -> {"none", "fresh", "stale", "past", "hfm"}]
    BY <2>0, <2>5, TypeFacts DEF Gated, Lookup, Arrives
  <2>6. ASSUME NEW r \in Requests, Purge(r) \/ Forget(r)
        PROVE  /\ UNCHANGED <<state, version, got>> /\ written' \in 0..MaxVersion
               /\ doomed' \in SUBSET Fetches /\ seen' \in [Requests -> SUBSET Fetches]
    <3>1. object["get"] # None => object["get"] \in Fetches
      BY TypeFacts
    <3>2. got[Fg(r)].version \in 0..MaxVersion
      BY TypeFacts, Names
    <3>3. UNCHANGED <<state, version, got>> /\ written' \in {written, got[Fg(r)].version}
      BY <2>6 DEF Purge, Forget
    <3>4. doomed' = doomed \/ (object["get"] # None /\ doomed' = doomed \cup {object["get"]})
      BY <2>6 DEF Purge, Forget, Invalidate
    <3>5. seen' = seen \/ seen' = [seen EXCEPT ![r] = doomed]
      BY <2>6 DEF Purge, Forget, Arrives
    <3>6. seen' \in [Requests -> SUBSET Fetches]
      BY <2>0, <3>5
    <3> QED BY <2>0, <3>1, <3>2, <3>3, <3>4, <3>6
  <2>7. ASSUME NEW r \in Requests,
               Gone(r) \/ Panic(r) \/ Hit(r) \/ NoHit(r) \/ Miss(r) \/ Wake(r) \/ Reread(r) \/ Fallback(r)
                 \/ LastGood(r) \/ Finish(r) \/ Close(r) \/ Trigger(r) \/ Launch(r) \/ Revalidated(r) \/ Wind(r)
        PROVE  UNCHANGED <<state, version, written, got, doomed, seen>>
    BY <2>7 DEF Gone, Panic, Hit, NoHit, Miss, Wake, Reread, Fallback, LastGood, Finish, Close, Trigger,
                Launch, Revalidated, Wind, history
  <2>8. ASSUME NEW f \in Fetches, Decide(f) \/ MarkFresh(f)
        PROVE  UNCHANGED <<state, version, written, got, doomed, seen>>
    BY <2>8 DEF Decide, MarkFresh, history
  <2>10. ASSUME NEW f \in Fetches, Commit(f)
         PROVE  /\ UNCHANGED <<state, version, written, got>>
                /\ doomed' \in SUBSET Fetches /\ seen' \in [Requests -> SUBSET Fetches]
    <3>1. /\ UNCHANGED <<state, version, written, got>>
          /\ UNCHANGED <<doomed, seen>> \/ \E o : Announced(o)
      BY <2>10 DEF Commit
    <3> QED BY <2>0, <3>1 DEF Announced
  <2>9. CASE UNCHANGED vars \/ \E k \in Keys : Age(k) \/ Evict(k)
    BY <2>1, <2>9 DEF vars, Age, Evict, history
  <2> QED BY <2>0, <2>1, <2>2, <2>3, <2>4, <2>5, <2>6, <2>7, <2>8, <2>9, <2>10, Steps
<1> QED BY <1>1, <1>2, <1>3, <1>4, CacheStep DEF Types

-----------------------------------------------------------------------------
\* What a step leaves of a fetch that it does not touch.
Kept(f) == got'[f] = got[f] /\ (f[2] = "fg" => state'[f[1]] = state[f[1]])

\* The ways a fetch can move in a step: arrival, the lookup and the coalescer,
\* the origin's answer, the last good copy, the verdict, the body, the commit and
\* what follows it, and a panic.
Move(f) ==
    \/ pc'[f] = pc[f] /\ Kept(f)
    \/ pc[f] = "idle" /\ pc'[f] \in {"done", "cache", "miss", "origin"} /\ got'[f] = got[f]
    \/ /\ pc[f] \in {"cache", "trigger", "miss", "wait", "reread"}
       /\ pc'[f] \in {"trigger", "miss", "wait", "reread", "origin", "done"} /\ Kept(f)
       /\ pc[f] = "trigger" => pc'[f] = "done"
    \/ /\ pc[f] = "origin" /\ pc'[f] \in {"fallback", "decide"} /\ got'[f].whole = TRUE
       /\ pc'[f] = "fallback" => got'[f].ans \in Failures \cup {"neg"}
    \/ pc[f] \in {"fallback", "lastGood"} /\ pc'[f] \in {"lastGood", "decide", "failed"} /\ Kept(f)
    \/ /\ pc[f] = "decide" /\ pc'[f] \in {"stream", "commit", "failed"} /\ Kept(f)
       /\ pc'[f] # "failed" => Stores(f)
    \/ /\ pc[f] = "stream" /\ pc'[f] \in {"commit", "failed"}
       /\ got'[f].ans = got[f].ans /\ (f[2] = "fg" => state'[f[1]] = state[f[1]])
       /\ pc'[f] = "commit" => got'[f].whole = TRUE
    \/ /\ pc[f] \in After \cup {"commit"} /\ pc'[f] \in After /\ Kept(f)
       /\ pc'[f] = "mark" => pc[f] = "commit"
       /\ pc'[f] = "succeeded" => pc[f] = "mark"
    \/ pc[f] \in {"origin", "decide", "stream"} /\ pc'[f] = "failed" /\ Kept(f)

\* Every step of the handler moves each fetch in one of these ways.
LEMMA Moves ==
  ASSUME Types, FetchInv, [Next]_vars
  PROVE  \A f \in Fetches : Move(f)
<1>0. /\ pc \in [Fetches -> Labels]
      /\ got \in [Fetches -> [ans : Answers \cup {"none"}, version : 0..MaxVersion, whole : BOOLEAN]]
      /\ state \in [Requests -> {"none", "fresh", "stale", "past", "hfm"}]
  BY DEF Types
<1>1. ASSUME UNCHANGED <<pc, got, state>> PROVE \A f \in Fetches : Move(f)
  BY <1>1 DEF Move, Kept
<1>2. ASSUME NEW r \in Requests, Gated(r) \/ Purge(r) \/ Lookup(r)
      PROVE  \A f \in Fetches : Move(f)
  <2>1. \A s : Route(kind[r], s) \in {"done", "cache", "miss", "origin"}
    BY RouteFacts
  <2>2. PICK l \in {"done", "cache", "miss", "origin"} : pc' = [pc EXCEPT ![Fg(r)] = l]
    BY <1>2, <2>1 DEF Gated, Purge, Lookup, Goto
  <2>3. /\ pc[Fg(r)] = "idle" /\ got' = got
        /\ \A q \in Requests : q # r => state'[q] = state[q]
    BY <1>0, <1>2 DEF Gated, Purge, Lookup, Arrives
  <2>4. ASSUME NEW f \in Fetches, f # Fg(r) PROVE Move(f)
    <3>1. f[2] = "fg" => state'[f[1]] = state[f[1]]
      BY <2>3, <2>4, Names
    <3> QED BY <1>0, <2>2, <2>3, <2>4, <3>1 DEF Move, Kept
  <2>5. Move(Fg(r))
    BY <1>0, <2>2, <2>3, Names DEF Move
  <2> QED BY <2>4, <2>5
<1>3. ASSUME NEW g \in Fetches, NEW l, pc' = [pc EXCEPT ![g] = l], got' = got, state' = state,
             \/ /\ pc[g] \in {"cache", "trigger", "miss", "wait", "reread"}
                /\ l \in {"trigger", "miss", "wait", "reread", "origin", "done"}
                /\ pc[g] = "trigger" => l = "done"
             \/ pc[g] = "idle" /\ l \in {"origin", "done"}
             \/ pc[g] \in {"fallback", "lastGood"} /\ l \in {"lastGood", "decide", "failed"}
             \/ pc[g] = "decide" /\ l \in {"stream", "commit", "failed"} /\ (l # "failed" => Stores(g))
             \/ /\ pc[g] \in After \cup {"commit"} /\ l \in After
                /\ (l = "mark" => pc[g] = "commit") /\ (l = "succeeded" => pc[g] = "mark")
             \/ pc[g] \in {"origin", "decide", "stream"} /\ l = "failed"
      PROVE  \A f \in Fetches : Move(f)
  <2>1. pc'[g] = l /\ Kept(g) /\ \A f \in Fetches : f # g => pc'[f] = pc[f] /\ Kept(f)
    BY <1>0, <1>3 DEF Kept
  <2>2. Move(g)
    BY <1>3, <2>1 DEF Move
  <2> QED BY SMT, <2>1, <2>2 DEF Move
<1>4. ASSUME NEW r \in Requests, Hit(r) \/ NoHit(r) \/ Miss(r) \/ Wake(r) \/ Gone(r) \/ Reread(r) \/ Trigger(r)
      PROVE  \A f \in Fetches : Move(f)
  <2>1. PICK l \in {"trigger", "miss", "wait", "reread", "origin", "done"} :
          /\ pc[Fg(r)] \in {"cache", "trigger", "miss", "wait", "reread"}
          /\ (pc[Fg(r)] = "trigger" => l = "done") /\ got' = got /\ state' = state
          /\ pc' = [pc EXCEPT ![Fg(r)] = l]
    BY <1>4 DEF Hit, NoHit, Miss, Wake, Gone, Reread, Trigger, Goto
  <2>2. Fg(r) \in Fetches
    BY Names
  <2> QED BY <1>3, <2>1, <2>2
<1>5. ASSUME NEW r \in Requests, Fallback(r) \/ LastGood(r)
      PROVE  \A f \in Fetches : Move(f)
  <2>1. PICK l \in {"lastGood", "decide", "failed"} :
          /\ pc[Fg(r)] \in {"fallback", "lastGood"} /\ got' = got /\ state' = state
          /\ pc' = [pc EXCEPT ![Fg(r)] = l]
    BY <1>5 DEF Fallback, LastGood, Goto
  <2>2. Fg(r) \in Fetches
    BY Names
  <2> QED BY <1>3, <2>1, <2>2
<1>6. ASSUME NEW r \in Requests, Finish(r) \/ Close(r) \/ Forget(r)
      PROVE  \A f \in Fetches : Move(f)
  <2>1. PICK l \in After \ {"mark", "succeeded"} :
          /\ pc[Fg(r)] \in After /\ got' = got /\ state' = state
          /\ pc' = [pc EXCEPT ![Fg(r)] = l]
    BY <1>6 DEF Finish, Close, Forget, Goto, After
  <2>2. Fg(r) \in Fetches
    BY Names
  <2> QED BY <1>3, <2>1, <2>2
<1>7. ASSUME NEW r \in Requests, Panic(r)
      PROVE  \A f \in Fetches : Move(f)
  <2>1. /\ pc[Fg(r)] \in {"origin", "fallback", "lastGood", "decide", "stream", "commit", "mark"}
        /\ got' = got /\ state' = state /\ pc' = [pc EXCEPT ![Fg(r)] = "failed"]
    BY <1>7 DEF Panic, Goto
  <2>2. "failed" \in After /\ "mark" \in After
    BY DEF After
  <2> QED BY <1>3, <2>1, <2>2, Names
<1>8. ASSUME NEW r \in Requests, Launch(r)
      PROVE  \A f \in Fetches : Move(f)
  <2>1. PICK l \in {"origin", "done"} :
          /\ bg[r] = "begun" /\ got' = got /\ state' = state
          /\ pc' = [pc EXCEPT ![Bg(r)] = l]
    BY <1>8 DEF Launch, Goto, C!Admit
  <2>2. pc[Bg(r)] = "idle"
    BY <2>1 DEF FetchInv
  <2>3. Bg(r) \in Fetches
    BY Names
  <2> QED BY <1>3, <2>1, <2>2, <2>3
<1>9. ASSUME NEW r \in Requests, Revalidated(r)
      PROVE  \A f \in Fetches : Move(f)
  <2>1. /\ pc[Bg(r)] \in After /\ got' = got /\ state' = state /\ pc' = [pc EXCEPT ![Bg(r)] = "done"]
    BY <1>9 DEF Revalidated, Goto, After
  <2>2. "done" \in After
    BY DEF After
  <2> QED BY <1>3, <2>1, <2>2, Names
<1>10. ASSUME NEW g \in Fetches, Decide(g)
      PROVE  \A f \in Fetches : Move(f)
  <2>1. PICK l \in {"stream", "commit", "failed"} :
          /\ pc[g] = "decide" /\ got' = got /\ state' = state
          /\ pc' = [pc EXCEPT ![g] = l] /\ (l # "failed" => Stores(g))
    BY <1>10 DEF Decide, Goto
  <2> QED BY <1>3, <2>1
<1>11. ASSUME NEW g \in Fetches, Commit(g) \/ MarkFresh(g)
      PROVE  \A f \in Fetches : Move(f)
  <2>1. PICK l \in After :
          /\ pc[g] \in After \cup {"commit"} /\ (l = "mark" => pc[g] = "commit")
          /\ (l = "succeeded" => pc[g] = "mark") /\ got' = got /\ state' = state /\ pc' = [pc EXCEPT ![g] = l]
    BY <1>11 DEF Commit, MarkFresh, Goto, After
  <2> QED BY <1>3, <2>1
<1>12. ASSUME NEW g \in Fetches, Origin(g)
      PROVE  \A f \in Fetches : Move(f)
  <2>1. PICK a, v :
          /\ got' = [got EXCEPT ![g] = [ans |-> a, version |-> v, whole |-> TRUE]]
          /\ pc[g] = "origin" /\ state' = state
          /\ \E l \in {"fallback", "decide"} :
               pc' = [pc EXCEPT ![g] = l] /\ (l = "fallback" => a \in Failures \cup {"neg"})
    BY <1>12 DEF Origin, Goto
  <2>2. got'[g].whole = TRUE /\ got'[g].ans = a /\ \A f \in Fetches : f # g => pc'[f] = pc[f] /\ Kept(f)
    BY <1>0, <2>1 DEF Kept
  <2>3. Move(g)
    BY <1>0, <2>1, <2>2 DEF Move
  <2> QED BY SMT, <2>2, <2>3 DEF Move
<1>13. ASSUME NEW g \in Fetches, Stream(g)
      PROVE  \A f \in Fetches : Move(f)
  <2>1. PICK whole \in BOOLEAN, l \in {"commit", "failed"} :
          /\ got' = [got EXCEPT ![g].whole = whole] /\ (l = "commit" => whole = TRUE)
          /\ pc[g] = "stream" /\ state' = state /\ pc' = [pc EXCEPT ![g] = l]
    <3>1. PICK declared \in BOOLEAN, all \in BOOLEAN, clean \in BOOLEAN :
            /\ got' = [got EXCEPT ![g].whole = clean /\ (all \/ ~declared)]
            /\ pc' = [pc EXCEPT ![g] = IF clean /\ (declared => all) THEN "commit" ELSE "failed"]
            /\ pc[g] = "stream" /\ state' = state
      BY <1>13 DEF Stream, Goto, Commits
    <3> DEFINE w == clean /\ (all \/ ~declared)
               m == IF clean /\ (declared => all) THEN "commit" ELSE "failed"
    <3>2. w \in BOOLEAN /\ m \in {"commit", "failed"} /\ (m = "commit" => w = TRUE)
      OBVIOUS
    <3>3. got' = [got EXCEPT ![g].whole = w] /\ pc' = [pc EXCEPT ![g] = m]
      BY <3>1
    <3> HIDE DEF w, m
    <3> QED BY <3>1, <3>2, <3>3
  <2>2. got'[g].whole = whole /\ got'[g].ans = got[g].ans /\ pc'[g] = l
    BY <1>0, <2>1
  <2>3. \A f \in Fetches : f # g => pc'[f] = pc[f] /\ Kept(f)
    BY <1>0, <2>1 DEF Kept
  <2>4. Move(g)
    BY <2>1, <2>2 DEF Move
  <2> QED BY SMT, <2>3, <2>4 DEF Move
<1>14. ASSUME UNCHANGED vars \/ Publish \/ (\E k \in Keys : Age(k) \/ Evict(k)) \/ \E r \in Requests : Wind(r)
       PROVE  UNCHANGED <<pc, got, state>>
  BY <1>14 DEF vars, Publish, Age, Evict, Wind
<1>15. ASSUME NEW g \in Fetches, Origin(g) \/ Decide(g) \/ Stream(g) \/ Commit(g) \/ MarkFresh(g)
       PROVE  \A f \in Fetches : Move(f)
  BY <1>10, <1>11, <1>12, <1>13, <1>15
<1>16. ASSUME NEW r \in Requests,
              Gated(r) \/ Purge(r) \/ Lookup(r) \/ Gone(r) \/ Panic(r) \/ Hit(r) \/ NoHit(r) \/ Miss(r)
                \/ Wake(r) \/ Reread(r) \/ Fallback(r) \/ LastGood(r) \/ Finish(r) \/ Close(r) \/ Forget(r)
                \/ Trigger(r) \/ Launch(r) \/ Revalidated(r)
       PROVE  \A f \in Fetches : Move(f)
  BY <1>2, <1>4, <1>5, <1>6, <1>7, <1>8, <1>9, <1>16
<1> QED BY <1>1, <1>14, <1>15, <1>16, Steps

\* Whether a fetch stores depends on its own answer and verdict only.
LEMMA StoresKept ==
  ASSUME NEW f \in Fetches, got'[f].ans = got[f].ans, kind' = kind,
         f[2] = "fg" => state'[f[1]] = state[f[1]]
  PROVE  Stores(f)' <=> Stores(f)
BY DEF Stores, Unsafe

\* A fetch that has stored is over but for its bookkeeping.
LEMMA AfterStays ==
  ASSUME Types, FetchInv, [Next]_vars, NEW f \in Fetches, pc[f] \in After
  PROVE  pc'[f] \in After /\ Kept(f) /\ (Stores(f)' <=> Stores(f))
<1>1. pc'[f] \in After /\ Kept(f)
  BY Moves DEF Move, After
<1> QED BY <1>1, KindFixed, StoresKept DEF Kept

\* A key gets a new copy by the commit of a fetch for it, and only by that.
LEMMA ObjectStep ==
  ASSUME Types, [Next]_vars, NEW k \in Keys
  PROVE  \/ object'[k] = object[k] \/ object'[k] = None
         \/ \E g \in Fetches : /\ object'[k] = g /\ key[g[1]] = k
                               /\ pc[g] = "commit" /\ pc' = [pc EXCEPT ![g] = "mark"] /\ got' = got
<1> DEFINE Goal == \/ object'[k] = object[k] \/ object'[k] = None
                   \/ \E g \in Fetches : /\ object'[k] = g /\ key[g[1]] = k
                                         /\ pc[g] = "commit" /\ pc' = [pc EXCEPT ![g] = "mark"] /\ got' = got
<1>0. object \in [Keys -> Fetches \cup {None}]
  BY DEF Types
<1>1. ASSUME object' = object PROVE Goal
  BY <1>1
<1>2. ASSUME NEW x \in Keys, Evict(x) PROVE Goal
  BY <1>0, <1>2 DEF Evict
<1>3. ASSUME NEW g \in Fetches, Commit(g) PROVE Goal
  BY <1>0, <1>3 DEF Commit, Goto
<1>4. ASSUME NEW r \in Requests,
             Gated(r) \/ Purge(r) \/ Lookup(r) \/ Gone(r) \/ Panic(r) \/ Hit(r) \/ NoHit(r) \/ Miss(r)
               \/ Wake(r) \/ Reread(r) \/ Fallback(r) \/ LastGood(r) \/ Finish(r) \/ Close(r) \/ Forget(r)
               \/ Trigger(r) \/ Launch(r) \/ Revalidated(r) \/ Wind(r)
      PROVE  object' = object
  BY <1>4 DEF Gated, Purge, Lookup, Gone, Panic, Hit, NoHit, Miss, Wake, Reread, Fallback, LastGood, Finish,
              Close, Forget, Trigger, Launch, Revalidated, Wind
<1>5. ASSUME NEW g \in Fetches, Origin(g) \/ Decide(g) \/ Stream(g) \/ MarkFresh(g) PROVE object' = object
  BY <1>5 DEF Origin, Decide, Stream, MarkFresh
<1>6. ASSUME UNCHANGED vars \/ Publish \/ \E x \in Keys : Age(x) PROVE object' = object
  BY <1>6 DEF vars, Publish, Age
<1> HIDE DEF Goal
<1>7. Goal
  BY <1>1, <1>2, <1>3, <1>4, <1>5, <1>6, Steps
<1> QED BY <1>7 DEF Goal

\* A background fetch starts once, when its goroutine gets its token.
LEMMA BackgroundStart ==
  ASSUME Types, CInv, FetchInv, [Next]_vars, NEW r \in Requests, pc'[Bg(r)] # "idle"
  PROVE  bg'[r] \notin {"none", "begun"}
<1>0. pc \in [Fetches -> Labels] /\ bg \in [Requests -> C!Stages] /\ Bg(r) \in Fetches
  BY Names DEF Types, CInv, C!CoalesceTypeOK
<1>1. CASE pc[Bg(r)] # "idle"
  <2>1. bg[r] \notin {"none", "begun"}
    BY <1>1 DEF FetchInv
  <2>2. ASSUME NEW q \in Requests,
               C!Begin(q) \/ C!Admit(q) \/ C!Revalidated(q) \/ C!End(q) \/ C!Release(q)
        PROVE  bg'[r] \notin {"none", "begun"}
    BY <1>0, <2>1, <2>2 DEF C!Begin, C!Admit, C!Revalidated, C!End, C!Release
  <2>3. ASSUME NEW q \in Requests,
               C!Enter(q) \/ (\E ok \in BOOLEAN : C!Unregister(q, ok)) \/ C!Close(q) \/ C!Wake(q)
                 \/ C!Cancel(q) \/ C!FallThrough(q) \/ C!Leave(q)
        PROVE  bg' = bg
    BY <2>3 DEF C!Enter, C!Unregister, C!Close, C!Wake, C!Cancel, C!FallThrough, C!Leave, C!bgVars
  <2>4. ASSUME UNCHANGED C!coalescerVars PROVE bg' = bg
    BY <2>4 DEF C!coalescerVars
  <2> QED BY <2>1, <2>2, <2>3, <2>4, CoalesceSteps DEF C!CoalesceNext, C!FetchOver, C!Progress
<1>2. CASE pc[Bg(r)] = "idle"
  <2>1. ASSUME NEW g \in Fetches, Origin(g) \/ Decide(g) \/ Stream(g) \/ Commit(g) \/ MarkFresh(g)
        PROVE  FALSE
    BY <1>0, <1>2, <2>1 DEF Origin, Decide, Stream, Commit, MarkFresh, Goto
  <2>2. ASSUME NEW q \in Requests,
               Gated(q) \/ Purge(q) \/ Lookup(q) \/ Gone(q) \/ Panic(q) \/ Hit(q) \/ NoHit(q) \/ Miss(q)
                 \/ Wake(q) \/ Reread(q) \/ Fallback(q) \/ LastGood(q) \/ Finish(q) \/ Close(q) \/ Forget(q)
                 \/ Trigger(q)
        PROVE  FALSE
    <3>1. \E l : pc' = [pc EXCEPT ![Fg(q)] = l]
      BY <2>2 DEF Gated, Purge, Lookup, Gone, Panic, Hit, NoHit, Miss, Wake, Reread, Fallback, LastGood,
                  Finish, Close, Forget, Trigger, Goto
    <3>2. Fg(q) # Bg(r) /\ Fg(q) \in Fetches
      BY Names
    <3> QED BY <1>0, <1>2, <3>1, <3>2
  <2>3. ASSUME NEW q \in Requests, Revalidated(q) \/ Wind(q)
        PROVE  FALSE
    BY <1>0, <1>2, <2>3 DEF Revalidated, Wind, Goto
  <2>4. ASSUME NEW q \in Requests, Launch(q)
        PROVE  bg'[r] \notin {"none", "begun"}
    <3>1. /\ \E l : pc' = [pc EXCEPT ![Bg(q)] = l]
          /\ \E s \in {"running", "refused"} : bg' = [bg EXCEPT ![q] = s]
      BY <2>4 DEF Launch, Goto, C!Admit
    <3>2. q = r
      BY SMT, <1>0, <1>2, <3>1, Names
    <3> QED BY <1>0, <3>1, <3>2
  <2>5. ASSUME UNCHANGED vars \/ Publish \/ (\E k \in Keys : Age(k) \/ Evict(k)) PROVE FALSE
    BY <1>2, <2>5 DEF vars, Publish, Age, Evict
  <2> QED BY <2>1, <2>2, <2>3, <2>4, <2>5, Steps
<1> QED BY <1>1, <1>2

\* Every step keeps what leads a fetch to its commit.
LEMMA FetchStep ==
  ASSUME Types, CInv, FetchInv, [Next]_vars
  PROVE  FetchInv'
<1>1. ASSUME NEW f \in Fetches,
             pc'[f] \in {"fallback", "lastGood", "decide", "stream", "commit", "mark"}
      PROVE  got'[f].whole
  <2>1. pc[f] \in {"fallback", "lastGood", "decide", "stream", "commit", "mark"} => got[f].whole
    BY DEF FetchInv
  <2>2. Move(f)
    BY Moves
  <2> QED BY <1>1, <2>1, <2>2 DEF Move, Kept, After
<1>2. ASSUME NEW f \in Fetches, pc'[f] \in {"stream", "commit", "mark"}
      PROVE  Stores(f)'
  <2>1. pc[f] \in {"stream", "commit", "mark"} => Stores(f)
    BY DEF FetchInv
  <2>2. Move(f)
    BY Moves
  <2>3. /\ Stores(f) /\ got'[f].ans = got[f].ans
        /\ f[2] = "fg" => state'[f[1]] = state[f[1]]
    BY <1>2, <2>1, <2>2 DEF Move, Kept, After
  <2> QED BY <2>3, KindFixed, StoresKept
<1>3. ASSUME NEW k \in Keys, object'[k] # None
      PROVE  /\ pc'[object'[k]] \in After /\ Stores(object[k])' /\ got'[object'[k]].whole
             /\ key'[object'[k][1]] = k
  <2>1. CASE object'[k] = object[k]
    <3>1. PICK g \in Fetches : g = object[k] /\ g = object'[k]
      BY <1>3, <2>1, TypeFacts
    <3>2. pc[g] \in After /\ Stores(g) /\ got[g].whole /\ key[g[1]] = k
      BY <1>3, <2>1, <3>1 DEF FetchInv
    <3>3. pc'[g] \in After /\ Stores(g)' /\ got'[g].whole /\ key'[g[1]] = k
      BY <3>2, AfterStays, KindFixed DEF Kept
    <3>4. Stores(object[k])'
      BY <3>1, <3>3 DEF Stores, Unsafe
    <3> QED BY <3>1, <3>3, <3>4
  <2>2. CASE object'[k] # object[k]
    <3>1. PICK g \in Fetches : /\ object'[k] = g /\ key[g[1]] = k
                               /\ pc[g] = "commit" /\ pc' = [pc EXCEPT ![g] = "mark"] /\ got' = got
      BY <1>3, <2>2, ObjectStep
    <3>2. pc'[g] = "mark"
      BY <3>1 DEF Types
    <3>3. Stores(g)' /\ got'[g].whole
      BY <1>1, <1>2, <3>2
    <3>4. Stores(object[k])'
      BY <3>1, <3>3 DEF Stores, Unsafe
    <3> QED BY <3>1, <3>2, <3>3, <3>4, KindFixed DEF After
  <2> QED BY <2>1, <2>2
<1> QED BY <1>1, <1>2, <1>3, BackgroundStart DEF FetchInv

-----------------------------------------------------------------------------
\* How a step can answer a request: a gate, a purge or a panic, the client that
\* went away, the origin, or the copy that is in the store under the request's key.
LEMMA Replies ==
  ASSUME Types, [Next]_vars, NEW r \in Requests
  PROVE  \/ reply'[r] = reply[r]
         \/ reply'[r].from \in {"gate", "purged", "gone", "panic"}
         \/ /\ reply'[r] = [from |-> "origin", by |-> Fg(r)]
            /\ pc[Fg(r)] = "decide" /\ pc'[Fg(r)] \in {"failed", "stream", "commit"}
         \/ /\ object[key[r]] # None /\ reply'[r] = [from |-> "cache", by |-> object[key[r]]]
            /\ pc[Fg(r)] \in {"cache", "reread", "lastGood"} /\ pc'[Fg(r)] \in {"trigger", "done", "failed"}
            /\ UNCHANGED <<object, seen>>
<1> DEFINE Goal == \/ reply'[r] = reply[r]
                   \/ reply'[r].from \in {"gate", "purged", "gone", "panic"}
                   \/ /\ reply'[r] = [from |-> "origin", by |-> Fg(r)]
                      /\ pc[Fg(r)] = "decide" /\ pc'[Fg(r)] \in {"failed", "stream", "commit"}
                   \/ /\ object[key[r]] # None /\ reply'[r] = [from |-> "cache", by |-> object[key[r]]]
                      /\ pc[Fg(r)] \in {"cache", "reread", "lastGood"}
                      /\ pc'[Fg(r)] \in {"trigger", "done", "failed"}
                      /\ UNCHANGED <<object, seen>>
<1>0. /\ pc \in [Fetches -> Labels] /\ Fg(r) \in Fetches
      /\ reply \in [Requests -> [from : {"none", "gate", "purged", "cache", "origin", "gone", "panic"},
                                 by : Fetches \cup {None}]]
  BY Names DEF Types
<1>1. ASSUME reply' = reply PROVE Goal
  BY <1>1
<1>2. ASSUME NEW q \in Requests, Gated(q) \/ Purge(q) \/ Gone(q) \/ Panic(q) PROVE Goal
  <2>1. PICK s \in {"gate", "purged", "gone", "panic"} : reply' = [reply EXCEPT ![q] = [from |-> s, by |-> None]]
    BY <1>2 DEF Gated, Purge, Gone, Panic, Reply
  <2>2. reply'[r] = reply[r] \/ reply'[r].from = s
    BY <1>0, <2>1
  <2> QED BY <2>2
<1>3. ASSUME NEW g \in Fetches, Decide(g) PROVE Goal
  <2>1. CASE reply' = reply
    BY <2>1
  <2>2. CASE reply' # reply /\ g[1] = r
    <3>1. /\ g[2] = "fg" /\ reply' = [reply EXCEPT ![g[1]] = [from |-> "origin", by |-> g]]
          /\ pc[g] = "decide" /\ \E l \in {"failed", "stream", "commit"} : pc' = [pc EXCEPT ![g] = l]
      BY <1>3, <2>2 DEF Decide, Reply, Goto
    <3>2. g = Fg(r)
      BY <2>2, <3>1, Names
    <3> QED BY <1>0, <2>2, <3>1, <3>2
  <2>3. CASE reply' # reply /\ g[1] # r
    <3>1. reply' = [reply EXCEPT ![g[1]] = [from |-> "origin", by |-> g]]
      BY <1>3, <2>3 DEF Decide, Reply
    <3> QED BY <1>0, <2>3, <3>1
  <2> QED BY <2>1, <2>2, <2>3
<1>4. ASSUME NEW q \in Requests, Hit(q) \/ Reread(q) \/ LastGood(q) PROVE Goal
  <2>1. CASE reply' = reply
    BY <2>1
  <2>2. CASE reply' # reply
    <3>1. /\ object[key[q]] # None /\ reply' = [reply EXCEPT ![q] = [from |-> "cache", by |-> object[key[q]]]]
          /\ pc[Fg(q)] \in {"cache", "reread", "lastGood"}
          /\ \E l \in {"trigger", "done", "failed"} : pc' = [pc EXCEPT ![Fg(q)] = l]
          /\ UNCHANGED <<object, seen>>
      BY <1>4, <2>2 DEF Hit, Reread, LastGood, Serve, Reply, Goto, history
    <3> QED BY <1>0, <3>1
  <2> QED BY <2>1, <2>2
<1>5. ASSUME NEW q \in Requests,
             Lookup(q) \/ NoHit(q) \/ Miss(q) \/ Wake(q) \/ Fallback(q) \/ Finish(q) \/ Close(q) \/ Forget(q)
               \/ Trigger(q) \/ Launch(q) \/ Revalidated(q) \/ Wind(q)
      PROVE  reply' = reply
  BY <1>5 DEF Lookup, NoHit, Miss, Wake, Fallback, Finish, Close, Forget, Trigger, Launch, Revalidated, Wind
<1>6. ASSUME NEW g \in Fetches, Origin(g) \/ Stream(g) \/ Commit(g) \/ MarkFresh(g)
      PROVE  reply' = reply
  BY <1>6 DEF Origin, Stream, Commit, MarkFresh
<1>7. ASSUME UNCHANGED vars \/ Publish \/ \E k \in Keys : Age(k) \/ Evict(k)
      PROVE  reply' = reply
  BY <1>7 DEF vars, Publish, Age, Evict
<1> HIDE DEF Goal
<1>8. Goal
  BY <1>1, <1>2, <1>3, <1>4, <1>5, <1>6, <1>7, Steps
<1> QED BY <1>8 DEF Goal

\* Only a plain GET deals with the coalescer.
LEMMA CoalescedStep ==
  ASSUME Types, CInv, ReplyInv, [Next]_vars, NEW r \in Requests, role'[r] # "out"
  PROVE  Coalescable(r)'
<1>0. /\ role \in [Requests -> C!Roles] /\ kind' = kind
      /\ role[r] # "out" => Coalescable(r)
  BY KindFixed DEF CInv, C!CoalesceTypeOK, ReplyInv
<1>1. ASSUME NEW q \in Requests, \E s : role' = [role EXCEPT ![q] = s], role[q] # "out" \/ Coalescable(q)
      PROVE  Coalescable(r)
  BY <1>0, <1>1
<1>2. ASSUME NEW q \in Requests, Miss(q) PROVE Coalescable(r)
  <2>1. CASE role' = role
    BY <1>0, <2>1
  <2>2. CASE role' # role
    <3>1. Coalescable(q) /\ \E s : role' = [role EXCEPT ![q] = s]
      BY <1>2, <2>2 DEF Miss, C!Enter, coalesceVars
    <3> QED BY <1>1, <3>1
  <2> QED BY <2>1, <2>2
<1>3. ASSUME NEW q \in Requests, Wake(q) \/ Gone(q) \/ Reread(q) \/ Finish(q) \/ Close(q)
      PROVE  Coalescable(r)
  <2>1. CASE role' = role
    BY <1>0, <2>1
  <2>2. CASE role' # role
    <3>1. role[q] # "out" /\ \E s : role' = [role EXCEPT ![q] = s]
      BY <1>3, <2>2 DEF Wake, Gone, Reread, Finish, Close, coalesceVars,
                        C!Wake, C!Cancel, C!FallThrough, C!Leave, C!Unregister, C!Close
    <3> QED BY <1>1, <3>1
  <2> QED BY <2>1, <2>2
<1>4. ASSUME NEW q \in Requests,
             Gated(q) \/ Purge(q) \/ Lookup(q) \/ Panic(q) \/ Hit(q) \/ NoHit(q) \/ Fallback(q) \/ LastGood(q)
               \/ Forget(q) \/ Trigger(q) \/ Launch(q) \/ Revalidated(q) \/ Wind(q)
      PROVE  role' = role
  BY <1>4 DEF Gated, Purge, Lookup, Panic, Hit, NoHit, Fallback, LastGood, Forget, Trigger, Launch, Revalidated,
              Wind, coalesceVars, C!Begin, C!Admit, C!Revalidated, C!End, C!Release, C!fetchVars
<1>5. ASSUME NEW g \in Fetches, Origin(g) \/ Decide(g) \/ Stream(g) \/ Commit(g) \/ MarkFresh(g)
      PROVE  role' = role
  BY <1>5 DEF Origin, Decide, Stream, Commit, MarkFresh, coalesceVars
<1>6. ASSUME UNCHANGED vars \/ Publish \/ \E k \in Keys : Age(k) \/ Evict(k)
      PROVE  role' = role
  BY <1>6 DEF vars, Publish, Age, Evict, coalesceVars
<1>7. Coalescable(r)
  BY <1>0, <1>2, <1>3, <1>4, <1>5, <1>6, Steps
<1> QED BY <1>0, <1>7 DEF Coalescable

\* A request with an unsafe method never deals with the coalescer nor reads the
\* store before its own fetch has failed.
LEMMA UnsafeStep ==
  ASSUME Types, CInv, FetchInv, ReplyInv, [Next]_vars, NEW r \in Requests, Unsafe(r)
  PROVE  role'[r] = "out" /\ bg'[r] = "none" /\ pc'[Fg(r)] \notin {"cache", "trigger", "wait", "reread", "close"}
<1> DEFINE Apart == {"cache", "trigger", "wait", "reread", "close"}
           Goal == role'[r] = "out" /\ bg'[r] = "none" /\ pc'[Fg(r)] \notin Apart
<1>0. /\ pc \in [Fetches -> Labels] /\ Fg(r) \in Fetches
      /\ role \in [Requests -> C!Roles] /\ bg \in [Requests -> C!Stages]
      /\ \A q \in Requests : Fg(q) \in Fetches /\ Bg(q) \in Fetches /\ Bg(q) # Fg(r) /\ (Fg(q) = Fg(r) => q = r)
  BY Names DEF Types, CInv, C!CoalesceTypeOK
<1>1. role[r] = "out" /\ bg[r] = "none" /\ pc[Fg(r)] \notin Apart
  BY DEF ReplyInv
<1>2. ASSUME NEW g \in Fetches, NEW l, pc' = [pc EXCEPT ![g] = l], l \notin Apart, role' = role, bg' = bg
      PROVE  Goal
  BY <1>0, <1>1, <1>2
<1>3. ASSUME NEW q \in Requests, q # r, \E l : pc' = [pc EXCEPT ![Fg(q)] = l],
             role' = role \/ \E s : role' = [role EXCEPT ![q] = s],
             bg' = bg \/ \E s : bg' = [bg EXCEPT ![q] = s]
      PROVE  Goal
  <2>1. pc'[Fg(r)] = pc[Fg(r)]
    BY <1>0, <1>3
  <2>2. role'[r] = role[r] /\ bg'[r] = bg[r]
    BY <1>0, <1>3
  <2> QED BY <1>1, <2>1, <2>2
<1>4. ASSUME NEW g \in Fetches, Origin(g) \/ Decide(g) \/ Stream(g) \/ Commit(g) \/ MarkFresh(g)
      PROVE  Goal
  <2>1. \E l : pc' = [pc EXCEPT ![g] = l] /\ l \notin Apart /\ role' = role /\ bg' = bg
    BY <1>4 DEF Origin, Decide, Stream, Commit, MarkFresh, Goto, coalesceVars
  <2> QED BY <1>2, <2>1
<1>5. ASSUME NEW q \in Requests, Gated(q) \/ Purge(q) \/ Panic(q) \/ NoHit(q) \/ Fallback(q) \/ LastGood(q) \/ Forget(q)
      PROVE  Goal
  <2>1. \E l : pc' = [pc EXCEPT ![Fg(q)] = l] /\ l \notin Apart /\ role' = role /\ bg' = bg
    BY <1>5 DEF Gated, Purge, Panic, NoHit, Fallback, LastGood, Forget, Goto, coalesceVars
  <2> QED BY <1>0, <1>2, <2>1
<1>6. ASSUME NEW q \in Requests, Lookup(q) PROVE Goal
  <2>1. PICK s : pc' = [pc EXCEPT ![Fg(q)] = Route(kind[q], s)] /\ role' = role /\ bg' = bg
    BY <1>6 DEF Lookup, Goto, coalesceVars
  <2>2. CASE q = r
    <3>1. Route(kind[q], s) \notin Apart
      BY <2>2, RouteFacts DEF Unsafe
    <3> QED BY <1>0, <1>2, <2>1, <3>1
  <2>3. CASE q # r
    BY <1>3, <2>1, <2>3
  <2> QED BY <2>2, <2>3
<1>7. ASSUME NEW q \in Requests, q = r,
             Hit(q) \/ Miss(q) \/ Wake(q) \/ Gone(q) \/ Reread(q) \/ Finish(q) \/ Close(q) \/ Trigger(q)
      PROVE  Goal
  <2>1. Miss(r) \/ Finish(r)
    BY <1>1, <1>7 DEF Hit, Wake, Gone, Reread, Close, Trigger
  <2>2. CASE Miss(r)
    <3>1. UNCHANGED coalesceVars
      BY <2>2 DEF Miss, Coalescable, Unsafe
    <3>2. pc' = [pc EXCEPT ![Fg(r)] = "origin"] /\ role' = role /\ bg' = bg
      BY <1>1, <2>2, <3>1 DEF Miss, Goto, coalesceVars
    <3> QED BY <1>0, <1>2, <3>2
  <2>3. CASE Finish(r)
    <3>1. PICK l \in {"forget", "done"} : pc' = [pc EXCEPT ![Fg(r)] = l] /\ UNCHANGED coalesceVars
      BY <1>1, <2>3 DEF Finish, Goto
    <3> QED BY <1>0, <1>2, <3>1 DEF coalesceVars
  <2> QED BY <2>1, <2>2, <2>3
<1>8. ASSUME NEW q \in Requests, q # r,
             Hit(q) \/ Miss(q) \/ Wake(q) \/ Gone(q) \/ Reread(q) \/ Finish(q) \/ Close(q) \/ Trigger(q)
      PROVE  Goal
  <2>1. \E l : pc' = [pc EXCEPT ![Fg(q)] = l]
    BY <1>8 DEF Hit, Miss, Wake, Gone, Reread, Finish, Close, Trigger, Goto
  <2>2. /\ role' = role \/ \E s : role' = [role EXCEPT ![q] = s]
        /\ bg' = bg \/ \E s : bg' = [bg EXCEPT ![q] = s]
    BY <1>8 DEF Hit, Miss, Wake, Gone, Reread, Finish, Close, Trigger, coalesceVars, C!bgVars, C!fetchVars,
                C!Enter, C!Wake, C!Cancel, C!FallThrough, C!Leave, C!Unregister, C!Close, C!Begin
  <2> QED BY <1>3, <1>8, <2>1, <2>2
<1>9. ASSUME NEW q \in Requests, Launch(q) \/ Revalidated(q) \/ Wind(q)
      PROVE  Goal
  <2>1. pc' = pc \/ \E l : pc' = [pc EXCEPT ![Bg(q)] = l]
    BY <1>9 DEF Launch, Revalidated, Wind, Goto
  <2>2. role' = role /\ bg[q] # "none" /\ \E s : bg' = [bg EXCEPT ![q] = s]
    BY <1>9 DEF Launch, Revalidated, Wind, C!Admit, C!Revalidated, C!End, C!Release, C!fetchVars
  <2>3. bg'[r] = bg[r]
    BY <1>0, <1>1, <2>2
  <2> QED BY <1>0, <1>1, <2>1, <2>2, <2>3
<1>10. ASSUME UNCHANGED vars \/ Publish \/ \E k \in Keys : Age(k) \/ Evict(k)
      PROVE  Goal
  BY <1>1, <1>10 DEF vars, Publish, Age, Evict, coalesceVars
<1> HIDE DEF Goal, Apart
<1>11. ASSUME NEW q \in Requests,
              Gated(q) \/ Purge(q) \/ Lookup(q) \/ Gone(q) \/ Panic(q) \/ Hit(q) \/ NoHit(q) \/ Miss(q)
                \/ Wake(q) \/ Reread(q) \/ Fallback(q) \/ LastGood(q) \/ Finish(q) \/ Close(q) \/ Forget(q)
                \/ Trigger(q) \/ Launch(q) \/ Revalidated(q) \/ Wind(q)
       PROVE  Goal
  BY <1>5, <1>6, <1>7, <1>8, <1>9, <1>11
<1>12. Goal
  BY <1>4, <1>10, <1>11, Steps
<1> QED BY <1>12 DEF Goal, Apart

\* Every step keeps where the answers come from, and a write is answered from the
\* cache only after its own fetch failed.
LEMMA ReplyInvStep ==
  ASSUME Types, CInv, FetchInv, ReplyInv, WritesReachOrigin, [Next]_vars
  PROVE  ReplyInv' /\ WritesReachOrigin'
<1> DEFINE Sent == {"trigger", "failed", "close", "forget", "done"}
           Bad == Failures \cup {"neg"}
<1>0. \A r \in Requests : (Unsafe(r)' <=> Unsafe(r)) /\ Fg(r) \in Fetches
  BY KindFixed, Names DEF Unsafe
<1>1. ASSUME NEW r \in Requests, Unsafe(r)'
      PROVE  role'[r] = "out" /\ bg'[r] = "none" /\ pc'[Fg(r)] \notin {"cache", "trigger", "wait", "reread", "close"}
  BY <1>0, <1>1, UnsafeStep
<1>2. ASSUME NEW r \in Requests, pc'[Fg(r)] \in {"fallback", "lastGood"}
      PROVE  got'[Fg(r)].ans \in Bad
  <2>1. Move(Fg(r))
    BY <1>0, Moves
  <2>2. pc[Fg(r)] \in {"fallback", "lastGood"} => got[Fg(r)].ans \in Bad
    BY DEF ReplyInv
  <2> QED BY <1>2, <2>1, <2>2 DEF Move, Kept, After
<1>3. ASSUME NEW r \in Requests, reply'[r].from = "cache"
      PROVE  /\ pc'[Fg(r)] \in Sent /\ reply'[r].by \in Fetches /\ pc'[reply'[r].by] \in After
             /\ Unsafe(r)' => got'[Fg(r)].ans \in Bad
  <2>1. CASE reply'[r] = reply[r]
    <3>1. /\ pc[Fg(r)] \in Sent /\ reply[r].by \in Fetches /\ pc[reply[r].by] \in After
          /\ Unsafe(r) => got[Fg(r)].ans \in Bad
      BY <1>3, <2>1 DEF ReplyInv, WritesReachOrigin
    <3>2. Move(Fg(r))
      BY <1>0, Moves
    <3>3. pc'[Fg(r)] \in Sent /\ got'[Fg(r)] = got[Fg(r)]
      BY <3>1, <3>2 DEF Move, Kept, After
    <3>4. pc'[reply[r].by] \in After
      BY <3>1, AfterStays
    <3>5. reply'[r].by \in Fetches /\ pc'[reply'[r].by] \in After
      BY <2>1, <3>1, <3>4
    <3>6. Unsafe(r)' => got'[Fg(r)].ans \in Bad
      BY <1>0, <3>1, <3>3
    <3> QED BY <3>3, <3>5, <3>6
  <2>2. CASE reply'[r] # reply[r]
    <3>1. /\ object[key[r]] # None /\ reply'[r] = [from |-> "cache", by |-> object[key[r]]]
          /\ pc[Fg(r)] \in {"cache", "reread", "lastGood"} /\ pc'[Fg(r)] \in {"trigger", "done", "failed"}
      <4>1. reply'[r].from \notin {"gate", "purged", "gone", "panic"} /\ reply'[r] # [from |-> "origin", by |-> Fg(r)]
        BY SMT, <1>3
      <4> QED BY <2>2, <4>1, Replies
    <3>2. key[r] \in Keys
      BY TypeFacts
    <3>3. PICK g \in Fetches : g = object[key[r]] /\ pc[g] \in After
      BY <3>1, <3>2, TypeFacts DEF FetchInv
    <3>4. pc'[g] \in After /\ reply'[r].by = g
      BY SMT, <3>1, <3>3, AfterStays
    <3>5. ASSUME Unsafe(r)' PROVE got'[Fg(r)].ans \in Bad
      <4>1. pc[Fg(r)] = "lastGood"
        BY <1>0, <3>1, <3>5 DEF ReplyInv
      <4>2. got[Fg(r)].ans \in Bad
        BY <4>1 DEF ReplyInv
      <4>3. Move(Fg(r))
        BY <1>0, Moves
      <4> QED BY <4>1, <4>2, <4>3 DEF Move, Kept, After
    <3> QED BY <3>1, <3>3, <3>4, <3>5
  <2> QED BY <2>1, <2>2
<1>4. ASSUME NEW r \in Requests, reply'[r].from = "origin"
      PROVE  reply'[r].by = Fg(r) /\ pc'[Fg(r)] \in After \cup {"stream", "commit"}
  <2>1. CASE reply'[r] = reply[r]
    <3>1. reply[r].by = Fg(r) /\ pc[Fg(r)] \in After \cup {"stream", "commit"}
      BY <1>4, <2>1 DEF ReplyInv
    <3>2. Move(Fg(r))
      BY <1>0, Moves
    <3>3. pc'[Fg(r)] \in After \cup {"stream", "commit"}
      BY <3>1, <3>2 DEF Move, After
    <3>4. reply'[r].by = Fg(r)
      BY <2>1, <3>1
    <3> QED BY <3>3, <3>4
  <2>2. CASE reply'[r] # reply[r]
    <3>1. reply'[r] = [from |-> "origin", by |-> Fg(r)] /\ pc'[Fg(r)] \in {"failed", "stream", "commit"}
      <4>1. /\ reply'[r].from \notin {"gate", "purged", "gone", "panic"}
            /\ reply'[r] # [from |-> "cache", by |-> object[key[r]]]
        BY SMT, <1>4
      <4> QED BY <2>2, <4>1, Replies
    <3> QED BY SMT, <3>1 DEF After
  <2> QED BY <2>1, <2>2
<1>5. \A r \in Requests : role'[r] # "out" => Coalescable(r)'
  BY CoalescedStep
<1> QED BY <1>1, <1>2, <1>3, <1>4, <1>5 DEF ReplyInv, WritesReachOrigin

-----------------------------------------------------------------------------
\* What is stored is the answer to a safe method: it goes under the key of the GET.
LEMMA CommitsUnderGet ==
  ASSUME Types, FetchInv, ReplyInv, NEW g \in Fetches, pc[g] = "commit"
  PROVE  key[g[1]] = "get"
<1>1. g[1] \in Requests /\ Stores(g)
  BY Names DEF FetchInv
<1>2. ~Unsafe(g[1])
  <2>1. CASE g[2] = "fg"
    BY <1>1, <2>1 DEF Stores
  <2>2. CASE g = Bg(g[1])
    BY <1>1, <2>2 DEF FetchInv, ReplyInv
  <2> QED BY <2>1, <2>2, Names
<1> QED BY <1>1, <1>2, TypeFacts DEF KeyOf, Unsafe

\* A commit is refused, and what is in the store is announced again.
Refused(f) ==
    /\ MayRefuse /\ pc[f] = "commit" /\ pc' = [pc EXCEPT ![f] = "mark"] /\ object' = object
    /\ Announced(object[key[f[1]]])
    /\ UNCHANGED <<coalesceVars, marker, version, kind, state, got, reply>>
SomeRefused == \E f \in Fetches : Refused(f)

\* A commit stores or fails, and leaves alone what was invalidated, or is refused.
LEMMA CommitCases ==
  ASSUME NEW f \in Fetches, Commit(f)
  PROVE  \/ Refused(f)
         \/ UNCHANGED <<doomed, seen>> /\ pc' = [pc EXCEPT ![f] = "failed"]
         \/ /\ UNCHANGED <<doomed, seen>> /\ pc' = [pc EXCEPT ![f] = "mark"]
            /\ object' = [object EXCEPT ![key[f[1]]] = f]
BY DEF Commit, Refused, Goto

\* A request is told what was invalidated when it comes, and never again.
LEMMA SeenStep ==
  ASSUME Types, [Next]_vars, ~SomeRefused, NEW r \in Requests
  PROVE  seen'[r] = seen[r] \/ (seen'[r] = doomed /\ pc[Fg(r)] = "idle")
<1>0. seen \in [Requests -> SUBSET Fetches]
  BY DEF Types
<1>1. ASSUME NEW q \in Requests, Gated(q) \/ Purge(q) \/ Lookup(q)
      PROVE  seen'[r] = seen[r] \/ (seen'[r] = doomed /\ pc[Fg(r)] = "idle")
  <2>1. pc[Fg(q)] = "idle" /\ seen' = [seen EXCEPT ![q] = doomed]
    BY <1>1 DEF Gated, Purge, Lookup, Arrives
  <2> QED BY <1>0, <2>1
<1>2. ASSUME NEW q \in Requests,
             Gone(q) \/ Panic(q) \/ Hit(q) \/ NoHit(q) \/ Miss(q)
               \/ Wake(q) \/ Reread(q) \/ Fallback(q) \/ LastGood(q) \/ Finish(q) \/ Close(q) \/ Forget(q)
               \/ Trigger(q) \/ Launch(q) \/ Revalidated(q) \/ Wind(q)
      PROVE  seen' = seen
  BY <1>2 DEF Gone, Panic, Hit, NoHit, Miss, Wake, Reread, Fallback, LastGood, Finish,
              Close, Forget, Trigger, Launch, Revalidated, Wind, history
<1>3. ASSUME NEW g \in Fetches, Origin(g) \/ Decide(g) \/ Stream(g) \/ Commit(g) \/ MarkFresh(g)
      PROVE  seen' = seen
  <2>1. CASE Commit(g)
    BY <2>1, CommitCases DEF SomeRefused
  <2>2. CASE ~Commit(g)
    BY <1>3, <2>2 DEF Origin, Decide, Stream, MarkFresh, history
  <2> QED BY <2>1, <2>2
<1>4. ASSUME UNCHANGED vars \/ Publish \/ \E k \in Keys : Age(k) \/ Evict(k)
      PROVE  seen' = seen
  BY <1>4 DEF vars, Publish, Age, Evict, history
<1> QED BY <1>1, <1>2, <1>3, <1>4, Steps

\* A step invalidates nothing, or the copy in the store, whose entry it removes.
LEMMA DoomedStep ==
  ASSUME Types, [Next]_vars, ~SomeRefused
  PROVE  \/ doomed' = doomed
         \/ /\ object["get"] # None /\ Settled /\ doomed' = doomed \cup {object["get"]}
            /\ object' = object /\ marker'["get"].at = "none"
            /\ \E q \in Requests : pc' = [pc EXCEPT ![Fg(q)] = "done"]
<1> DEFINE Goal == \/ doomed' = doomed
                   \/ /\ object["get"] # None /\ Settled /\ doomed' = doomed \cup {object["get"]}
                      /\ object' = object /\ marker'["get"].at = "none"
                      /\ \E q \in Requests : pc' = [pc EXCEPT ![Fg(q)] = "done"]
<1>1. ASSUME NEW q \in Requests, Purge(q) \/ Forget(q) PROVE Goal
  <2>1. /\ Invalidate /\ object' = object /\ pc' = [pc EXCEPT ![Fg(q)] = "done"]
    BY <1>1 DEF Purge, Forget, Goto
  <2>2. marker' = [marker EXCEPT !["get"] = [at |-> "none", fallback |-> FALSE]]
    BY <2>1 DEF Invalidate, Mark, ForgottenKey
  <2>3. marker \in [Keys -> [at : {"none", "fresh", "stale", "past", "hfm"}, fallback : BOOLEAN]] /\ "get" \in Keys
    BY TypeFacts DEF Types
  <2>4. marker'["get"].at = "none"
    BY <2>2, <2>3
  <2> QED BY <2>1, <2>4 DEF Invalidate
<1>2. ASSUME NEW q \in Requests,
             Gated(q) \/ Lookup(q) \/ Gone(q) \/ Panic(q) \/ Hit(q) \/ NoHit(q) \/ Miss(q)
               \/ Wake(q) \/ Reread(q) \/ Fallback(q) \/ LastGood(q) \/ Finish(q) \/ Close(q)
               \/ Trigger(q) \/ Launch(q) \/ Revalidated(q) \/ Wind(q)
      PROVE  doomed' = doomed
  BY <1>2 DEF Gated, Lookup, Gone, Panic, Hit, NoHit, Miss, Wake, Reread, Fallback, LastGood, Finish,
              Close, Trigger, Launch, Revalidated, Wind, history
<1>3. ASSUME NEW g \in Fetches, Origin(g) \/ Decide(g) \/ Stream(g) \/ Commit(g) \/ MarkFresh(g)
      PROVE  doomed' = doomed
  <2>1. CASE Commit(g)
    BY <2>1, CommitCases DEF SomeRefused
  <2>2. CASE ~Commit(g)
    BY <1>3, <2>2 DEF Origin, Decide, Stream, MarkFresh, history
  <2> QED BY <2>1, <2>2
<1>4. ASSUME UNCHANGED vars \/ Publish \/ \E k \in Keys : Age(k) \/ Evict(k)
      PROVE  doomed' = doomed
  BY <1>4 DEF vars, Publish, Age, Evict, history
<1>5. ASSUME doomed' = doomed PROVE Goal
  BY <1>5
<1> HIDE DEF Goal
<1>6. Goal
  BY <1>1, <1>2, <1>3, <1>4, <1>5, Steps
<1> QED BY <1>6 DEF Goal

\* An entry that is gone comes back only by the mark of a fetch that has stored.
LEMMA MarkerStep ==
  ASSUME Types, [Next]_vars, Settled, marker["get"].at \in {"none", "hfm"}
  PROVE  marker'["get"].at \in {"none", "hfm"}
<1> DEFINE Goal == marker'["get"].at \in {"none", "hfm"}
<1>0. /\ marker \in [Keys -> [at : {"none", "fresh", "stale", "past", "hfm"}, fallback : BOOLEAN]]
      /\ "get" \in Keys /\ \A f \in Fetches : key[f[1]] \in Keys
  BY TypeFacts, Names DEF Types
<1>1. ASSUME marker' = marker PROVE Goal
  BY <1>1
<1>2. ASSUME NEW k \in Keys, NEW at \in {"none", "hfm"}, NEW fb, Mark(k, at, fb) PROVE Goal
  BY <1>0, <1>2 DEF Mark
<1>3. ASSUME NEW k \in Keys, Age(k) PROVE Goal
  <2>1. CASE k = "get"
    <3>1. marker[k].at = "hfm"
      BY <1>3, <2>1 DEF Age
    <3>2. Older(marker[k]) = "none"
      BY <3>1, OlderFacts
    <3>3. \E fb : Mark(k, "none", fb)
      BY <1>3, <3>2 DEF Age
    <3> QED BY <1>2, <3>3
  <2>2. CASE k # "get"
    <3>1. \E x : marker' = [marker EXCEPT ![k] = x]
      BY <1>3 DEF Age, Mark
    <3> QED BY <1>0, <2>2, <3>1
  <2> QED BY <2>1, <2>2
<1>4. ASSUME NEW g \in Fetches, Decide(g) PROVE Goal
  <2>1. marker' = marker \/ Mark(key[g[1]], "hfm", FALSE)
    BY <1>4 DEF Decide
  <2> QED BY <1>0, <1>1, <1>2, <2>1
<1>5. ASSUME NEW g \in Fetches, MarkFresh(g) PROVE Goal
  BY <1>5 DEF MarkFresh, Settled
<1>6. ASSUME NEW r \in Requests, Purge(r) \/ Forget(r) PROVE Goal
  <2>1. Mark("get", "none", FALSE)
    BY <1>6 DEF Purge, Forget, Invalidate, ForgottenKey
  <2> QED BY <1>0, <1>2, <2>1
<1>7. ASSUME NEW r \in Requests,
              Gated(r) \/ Lookup(r) \/ Gone(r) \/ Panic(r) \/ Hit(r) \/ NoHit(r) \/ Miss(r) \/ Wake(r)
                \/ Reread(r) \/ Fallback(r) \/ LastGood(r) \/ Finish(r) \/ Close(r) \/ Trigger(r) \/ Launch(r)
                \/ Revalidated(r) \/ Wind(r)
       PROVE  marker' = marker
  BY <1>7 DEF Gated, Lookup, Gone, Panic, Hit, NoHit, Miss, Wake, Reread, Fallback, LastGood, Finish,
              Close, Trigger, Launch, Revalidated, Wind
<1>8. ASSUME NEW g \in Fetches, Origin(g) \/ Stream(g) \/ Commit(g) PROVE marker' = marker
  BY <1>8 DEF Origin, Stream, Commit
<1>9. ASSUME UNCHANGED vars \/ Publish \/ \E k \in Keys : Evict(k) PROVE marker' = marker
  BY <1>9 DEF vars, Publish, Evict
<1> HIDE DEF Goal
<1>10. Goal
  BY <1>1, <1>3, <1>4, <1>5, <1>6, <1>7, <1>8, <1>9, Steps
<1> QED BY <1>10 DEF Goal

\* A fetch that goes on to mark its key has put its copy there, unless its commit is
\* refused.
LEMMA CommitStores ==
  ASSUME Types, ~SomeRefused, [Next]_vars, NEW f \in Fetches, pc[f] = "commit", pc'[f] = "mark"
  PROVE  object'[key[f[1]]] = f
<1>0. pc \in [Fetches -> Labels] /\ object \in [Keys -> Fetches \cup {None}] /\ key[f[1]] \in Keys
  BY SMT, Names, TypeFacts DEF Types
<1>1. ASSUME NEW g \in Fetches, Commit(g) PROVE object'[key[f[1]]] = f
  <2>1. \/ pc' = [pc EXCEPT ![g] = "failed"]
        \/ pc' = [pc EXCEPT ![g] = "mark"] /\ object' = [object EXCEPT ![key[g[1]]] = g]
    BY <1>1, CommitCases DEF SomeRefused
  <2>2. g = f
    BY <1>0, <2>1
  <2> QED BY <1>0, <2>1, <2>2
<1>2. ASSUME NEW g, NEW l, l # "mark", pc' = [pc EXCEPT ![g] = l] PROVE FALSE
  BY <1>0, <1>2
<1>3. ASSUME NEW g \in Fetches, Origin(g) \/ Decide(g) \/ Stream(g) \/ MarkFresh(g) PROVE FALSE
  <2>1. \E l : l # "mark" /\ pc' = [pc EXCEPT ![g] = l]
    BY <1>3 DEF Origin, Decide, Stream, MarkFresh, Goto
  <2> QED BY <1>2, <2>1
<1>4. ASSUME NEW r \in Requests,
             Gated(r) \/ Purge(r) \/ Lookup(r) \/ Gone(r) \/ Panic(r) \/ Hit(r) \/ NoHit(r) \/ Miss(r)
               \/ Wake(r) \/ Reread(r) \/ Fallback(r) \/ LastGood(r) \/ Finish(r) \/ Close(r) \/ Forget(r)
               \/ Trigger(r) \/ Launch(r) \/ Revalidated(r)
      PROVE  FALSE
  <2>1. \A s : Route(kind[r], s) # "mark"
    BY RouteFacts
  <2>2. \E g, l : l # "mark" /\ pc' = [pc EXCEPT ![g] = l]
    BY SMT, <1>4, <2>1 DEF Gated, Purge, Lookup, Gone, Panic, Hit, NoHit, Miss, Wake, Reread, Fallback, LastGood,
                      Finish, Close, Forget, Trigger, Launch, Revalidated, Goto
  <2> QED BY <1>2, <2>2
<1>5. ASSUME UNCHANGED vars \/ Publish \/ (\E k \in Keys : Age(k) \/ Evict(k)) \/ \E r \in Requests : Wind(r)
      PROVE  FALSE
  BY <1>5 DEF vars, Publish, Age, Evict, Wind
<1> QED BY <1>1, <1>3, <1>4, <1>5, Steps

\* A request that is not about to read the store does not get to, as long as the
\* key has no entry and no fetch has its outcome to announce.
LEMMA QuietStep ==
  ASSUME Types, CInv, ReplyInv, [Next]_vars, Settled, marker["get"].at \in {"none", "hfm"},
         NEW q \in Requests, key[q] = "get", Quiet(q)
  PROVE  Quiet(q)'
<1> DEFINE Reads == {"cache", "lastGood", "reread"}
<1>0. /\ pc \in [Fetches -> Labels] /\ Fg(q) \in Fetches
      /\ role \in [Requests -> C!Roles] /\ call \in [Requests -> Requests \cup {None}]
      /\ \A p \in Requests : Fg(p) \in Fetches /\ Bg(p) \in Fetches /\ Bg(p) # Fg(q) /\ (Fg(p) = Fg(q) => p = q)
  BY SMT, Names DEF Types, CInv, C!CoalesceTypeOK
<1>1. /\ pc[Fg(q)] \notin Reads
      /\ pc[Fg(q)] = "wait" => call[q] \in Requests /\ call[q] \notin succeeded /\ role[call[q]] # "finishing"
  BY DEF Quiet
<1>2. ASSUME pc'[Fg(q)] = pc[Fg(q)] \/ pc'[Fg(q)] \notin Reads \cup {"wait"},
             call'[q] = call[q],
             \A w \in Requests : role'[w] = "finishing" => role[w] = "finishing",
             \A w \in Requests : w \in succeeded' => w \in succeeded \/ role[w] = "finishing"
      PROVE  Quiet(q)'
  BY <1>1, <1>2 DEF Quiet
<1>3. ASSUME pc' = pc \/ \E g \in Fetches : \E l : l \notin Reads \cup {"wait"} /\ pc' = [pc EXCEPT ![g] = l],
             UNCHANGED <<call, role, succeeded>>
      PROVE  Quiet(q)'
  BY <1>0, <1>2, <1>3
<1>4. ASSUME NEW g \in Fetches, Origin(g) \/ Decide(g) \/ Stream(g) \/ Commit(g) \/ MarkFresh(g)
      PROVE  Quiet(q)'
  <2>1. \E l : l \notin Reads \cup {"wait"} /\ pc' = [pc EXCEPT ![g] = l]
    BY <1>4 DEF Origin, Decide, Stream, Commit, MarkFresh, Goto
  <2>2. UNCHANGED <<call, role, succeeded>>
    BY <1>4 DEF Origin, Decide, Stream, Commit, MarkFresh, coalesceVars
  <2> QED BY <1>3, <2>1, <2>2
<1>5. ASSUME NEW p \in Requests, Gated(p) \/ Purge(p) \/ Panic(p) \/ NoHit(p) \/ Hit(p) \/ LastGood(p) \/ Forget(p)
      PROVE  Quiet(q)'
  <2>1. \E l : l \notin Reads \cup {"wait"} /\ pc' = [pc EXCEPT ![Fg(p)] = l]
    BY <1>5 DEF Gated, Purge, Panic, NoHit, Hit, LastGood, Forget, Goto
  <2>2. UNCHANGED <<call, role, succeeded>>
    BY <1>5 DEF Gated, Purge, Panic, NoHit, Hit, LastGood, Forget, coalesceVars
  <2> QED BY <1>0, <1>3, <2>1, <2>2
<1>6. ASSUME NEW p \in Requests, Lookup(p) \/ Fallback(p)
      PROVE  Quiet(q)'
  <2>1. \E l : pc' = [pc EXCEPT ![Fg(p)] = l]
    BY <1>6 DEF Lookup, Fallback, Goto
  <2>2. UNCHANGED <<call, role, succeeded>>
    BY <1>6 DEF Lookup, Fallback, coalesceVars
  <2>3. CASE p # q
    <3>1. pc'[Fg(q)] = pc[Fg(q)]
      BY <1>0, <2>1, <2>3
    <3> QED BY <1>2, <2>2, <3>1
  <2>4. CASE p = q /\ Lookup(q)
    <3>1. PICK s : s \notin {"fresh", "stale"} /\ pc' = [pc EXCEPT ![Fg(q)] = Route(kind[q], s)]
      BY <2>4 DEF Lookup, Goto
    <3>2. Route(kind[q], s) \notin Reads \cup {"wait"}
      BY SMT, <3>1, RouteFacts
    <3> QED BY <1>0, <1>3, <2>2, <3>1, <3>2
  <2>5. CASE p = q /\ Fallback(q)
    <3>1. pc' = [pc EXCEPT ![Fg(q)] = "decide"]
      BY <2>5 DEF Fallback, Goto
    <3> QED BY <1>0, <1>3, <2>2, <3>1
  <2> QED BY <1>6, <2>3, <2>4, <2>5
<1>7. ASSUME NEW p \in Requests, p # q,
             Miss(p) \/ Wake(p) \/ Gone(p) \/ Reread(p) \/ Finish(p) \/ Close(p)
      PROVE  Quiet(q)'
  <2>1. \E l : pc' = [pc EXCEPT ![Fg(p)] = l]
    BY <1>7 DEF Miss, Wake, Gone, Reread, Finish, Close, Goto
  <2>2. pc'[Fg(q)] = pc[Fg(q)]
    BY <1>0, <1>7, <2>1
  <2>3. call'[q] = call[q]
    BY <1>0, <1>7 DEF Miss, Wake, Gone, Reread, Finish, Close, coalesceVars, C!Enter, C!Wake, C!Cancel,
                      C!FallThrough, C!Leave, C!Unregister, C!Close
  <2>4. \A w \in Requests : w \in succeeded' => w \in succeeded \/ role[w] = "finishing"
    BY <1>7 DEF Miss, Wake, Gone, Reread, Finish, Close, coalesceVars, C!Enter, C!Wake, C!Cancel,
                C!FallThrough, C!Leave, C!Unregister, C!Close
  <2>5. role' = role \/ \E s : s # "finishing" /\ role' = [role EXCEPT ![p] = s]
    <3>1. CASE Finish(p)
      <4>1. pc[Fg(p)] # "succeeded"
        BY <1>0 DEF Settled
      <4> QED BY <3>1, <4>1 DEF Finish, C!Unregister, C!Leave, coalesceVars
    <3>2. CASE ~Finish(p)
      BY <1>7, <3>2 DEF Miss, Wake, Gone, Reread, Close, coalesceVars, C!Enter, C!Wake, C!Cancel,
                        C!FallThrough, C!Leave, C!Close
    <3> QED BY <3>1, <3>2
  <2>6. \A w \in Requests : role'[w] = "finishing" => role[w] = "finishing"
    BY <1>0, <2>5
  <2> QED BY <1>2, <2>2, <2>3, <2>4, <2>6
<1>8. ASSUME Wake(q) \/ Gone(q) \/ Reread(q) \/ Finish(q) \/ Close(q)
      PROVE  Quiet(q)'
  <2>1. PICK l : l \notin Reads \cup {"wait"} /\ pc' = [pc EXCEPT ![Fg(q)] = l]
    <3>1. CASE Wake(q)
      <4>1. role' = [role EXCEPT ![q] = "alone"]
        BY <1>1, <3>1 DEF Wake, C!Wake
      <4>2. role'[q] # "reader"
        BY <1>0, <4>1
      <4> QED BY <3>1, <4>2 DEF Wake, Goto
    <3>2. CASE Gone(q) \/ Reread(q) \/ Finish(q) \/ Close(q)
      BY <3>2 DEF Gone, Reread, Finish, Close, Goto
    <3> QED BY <1>8, <3>1, <3>2
  <2>2. pc'[Fg(q)] = l
    BY <1>0, <2>1
  <2> QED BY <2>1, <2>2 DEF Quiet
<1>9. ASSUME Miss(q)
      PROVE  Quiet(q)'
  <2>1. CASE role'[q] # "waiter"
    <3>1. pc' = [pc EXCEPT ![Fg(q)] = "origin"]
      BY <1>9, <2>1 DEF Miss, Goto
    <3>2. pc'[Fg(q)] = "origin"
      BY <1>0, <3>1
    <3> QED BY <3>2 DEF Quiet
  <2>2. CASE role'[q] = "waiter" /\ ~Coalescable(q) /\ UNCHANGED coalesceVars
    BY <2>2 DEF ReplyInv, coalesceVars
  <2>3. CASE role'[q] = "waiter" /\ C!Enter(q)
    <3>1. /\ calls["get"] # None /\ role' = [role EXCEPT ![q] = "waiter"] /\ role[q] = "out"
          /\ call' = [call EXCEPT ![q] = calls["get"]] /\ succeeded' = succeeded
      BY <1>0, <2>3 DEF C!Enter
    <3>2. PICK w \in Requests : w = calls["get"]
      BY <3>1 DEF CInv, C!CoalesceTypeOK, Keys
    <3>3. role[w] = "winner" /\ w \notin succeeded
      BY <3>2 DEF CInv, Keys
    <3>4. call'[q] = w /\ role'[w] = "winner"
      BY <1>0, <3>1, <3>2, <3>3
    <3> QED BY <1>0, <1>9, <2>3, <3>1, <3>3, <3>4 DEF Quiet, Miss, Goto
  <2> QED BY <1>9, <2>1, <2>2, <2>3 DEF Miss
<1>10. ASSUME NEW p \in Requests, Trigger(p) \/ Launch(p) \/ Revalidated(p) \/ Wind(p)
      PROVE  Quiet(q)'
  <2>1. \/ pc' = pc \/ pc' = [pc EXCEPT ![Fg(p)] = "done"]
        \/ \E l : pc' = [pc EXCEPT ![Bg(p)] = l]
    BY <1>10 DEF Trigger, Launch, Revalidated, Wind, Goto
  <2>2. UNCHANGED <<call, role, succeeded>>
    BY <1>10 DEF Trigger, Launch, Revalidated, Wind, C!Begin, C!Admit, C!Revalidated, C!End, C!Release, C!fetchVars
  <2>3. pc'[Fg(q)] = pc[Fg(q)] \/ pc'[Fg(q)] = "done"
    BY <1>0, <2>1
  <2> QED BY <1>2, <2>2, <2>3
<1>11. ASSUME UNCHANGED vars \/ Publish \/ \E k \in Keys : Age(k) \/ Evict(k)
      PROVE  Quiet(q)'
  <2>1. UNCHANGED <<pc, call, role, succeeded>>
    BY <1>11 DEF vars, Publish, Age, Evict, coalesceVars
  <2> QED BY <1>3, <2>1
<1>12. ASSUME NEW p \in Requests,
              Gated(p) \/ Purge(p) \/ Lookup(p) \/ Gone(p) \/ Panic(p) \/ Hit(p) \/ NoHit(p) \/ Miss(p)
                \/ Wake(p) \/ Reread(p) \/ Fallback(p) \/ LastGood(p) \/ Finish(p) \/ Close(p) \/ Forget(p)
                \/ Trigger(p) \/ Launch(p) \/ Revalidated(p) \/ Wind(p)
       PROVE  Quiet(q)'
  BY <1>5, <1>6, <1>7, <1>8, <1>9, <1>10, <1>12
<1> QED BY <1>4, <1>11, <1>12, Steps


\* As long as an invalidated copy stays in the store no fetch gets to announce its
\* key: the one that would has replaced the copy.
LEMMA SettledStep ==
  ASSUME Types, FetchInv, ReplyInv, DoomInv, ~SomeRefused, [Next]_vars,
         Settled, object["get"] \in doomed, object'["get"] = object["get"]
  PROVE  Settled'
<1> SUFFICES ASSUME NEW f \in Fetches, pc'[f] \in {"mark", "succeeded"} PROVE FALSE
  BY DEF Settled
<1>1. Move(f) /\ pc[f] \notin {"mark", "succeeded"}
  BY Moves DEF Settled
<1>2. pc[f] = "commit" /\ pc'[f] = "mark"
  BY <1>1 DEF Move, After
<1>3. key[f[1]] = "get"
  BY <1>2, CommitsUnderGet
<1>4. object["get"] = f
  BY <1>2, <1>3, CommitStores
<1> QED BY <1>2, <1>4 DEF DoomInv

\* A refused commit announces the copy in the store again, which is then no longer
\* one of those that were invalidated.
LEMMA RefusedDoom ==
  ASSUME Types, FetchInv, ReplyInv, DoomInv, NEW g \in Fetches, Refused(g)
  PROVE  DoomInv'
<1> DEFINE o == object["get"]
<1>0. /\ key' = key /\ doomed' = doomed \ {o} /\ object' = object
      /\ seen' = [r \in Requests |-> seen[r] \ {o}]
      /\ pc \in [Fetches -> Labels] /\ pc[g] = "commit" /\ pc' = [pc EXCEPT ![g] = "mark"]
      /\ doomed \subseteq Fetches
  BY CommitsUnderGet DEF Refused, Announced, coalesceVars, Types
<1>1. ASSUME NEW r \in Requests PROVE seen'[r] \subseteq doomed'
  BY <1>0 DEF DoomInv
<1>2. ASSUME NEW f \in doomed' PROVE pc'[f] \in {"failed", "close", "forget", "done"} /\ key'[f[1]] = "get"
  <2>1. f \in doomed /\ f \in Fetches
    BY <1>0, <1>2
  <2>2. pc[f] \in {"failed", "close", "forget", "done"} /\ key[f[1]] = "get"
    BY <2>1 DEF DoomInv
  <2>3. f # g
    BY <1>0, <2>2
  <2> QED BY <1>0, <2>1, <2>2, <2>3
<1>3. object'["get"] \notin doomed'
  BY <1>0
<1> QED BY <1>1, <1>2, <1>3 DEF DoomInv

\* Every other step keeps what is known of invalidated copies.
LEMMA DoomStep ==
  ASSUME Types, CInv, FetchInv, ReplyInv, DoomInv, ~SomeRefused, [Next]_vars
  PROVE  DoomInv'
<1> DEFINE Over == {"failed", "close", "forget", "done"}
           o == object["get"]
<1>0. /\ key' = key /\ "get" \in Keys /\ doomed \subseteq Fetches /\ None \notin Fetches
      /\ o # None => o \in Fetches
  BY KindFixed, TypeFacts, Names DEF Types
<1>1. /\ doomed \subseteq doomed' /\ doomed' \subseteq doomed \cup {o}
      /\ o \notin doomed /\ o \in doomed' => o # None /\ Settled
  BY DoomedStep
<1>2. ASSUME NEW r \in Requests PROVE seen'[r] \subseteq doomed
  BY SeenStep DEF DoomInv
<1>3. ASSUME NEW f \in doomed' PROVE f \in Fetches /\ pc'[f] \in Over /\ key'[f[1]] = "get"
  <2>1. f \in Fetches /\ pc[f] \in Over /\ key[f[1]] = "get"
    <3>1. CASE f \in doomed
      BY <1>0, <3>1 DEF DoomInv
    <3>2. CASE f \notin doomed
      <4>1. f = o /\ o \in Fetches /\ Settled /\ o # None
        BY <1>0, <1>1, <1>3, <3>2
      <4>2. pc[o] \in After /\ key[o[1]] = "get"
        BY <1>0, <4>1 DEF FetchInv
      <4> QED BY <4>1, <4>2 DEF Settled, After
    <3> QED BY <3>1, <3>2
  <2>2. Move(f)
    BY <2>1, Moves
  <2>3. pc'[f] \in Over
    BY <2>1, <2>2 DEF Move, After
  <2> QED BY <1>0, <2>1, <2>3
<1>4. ASSUME object'["get"] \in doomed'
      PROVE  /\ marker'["get"].at \in {"none", "hfm"} /\ Settled'
             /\ \A r \in Requests : key'[r] = "get" /\ object'["get"] \in seen'[r] => Quiet(r)'
  <2>1. object'["get"] = o
    <3>1. object'["get"] # None
      BY <1>0, <1>3, <1>4
    <3>2. ASSUME NEW g \in Fetches, object'["get"] = g, pc' = [pc EXCEPT ![g] = "mark"] PROVE FALSE
      <4>1. pc'[g] = "mark"
        BY <3>2 DEF Types
      <4> QED BY <1>3, <1>4, <3>2, <4>1
    <3> QED BY <1>0, <3>1, <3>2, ObjectStep
  <2>2. CASE o \in doomed
    <3>1. marker["get"].at \in {"none", "hfm"} /\ Settled
      BY <2>2 DEF DoomInv
    <3>2. marker'["get"].at \in {"none", "hfm"}
      BY <3>1, MarkerStep
    <3>3. Settled'
      BY <2>1, <2>2, <3>1, SettledStep
    <3>4. ASSUME NEW r \in Requests, key'[r] = "get", object'["get"] \in seen'[r] PROVE Quiet(r)'
      <4>1. Quiet(r)
        <5>1. CASE seen'[r] = seen[r]
          BY <1>0, <2>1, <2>2, <3>4, <5>1 DEF DoomInv
        <5>2. CASE pc[Fg(r)] = "idle"
          BY <5>2 DEF Quiet
        <5> QED BY <5>1, <5>2, SeenStep
      <4> QED BY <1>0, <3>1, <3>4, <4>1, QuietStep
    <3> QED BY <3>2, <3>3, <3>4
  <2>3. CASE o \notin doomed
    <3>1. /\ Settled /\ marker'["get"].at = "none"
          /\ \E q \in Requests : pc' = [pc EXCEPT ![Fg(q)] = "done"]
      BY SMT, <1>4, <2>1, <2>3, DoomedStep
    <3>2. Settled'
      BY SMT, <3>1 DEF Settled, Types
    <3>3. \A r \in Requests : object'["get"] \notin seen'[r]
      BY <1>2, <2>1, <2>3
    <3> QED BY <3>1, <3>2, <3>3
  <2> QED BY <2>2, <2>3
<1>5. \A r \in Requests : seen'[r] \subseteq doomed'
  BY <1>1, <1>2
<1> QED BY <1>3, <1>4, <1>5 DEF DoomInv

\* A request is not answered with a copy that was invalidated before it came.
LEMMA NotServedStep ==
  ASSUME Types, FetchInv, ReplyInv, DoomInv, InvalidatedNotServed, [Next]_vars
  PROVE  InvalidatedNotServed'
<1> SUFFICES ASSUME NEW r \in Requests, reply'[r].from = "cache" PROVE reply'[r].by \notin seen'[r]
  BY DEF InvalidatedNotServed
<1>1. CASE reply'[r] = reply[r]
  <2>1. reply[r].by \notin seen[r] /\ pc[Fg(r)] # "idle"
    BY <1>1 DEF InvalidatedNotServed, ReplyInv
  <2>2. CASE SomeRefused
    <3>1. seen'[r] \subseteq seen[r]
      BY <2>2 DEF SomeRefused, Refused, Announced
    <3> QED BY <1>1, <2>1, <3>1
  <2>3. CASE ~SomeRefused
    BY <1>1, <2>1, <2>3, SeenStep
  <2> QED BY <2>2, <2>3
<1>2. CASE reply'[r] # reply[r]
  <2>1. /\ object[key[r]] # None /\ reply'[r] = [from |-> "cache", by |-> object[key[r]]]
        /\ pc[Fg(r)] \in {"cache", "reread", "lastGood"} /\ seen' = seen
    <3>1. reply'[r].from \notin {"gate", "purged", "gone", "panic"} /\ reply'[r] # [from |-> "origin", by |-> Fg(r)]
      BY SMT
    <3> QED BY <1>2, <3>1, Replies
  <2>2. ASSUME object[key[r]] \in seen[r] PROVE FALSE
    <3>1. PICK f \in doomed : f = object[key[r]]
      BY <2>2 DEF DoomInv
    <3>2. key[r] = "get"
      BY SMT, <2>1, <3>1, TypeFacts DEF FetchInv, DoomInv
    <3>3. Quiet(r)
      BY <2>2, <3>1, <3>2 DEF DoomInv
    <3> QED BY <2>1, <3>3 DEF Quiet
  <2> QED BY SMT, <2>1, <2>2
<1> QED BY <1>1, <1>2

-----------------------------------------------------------------------------
(* The facts about counting, last: FiniteSetTheorems brings names for the     *)
(* finite sets and their cardinality of its own, and they mean the same.      *)

\* There are finitely many requests.
LEMMA RequestsFinite == Finite(Requests)
BY ServeAssumptions DEF ServeAssumptions, Finite

\* None is no request, and there is room for a background revalidation.
LEMMA NoneAndCap == None \notin Requests /\ BgCap \in Nat \ {0} /\ MaxVersion \in Nat
BY ServeAssumptions DEF ServeAssumptions

USE DEF Cardinality, IsFiniteSet
LOCAL INSTANCE FiniteSetTheorems

\* How many tokens are out, when one more is taken or given back.
LEMMA Counting ==
  /\ Card({}) = 0
  /\ \A S : Finite(S) =>
       /\ Card(S) \in Nat
       /\ \A T \in SUBSET S : Finite(T)
       /\ \A x : x \notin S => Card(S \cup {x}) = Card(S) + 1
       /\ \A x \in S : Card(S \ {x}) = Card(S) - 1
<1>1. \A S : Card(S) = Cardinality(S) /\ (Finite(S) <=> IsFiniteSet(S))
  BY DEF Card, Finite, Cardinality, IsFiniteSet
<1> HIDE DEF Cardinality, IsFiniteSet
<1>2. Cardinality({}) = 0
  BY FS_EmptySet
<1>3. ASSUME NEW S, IsFiniteSet(S)
      PROVE  /\ Cardinality(S) \in Nat
             /\ \A T \in SUBSET S : IsFiniteSet(T)
             /\ \A x : x \notin S => Cardinality(S \cup {x}) = Cardinality(S) + 1
             /\ \A x \in S : Cardinality(S \ {x}) = Cardinality(S) - 1
  BY <1>3, FS_CardinalityType, FS_Subset, FS_AddElement, FS_RemoveElement
<1> QED BY <1>1, <1>2, <1>3

\* What the handler needs to know of the coalescer is kept by its steps.
LEMMA CoalesceInv ==
  ASSUME CInv, [Next]_vars
  PROVE  CInv'
<1> USE NoneAndCap
<1>0. /\ [C!CoalesceNext]_(C!coalescerVars) /\ Finite(C!Admitted) /\ C!Admitted \subseteq Requests
  BY CoalesceSteps, RequestsFinite, Counting DEF C!Admitted
<1>1. CASE UNCHANGED C!coalescerVars
  BY <1>1 DEF C!coalescerVars, CInv, C!CoalesceTypeOK, C!Admitted
<1>2. ASSUME NEW r \in Requests,
             C!Enter(r) \/ (\E ok \in BOOLEAN : C!Unregister(r, ok)) \/ C!Close(r) \/ C!Wake(r)
               \/ C!Cancel(r) \/ C!FallThrough(r) \/ C!Leave(r)
      PROVE  CInv'
  <2>1. UNCHANGED <<inFlight, sem, bg>>
    BY <1>2 DEF C!Enter, C!Unregister, C!Close, C!Wake, C!Cancel, C!FallThrough, C!Leave, C!bgVars
  <2>2. C!Admitted' = C!Admitted
    BY <2>1 DEF C!Admitted
  <2>3. /\ C!CoalesceTypeOK'
        /\ \A k \in Keys, q \in Requests : calls'[k] = q => role'[q] = "winner" /\ key'[q] = k
        /\ \A q \in succeeded' : role'[q] = "left"
    <3> USE <2>1 DEF CInv, C!CoalesceTypeOK, C!Roles
    <3>1. CASE C!Enter(r)
      BY SMTT(30), <3>1 DEF C!Enter
    <3>2. ASSUME NEW ok \in BOOLEAN, C!Unregister(r, ok)
          PROVE  /\ C!CoalesceTypeOK'
                 /\ \A k \in Keys, q \in Requests : calls'[k] = q => role'[q] = "winner" /\ key'[q] = k
                 /\ \A q \in succeeded' : role'[q] = "left"
      BY SMT, <3>2 DEF C!Unregister, C!Unregistered
    <3>3. CASE C!Close(r)
      BY SMTT(30), <3>3 DEF C!Close, C!Closed
    <3>4. CASE C!Wake(r) \/ C!Cancel(r) \/ C!FallThrough(r) \/ C!Leave(r)
      BY SMT, <3>4 DEF C!Wake, C!Cancel, C!FallThrough, C!Leave
    <3> QED BY <1>2, <3>1, <3>2, <3>3, <3>4
  <2> QED BY <2>1, <2>2, <2>3 DEF CInv
<1>3. ASSUME NEW r \in Requests,
             C!Begin(r) \/ C!Admit(r) \/ C!Revalidated(r) \/ C!End(r) \/ C!Release(r)
      PROVE  CInv'
  <2>1. UNCHANGED <<calls, closed, succeeded, role, key, call>>
    BY <1>3 DEF C!Begin, C!Admit, C!Revalidated, C!End, C!Release, C!fetchVars
  <2>2. /\ bg \in [Requests -> C!Stages] /\ key \in [Requests -> Keys] /\ inFlight \in SUBSET Keys
        /\ sem \in 0..BgCap /\ sem = Card(C!Admitted)
    BY DEF CInv, C!CoalesceTypeOK
  <2>3. bg' \in [Requests -> C!Stages] /\ inFlight' \in SUBSET Keys
    BY SMTT(30), <1>3, <2>2 DEF C!Begin, C!Admit, C!Revalidated, C!End, C!Release, C!Ended, C!Stages
  <2>4. sem' = Card(C!Admitted') /\ sem' \in 0..BgCap
    <3>1. CASE C!Begin(r) \/ C!Revalidated(r) \/ C!End(r)
      <4>1. C!Admitted' = C!Admitted /\ sem' = sem
        BY <2>2, <3>1 DEF C!Begin, C!Revalidated, C!End, C!Admitted, C!Stages
      <4> QED BY <2>2, <4>1
    <3>2. CASE C!Admit(r) /\ sem < BgCap
      <4>1. C!Admitted' = C!Admitted \cup {r} /\ r \notin C!Admitted /\ sem' = sem + 1
        BY <2>2, <3>2 DEF C!Admit, C!SlotLimit, C!Admitted, C!Stages
      <4>2. Card(C!Admitted') = Card(C!Admitted) + 1
        BY <1>0, <4>1, Counting
      <4> QED BY SMTT(30), <2>2, <3>2, <4>1, <4>2
    <3>3. CASE C!Admit(r) /\ ~(sem < BgCap)
      <4>1. C!Admitted' = C!Admitted /\ sem' = sem
        BY <2>2, <3>3 DEF C!Admit, C!SlotLimit, C!Admitted, C!Stages
      <4> QED BY <2>2, <4>1
    <3>4. CASE C!Release(r)
      <4>1. C!Admitted' = C!Admitted \ {r} /\ r \in C!Admitted /\ sem' = sem - 1
        BY <2>2, <3>4 DEF C!Release, C!Admitted, C!Stages
      <4>2. Card(C!Admitted') = Card(C!Admitted) - 1 /\ Card(C!Admitted') \in Nat
        BY <1>0, <4>1, Counting
      <4> QED BY SMT, <2>2, <4>1, <4>2
    <3> QED BY <1>3, <3>1, <3>2, <3>3, <3>4
  <2> QED BY <2>1, <2>3, <2>4 DEF CInv, C!CoalesceTypeOK
<1> QED BY <1>0, <1>1, <1>2, <1>3 DEF C!CoalesceNext, C!FetchOver, C!Progress

-----------------------------------------------------------------------------
\* What is kept whatever the answers, kinds of requests and stores.
IInv == Types /\ CInv /\ FetchInv /\ ReplyInv /\ WritesReachOrigin

\* Nothing is stored, in flight, answered or invalidated when the server starts.
LEMMA InitInv == Init => IInv /\ DoomInv /\ InvalidatedNotServed
<1> SUFFICES ASSUME Init PROVE IInv /\ DoomInv /\ InvalidatedNotServed
  OBVIOUS
<1> USE DEF Init
<1>0. "get" \in Keys /\ None \notin Fetches /\ MaxVersion \in Nat
  BY Names, NoneAndCap DEF Keys
<1>1. Types
  BY SMTT(30), <1>0 DEF Types, Labels, KeyOf, Keys
<1>2. CInv
  <2>1. C!Admitted = {}
    BY DEF C!Admitted, C!CoalesceInit
  <2>2. sem = Card(C!Admitted)
    BY <2>1, Counting DEF C!CoalesceInit
  <2>3. key \in [Requests -> Keys]
    BY <1>1, TypeFacts
  <2>4. C!CoalesceTypeOK
    BY SMT, <2>3, NoneAndCap DEF C!CoalesceTypeOK, C!CoalesceInit, C!Roles, C!Stages
  <2>5. \A k \in Keys, r \in Requests : calls[k] # r
    BY NoneAndCap DEF C!CoalesceInit
  <2>6. succeeded = {}
    BY DEF C!CoalesceInit
  <2> QED BY <2>2, <2>4, <2>5, <2>6 DEF CInv
<1>3. /\ \A f \in Fetches : pc[f] = "idle"
      /\ \A k \in Keys : object[k] = None /\ marker[k].at = "none"
      /\ \A r \in Requests : /\ role[r] = "out" /\ bg[r] = "none" /\ reply[r].from = "none" /\ seen[r] = {}
                             /\ state[r] = "none" /\ Fg(r) \in Fetches /\ Bg(r) \in Fetches
  BY Names DEF C!CoalesceInit
<1>4. FetchInv
  BY <1>3 DEF FetchInv
<1>5. ReplyInv /\ WritesReachOrigin /\ InvalidatedNotServed
  BY <1>3 DEF ReplyInv, WritesReachOrigin, InvalidatedNotServed
<1>6. DoomInv
  BY <1>0, <1>3 DEF DoomInv
<1> QED BY <1>1, <1>2, <1>4, <1>5, <1>6 DEF IInv

\* Every step keeps it.
LEMMA IInvStep == IInv /\ [Next]_vars => IInv'
BY TypesStep, CoalesceInv, FetchStep, ReplyInvStep DEF IInv

\* The invariant holds in every state.
LEMMA Invariance == Spec => []IInv
BY InitInv, IInvStep, PTL DEF Spec

\* What the store holds can be served to anybody: whatever the requests, answers,
\* broken transfers, refused commits and panics, a copy is the whole body of a
\* cacheable answer to a safe method (serveOrigin's gates, tee.finish, Commit).
THEOREM CacheShareableTheorem == Spec => []CacheShareable
<1>1. IInv => CacheShareable
  <2> SUFFICES ASSUME IInv PROVE CacheShareable
    OBVIOUS
  <2>1. TypeOK
    BY DEF IInv, Types, CInv, TypeOK
  <2>2. ASSUME NEW k \in Keys, object[k] # None
        PROVE  LET f == object[k] IN
               /\ got[f].whole /\ got[f].ans \in {"ok", "neg", "failNeg"}
               /\ f[2] = "fg" => ~Unsafe(f[1]) /\ kind[f[1]] # "pass" /\ state[f[1]] # "hfm"
    BY <2>2 DEF IInv, FetchInv, Stores
  <2> QED BY <2>1, <2>2 DEF CacheShareable, OnlyWholeAndShared
<1> QED BY <1>1, Invariance, PTL

\* A write reaches the origin whatever the cache holds and whatever its key
\* (ServeHTTP's unsafe-method branch, serveMiss).
THEOREM WritesReachOriginTheorem == Spec => []WritesReachOrigin
BY Invariance, PTL DEF IInv

\* A purge and the invalidation by a write hold, whatever tiers evict, refuse or fail:
\* what was in the store then is not served to a request that came after, until a
\* commit that was refused without an error announces it again (ServeHTTP, serveStale,
\* serveMiss, handleOriginError; forget, fresh.store).
THEOREM WritesAndPurgesHoldTheorem == Spec => []WritesAndPurgesHold
<1> DEFINE Inv == IInv /\ DoomInv /\ InvalidatedNotServed
<1>1. Init => Inv
  BY InitInv
<1>2. Inv /\ [Next]_vars => Inv'
  BY IInvStep, DoomStep, RefusedDoom, NotServedStep DEF IInv, SomeRefused
<1>3. Inv => WritesAndPurgesHold
  BY DEF IInv, WritesAndPurgesHold
<1> QED BY <1>1, <1>2, <1>3, PTL DEF Spec
=============================================================================
