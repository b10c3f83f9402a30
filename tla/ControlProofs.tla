---------------------------- MODULE ControlProofs ----------------------------
(* Theorems about the server's control: Reload for any sites, recipes and     *)
(* pool fingerprints, any number of reloads and any requests; Chain, Cluster  *)
(* and Tunnel for any origins, any ring of nodes and any tunnels.             *)
EXTENDS Reload, FiniteSetTheorems, WellFoundedInduction, TLAPS

\* The steps are propositional and about sets and functions; those with arithmetic
\* cite SMT.
USE ZenonT(90)

-----------------------------------------------------------------------------
(* The reload of a configuration.                                             *)

StoreMaps == UNION {[S -> Nat] : S \in SUBSET Sites}

Config == [sites : SUBSET Sites, recipe : Recipes, print : Prints, store : StoreMaps, pool : Nat,
           tempDirs : SUBSET (Sites \X Nat)]

\* A configuration serves its sites from stores of its own or an earlier
\* generation, removes only directories of stores it serves from, and keeps a pool
\* bound to the k8s client it owns.
ConfigInv ==
    /\ gen \in Nat /\ cur \in 0..gen
    /\ cfg \in [0..gen -> Config]
    /\ \A g \in 0..gen :
         /\ DOMAIN cfg[g].store = cfg[g].sites
         /\ \A s \in cfg[g].sites : cfg[g].store[s] \in 0..g
         /\ cfg[g].tempDirs \subseteq StoresOf(cfg[g])
         /\ cfg[g].print \in K8sPrints => cfg[g].pool = g

\* Where ApplyConfig is: until the swap the handler routes with the old
\* configuration, and until the transplant the new one has its cold stores.
ApplyInv ==
    /\ apply \in {"idle", "loaded", "started", "moved", "swapped"}
    /\ live = IF apply = "swapped" THEN gen ELSE cur
    /\ apply # "idle" => cur < gen
    /\ apply \in {"loaded", "started"} => \A s \in cfg[gen].sites : cfg[gen].store[s] = gen

\* The generations in use: the one that serves and the one being applied.
Active == {cur} \cup (IF apply = "idle" THEN {} ELSE {gen})

\* A store that a configuration waiting for its grace shares with one in use is in
\* the keep set it was given.
KeepInv ==
    \A t \in teardown : /\ t.g \in 0..cur
                        /\ \A g \in Active : StoresOf(cfg[t.g]) \cap StoresOf(cfg[g]) \subseteq t.keep

StoresServe(g) ==
    \A x \in StoresOf(cfg[g]) : x \in open /\ (x[1] \in ScratchSites => x \in scratch)

WorkersRun(g) ==
    cfg[g].pool \in running /\ (cfg[g].print \in K8sPrints => cfg[g].pool \in shared)

\* While the server is up: the stores of the generations in use are open, and the
\* workers run of the one routed with and, once started, of the one being applied.
Serving ==
    /\ \A g \in Active : StoresServe(g)
    /\ WorkersRun(live)
    /\ apply \in {"started", "moved"} => WorkersRun(gen)

UpInv == phase = "up" => Serving

IInv == ConfigInv /\ ApplyInv /\ KeepInv /\ UpInv

\* The stores of a configuration, by site.
LEMMA StoreFacts ==
  ASSUME ConfigInv, NEW g \in 0..gen
  PROVE  /\ StoresOf(cfg[g]) = {<<s, cfg[g].store[s]>> : s \in cfg[g].sites}
         /\ \A x \in StoresOf(cfg[g]) : x[1] \in cfg[g].sites /\ x[2] = cfg[g].store[x[1]] /\ x[2] \in 0..g
         /\ \A s \in cfg[g].sites : <<s, cfg[g].store[s]>> \in StoresOf(cfg[g])
         /\ cfg[g] \in Config
BY SMT DEF StoresOf, ConfigInv

\* The old configuration has no store of the new generation.
LEMMA OlderStores ==
  ASSUME ConfigInv, NEW g \in 0..gen, NEW h \in Nat, g < h, NEW x \in StoresOf(cfg[g])
  PROVE  x[2] # h
<1>1. x[2] \in 0..g
  BY StoreFacts
<1>2. g \in Nat
  BY SMT DEF ConfigInv
<1> QED BY SMT, <1>1, <1>2

\* A configuration waiting for its grace is older than the one being applied.
LEMMA TornDown ==
  ASSUME IInv, NEW t \in teardown
  PROVE  t.g \in 0..gen /\ t.g \in 0..cur /\ (apply # "idle" => t.g # gen)
<1>1. t.g \in 0..cur /\ cur \in 0..gen /\ gen \in Nat /\ (apply # "idle" => cur < gen)
  BY DEF IInv, KeepInv, ConfigInv, ApplyInv
<1> QED BY <1>1, SMT

\* What closing a configuration spares: the stores it does not have or that are kept.
LEMMA CloseSpares ==
  ASSUME NEW c, NEW keep, c.tempDirs \subseteq StoresOf(c), Close(c, keep)
  PROVE  \A x : /\ x \in open /\ (x \in StoresOf(c) => x \in keep) => x \in open'
                /\ x \in scratch /\ (x \in StoresOf(c) => x \in keep) => x \in scratch'
BY DEF Close

\* The variables the invariant is about.
Frame == UNCHANGED <<cfg, gen, live, cur, open, scratch, apply, teardown>>

\* The steps by what they do to them.
LEMMA Kinds ==
  ASSUME [Next]_vars
  PROVE  \/ Frame /\ (phase' # "up" \/ UNCHANGED <<running, shared, phase>>)
         \/ \E sites \in SUBSET Sites, r \in Recipes, p \in Prints : Load(sites, r, p)
         \/ Reject \/ StartPools \/ TransplantStores \/ Swap \/ Finish
         \/ \E t \in teardown : GraceOver(t)
         \/ ShutdownClose
<1>1. CASE UNCHANGED vars
  BY <1>1 DEF vars, Frame
<1>2. CASE \E p \in Gens : DrainPool(p)
  BY <1>2 DEF DrainPool, Frame
<1>3. CASE \E x \in Stores : Flush(x)
  BY <1>3 DEF Flush, workers, Frame
<1>4. CASE \E r \in Requests : (\E s \in Sites : Arrive(r, s)) \/ Lookup(r) \/ Commit(r)
  BY <1>4 DEF Arrive, Lookup, Commit, workers, Frame
<1>5. CASE Cancel \/ DeadlinePasses
  BY <1>5 DEF Cancel, DeadlinePasses, workers, Frame
<1> QED BY <1>1, <1>2, <1>3, <1>4, <1>5 DEF Next, ApplySteps

\* Steps of requests, flushes and drains leave it alone.
LEMMA FrameStep ==
  ASSUME IInv, Frame, phase' # "up" \/ UNCHANGED <<running, shared, phase>>
  PROVE  IInv'
<1>1. ConfigInv' /\ ApplyInv' /\ KeepInv'
  BY SMT DEF IInv, Frame, ConfigInv, ApplyInv, KeepInv, Active, StoresOf
<1>2. CASE phase' # "up"
  BY <1>1, <1>2 DEF IInv, UpInv
<1>3. CASE UNCHANGED <<running, shared, phase>>
  <2>1. Active' = Active /\ live' = live /\ gen' = gen /\ apply' = apply
    BY DEF Frame, Active
  <2>2. \A g : (StoresServe(g)' <=> StoresServe(g)) /\ (WorkersRun(g)' <=> WorkersRun(g))
    BY <1>3 DEF Frame, StoresServe, WorkersRun, StoresOf
  <2>3. Serving => Serving'
    BY <2>1, <2>2 DEF Serving, WorkersRun
  <2> QED BY <1>1, <1>3, <2>3 DEF IInv, UpInv
<1> QED BY <1>2, <1>3

\* Load: the new generation has only its own, open stores, and shares none with a
\* configuration loaded before it.
LEMMA LoadStep ==
  ASSUME IInv, NEW sites \in SUBSET Sites, NEW r \in Recipes, NEW p \in Prints, Load(sites, r, p)
  PROVE  IInv'
<1> DEFINE n == NewConfig(gen + 1, sites, r, p)
<1>1. /\ gen \in Nat /\ gen' = gen + 1 /\ gen' \in Nat /\ cur' = cur /\ cur \in 0..gen' /\ cur < gen'
      /\ \A g \in 0..gen' : g = gen' \/ (g \in 0..gen /\ g # gen')
      /\ \A g \in 0..gen : g \in 0..gen' /\ g < gen' /\ g # gen'
      /\ gen' \in 0..gen'
  BY SMT DEF IInv, ConfigInv, Load
<1>2. /\ DOMAIN cfg' = 0..gen'
      /\ cfg'[gen'] = n
      /\ \A g \in 0..gen : cfg'[g] = cfg[g]
      /\ cfg' = [h \in 0..gen' |-> IF h = gen' THEN n ELSE cfg[h]]
  BY <1>1 DEF Load
<1>3. /\ n \in Config /\ DOMAIN n.store = n.sites /\ n.pool = gen' /\ n.sites = sites
      /\ \A s \in n.sites : n.store[s] = gen'
      /\ n.tempDirs = {<<s, gen'>> : s \in sites \cap ScratchSites}
  <2>1. [s \in sites |-> gen + 1] \in StoreMaps
    BY SMT, <1>1 DEF StoreMaps
  <2>2. {<<s, gen + 1>> : s \in sites \cap ScratchSites} \in SUBSET (Sites \X Nat)
    BY SMT, <1>1
  <2> QED BY <1>1, <2>1, <2>2, SMT DEF NewConfig, Config
<1>4. StoresOf(n) = {<<s, gen'>> : s \in sites} /\ n.tempDirs \subseteq StoresOf(n)
  BY <1>3 DEF StoresOf
<1>5. \A g \in 0..gen : StoresOf(cfg'[g]) = StoresOf(cfg[g])
  BY <1>2
<1>6. ConfigInv'
  <2>1. cfg' \in [0..gen' -> Config]
    BY <1>1, <1>2, <1>3 DEF IInv, ConfigInv
  <2>2. \A g \in 0..gen' : DOMAIN cfg'[g].store = cfg'[g].sites
    BY <1>1, <1>2, <1>3 DEF IInv, ConfigInv
  <2>3. \A g \in 0..gen' : \A s \in cfg'[g].sites : cfg'[g].store[s] \in 0..g
    BY <1>1, <1>2, <1>3 DEF IInv, ConfigInv
  <2>4. \A g \in 0..gen' : cfg'[g].tempDirs \subseteq StoresOf(cfg'[g])
    BY <1>1, <1>2, <1>4, <1>5 DEF IInv, ConfigInv
  <2>5. \A g \in 0..gen' : cfg'[g].print \in K8sPrints => cfg'[g].pool = g
    BY <1>1, <1>2, <1>3 DEF IInv, ConfigInv
  <2> QED BY <1>1, <2>1, <2>2, <2>3, <2>4, <2>5 DEF ConfigInv
<1>7. /\ apply = "idle" /\ apply' = "loaded" /\ live = cur /\ live' = cur
      /\ Active = {cur} /\ Active' = {cur, gen'} /\ teardown' = teardown
  BY <1>1 DEF IInv, ApplyInv, Active, Load
<1>8. ApplyInv'
  BY <1>1, <1>2, <1>3, <1>7 DEF ApplyInv
<1>9. cur \in 0..gen
  BY DEF IInv, ConfigInv
<1>10. KeepInv'
  <2> SUFFICES ASSUME NEW t \in teardown, NEW g \in Active'
               PROVE  t.g \in 0..cur /\ StoresOf(cfg'[t.g]) \cap StoresOf(cfg'[g]) \subseteq t.keep
    BY <1>1, <1>7, TornDown DEF KeepInv
  <2>1. t.g \in 0..gen /\ t.g \in 0..cur
    BY TornDown
  <2>2. CASE g = cur
    BY <1>1, <1>5, <1>7, <1>9, <2>1, <2>2 DEF IInv, KeepInv
  <2>3. CASE g = gen'
    <3>1. \A x \in StoresOf(cfg[t.g]) : x[2] # gen'
      BY <1>1, <2>1, OlderStores DEF IInv
    <3>2. \A x \in StoresOf(n) : x[2] = gen'
      BY SMT, <1>4
    <3> QED BY <1>1, <1>2, <1>5, <2>1, <2>3, <3>1, <3>2
  <2> QED BY <1>7, <2>2, <2>3
<1>11. UpInv'
  <2> SUFFICES ASSUME phase' = "up"  PROVE Serving'
    BY DEF UpInv
  <2>1. /\ phase = "up" /\ open' = open \cup (sites \X {gen + 1}) /\ scratch' = scratch \cup n.tempDirs
        /\ running' = running /\ shared' = shared
    BY <1>1, <1>2 DEF Load, workers
  <2>2. StoresServe(cur)'
    BY <1>5, <1>7, <1>9, <2>1 DEF IInv, UpInv, Serving, StoresServe, Load
  <2>3. \A x \in StoresOf(n) : x \in open' /\ (x[1] \in ScratchSites => x \in scratch')
    BY SMT, <1>1, <1>3, <1>4, <2>1
  <2>4. StoresServe(gen)'
    BY <1>2, <2>3 DEF StoresServe
  <2>5. WorkersRun(live)'
    BY SMT, <1>2, <1>7, <1>9, <2>1 DEF IInv, UpInv, Serving, WorkersRun
  <2>6. \A g \in Active' : StoresServe(g)'
    BY <1>7, <1>1, <2>2, <2>4 DEF StoresServe
  <2> QED BY <1>7, <2>5, <2>6 DEF Serving, StoresServe
<1> QED BY <1>6, <1>8, <1>10, <1>11 DEF IInv

\* Closing a configuration spares the generations in use when none of their stores
\* is among those closed.
LEMMA CloseKeepsServing ==
  ASSUME IInv, NEW h \in 0..gen, NEW keep, Close(cfg[h], keep), cfg' = cfg, NEW g \in Active,
         StoresServe(g), StoresOf(cfg[h]) \cap StoresOf(cfg[g]) \subseteq keep
  PROVE  StoresServe(g)'
<1>1. cfg[h].tempDirs \subseteq StoresOf(cfg[h])
  BY DEF IInv, ConfigInv
<1>2. \A x : /\ x \in open /\ (x \in StoresOf(cfg[h]) => x \in keep) => x \in open'
             /\ x \in scratch /\ (x \in StoresOf(cfg[h]) => x \in keep) => x \in scratch'
  BY <1>1, CloseSpares
<1> QED BY <1>2 DEF StoresServe, StoresOf

\* A refused configuration closes the cold stores it opened, which nothing shares.
LEMMA RejectStep ==
  ASSUME IInv, Reject
  PROVE  IInv'
<1>1. /\ apply = "loaded" /\ apply' = "idle" /\ Close(cfg[gen], {})
      /\ UNCHANGED <<cfg, gen, live, cur, running, shared, teardown, phase>>
  BY DEF Reject, workers
<1>2. /\ gen \in 0..gen /\ cur \in 0..gen /\ cur < gen /\ live = cur /\ gen \in Nat
      /\ Active = {cur, gen} /\ Active' = {cur}
  BY <1>1, SMT DEF IInv, ConfigInv, ApplyInv, Active
<1>3. ConfigInv' /\ ApplyInv'
  BY SMT, <1>1, <1>2 DEF IInv, ConfigInv, ApplyInv, StoresOf
<1>4. KeepInv'
  <2>1. \A t \in teardown : t.g \in 0..cur /\ StoresOf(cfg[t.g]) \cap StoresOf(cfg[cur]) \subseteq t.keep
    BY <1>2 DEF IInv, KeepInv
  <2>2. \A t \in teardown' : t.g \in 0..cur' /\ StoresOf(cfg'[t.g]) \cap StoresOf(cfg'[cur]) \subseteq t.keep
    BY <1>1, <2>1
  <2>3. \A t \in teardown', g \in Active' : StoresOf(cfg'[t.g]) \cap StoresOf(cfg'[g]) \subseteq t.keep
    BY <1>2, <2>2
  <2> QED BY <2>2, <2>3 DEF KeepInv, StoresOf
<1>5. \A x \in StoresOf(cfg[gen]) : x[2] = gen
  BY <1>1, <1>2, StoreFacts DEF IInv, ApplyInv
<1>6. \A x \in StoresOf(cfg[cur]) : x[2] # gen
  BY <1>2, OlderStores DEF IInv
<1>7. phase = "up" => StoresServe(cur)'
  BY <1>1, <1>2, <1>5, <1>6, CloseKeepsServing DEF IInv, UpInv, Serving
<1>8. UpInv'
  BY <1>1, <1>2, <1>7 DEF IInv, UpInv, Serving, WorkersRun, StoresServe, StoresOf
<1> QED BY <1>3, <1>4, <1>8 DEF IInv

\* The grace of an old configuration closes no store of a generation in use.
LEMMA GraceStep ==
  ASSUME IInv, NEW t \in teardown, GraceOver(t)
  PROVE  IInv'
<1>1. /\ Close(cfg[t.g], t.keep) /\ teardown' = teardown \ {t}
      /\ UNCHANGED <<cfg, gen, live, cur, running, shared, apply, phase>>
  BY DEF GraceOver, Kept, workers
<1>2. t.g \in 0..gen /\ Active' = Active
  BY <1>1, TornDown DEF Active
<1>3. ConfigInv' /\ ApplyInv'
  BY SMT, <1>1 DEF IInv, ConfigInv, ApplyInv, StoresOf
<1>4. KeepInv'
  BY SMT, <1>1, <1>2 DEF IInv, KeepInv, StoresOf
<1>5. ASSUME phase = "up", NEW g \in Active  PROVE StoresServe(g)'
  BY <1>1, <1>2, <1>5, CloseKeepsServing DEF IInv, UpInv, Serving, KeepInv
<1>6. UpInv'
  BY <1>1, <1>2, <1>5 DEF IInv, UpInv, Serving, WorkersRun, StoresServe
<1> QED BY <1>3, <1>4, <1>6 DEF IInv

\* StartPools: a pool with a k8s backend stays the new configuration's own.
LEMMA StartPoolsStep ==
  ASSUME IInv, StartPools
  PROVE  IInv'
<1> DEFINE pool == IF Carried(cfg[cur], cfg[gen]) THEN cfg[cur].pool ELSE cfg[gen].pool
<1>1. /\ apply = "loaded" /\ apply' = "started" /\ cfg' = [cfg EXCEPT ![gen].pool = pool]
      /\ phase = "up" => running' = running \cup {pool} /\ shared' = shared \cup {gen}
      /\ UNCHANGED <<gen, live, cur, open, scratch, teardown, phase>>
  BY DEF StartPools
<1>2. /\ gen \in 0..gen /\ cur \in 0..gen /\ cur # gen /\ cur < gen /\ live = cur /\ gen \in Nat
      /\ Active = {cur, gen} /\ Active' = {cur, gen}
  BY <1>1, SMT DEF IInv, ConfigInv, ApplyInv, Active
<1>3. /\ cfg \in [0..gen -> Config] /\ cfg[gen] \in Config /\ cfg[cur] \in Config
      /\ cfg[cur].pool \in Nat /\ cfg[gen].pool \in Nat /\ pool \in Nat
  BY <1>2, SMT DEF IInv, ConfigInv, Config
<1>4. /\ [cfg[gen] EXCEPT !.pool = pool] \in Config
      /\ [cfg[gen] EXCEPT !.pool = pool].pool = pool
      /\ [cfg[gen] EXCEPT !.pool = pool].sites = cfg[gen].sites
      /\ [cfg[gen] EXCEPT !.pool = pool].store = cfg[gen].store
      /\ [cfg[gen] EXCEPT !.pool = pool].tempDirs = cfg[gen].tempDirs
      /\ [cfg[gen] EXCEPT !.pool = pool].print = cfg[gen].print
  <2> HIDE DEF pool
  <2> QED BY <1>3, SMT DEF Config
<1>5. /\ cfg' \in [0..gen -> Config]
      /\ \A g \in 0..gen : g # gen => cfg'[g] = cfg[g]
      /\ cfg'[gen] = [cfg[gen] EXCEPT !.pool = pool]
  <2> HIDE DEF pool
  <2> QED BY <1>1, <1>2, <1>3, <1>4
<1>6. /\ cfg'[gen].pool = pool
      /\ \A g \in 0..gen : /\ cfg'[g].sites = cfg[g].sites /\ cfg'[g].store = cfg[g].store
                           /\ cfg'[g].tempDirs = cfg[g].tempDirs /\ cfg'[g].print = cfg[g].print
  BY <1>4, <1>5
<1>7. \A g \in 0..gen : StoresOf(cfg'[g]) = StoresOf(cfg[g])
  BY <1>6 DEF StoresOf
<1>8. cfg[gen].print \in K8sPrints => pool = gen
  BY <1>2 DEF IInv, ConfigInv, Carried
<1>9. ConfigInv'
  <2>1. \A g \in 0..gen : cfg'[g].print \in K8sPrints => cfg'[g].pool = g
    BY <1>5, <1>6, <1>8 DEF IInv, ConfigInv
  <2>2. \A g \in 0..gen : /\ DOMAIN cfg'[g].store = cfg'[g].sites
                          /\ \A s \in cfg'[g].sites : cfg'[g].store[s] \in 0..g
                          /\ cfg'[g].tempDirs \subseteq StoresOf(cfg'[g])
    BY <1>6, <1>7 DEF IInv, ConfigInv
  <2> QED BY <1>1, <1>2, <1>5, <2>1, <2>2 DEF ConfigInv
<1>10. ApplyInv'
  BY <1>1, <1>2, <1>6 DEF IInv, ApplyInv
<1>11. KeepInv'
  BY SMT, <1>1, <1>2, <1>7 DEF IInv, KeepInv
<1>12. UpInv'
  <2> SUFFICES ASSUME phase' = "up"  PROVE Serving'
    BY DEF UpInv
  <2>1. \A g \in Active' : StoresServe(g)'
    BY <1>1, <1>2, <1>7 DEF IInv, UpInv, Serving, StoresServe
  <2>2. WorkersRun(live)'
    BY <1>1, <1>2, <1>5 DEF IInv, UpInv, Serving, WorkersRun
  <2>3. WorkersRun(gen)'
    BY <1>1, <1>2, <1>6, <1>8 DEF WorkersRun
  <2> QED BY <2>1, <2>2, <2>3 DEF Serving, StoresServe, WorkersRun
<1> QED BY <1>9, <1>10, <1>11, <1>12 DEF IInv

\* TransplantStores: a carried site serves from the old configuration's store, and
\* of the cold stores only those of carried sites are closed.
LEMMA TransplantStep ==
  ASSUME IInv, TransplantStores
  PROVE  IInv'
<1> DEFINE old == cfg[cur]
           new == cfg[gen]
           carried == WillTransplant(old, new)
           cold == Cold(carried)
           store == [s \in new.sites |-> IF s \in carried THEN old.store[s] ELSE new.store[s]]
           dirs == new.tempDirs \ cold
<1>1. /\ apply = "started" /\ apply' = "moved"
      /\ cfg' = [cfg EXCEPT ![gen].store = store, ![gen].tempDirs = dirs]
      /\ open' = open \ cold /\ scratch' = scratch \ cold
      /\ UNCHANGED <<gen, live, cur, running, shared, teardown, phase>>
  <2>1. cfg' = [cfg EXCEPT ![gen].store = store, ![gen].tempDirs = @ \ cold]
    BY DEF TransplantStores
  <2>2. cfg \in [0..gen -> Config] /\ gen \in 0..gen
    BY SMT DEF IInv, ConfigInv
  <2>3. cfg[gen] \in Config
    BY <2>2
  <2>4. cfg' = [cfg EXCEPT ![gen].store = store, ![gen].tempDirs = dirs]
    <3> HIDE DEF store, cold
    <3> QED BY <2>1, <2>2, <2>3, SMT DEF Config
  <2> QED BY <2>4 DEF TransplantStores, workers
<1>2. /\ gen \in 0..gen /\ cur \in 0..gen /\ cur # gen /\ cur < gen /\ live = cur /\ gen \in Nat
      /\ Active = {cur, gen} /\ Active' = {cur, gen}
  BY <1>1, SMT DEF IInv, ConfigInv, ApplyInv, Active
<1>3. cfg \in [0..gen -> Config] /\ new \in Config /\ old \in Config
  BY <1>2 DEF IInv, ConfigInv
<1>4. /\ carried \subseteq old.sites \cap new.sites /\ cold = carried \X {gen}
      /\ new.sites \subseteq Sites /\ new.tempDirs \subseteq Sites \X Nat
  BY <1>3, SMT DEF WillTransplant, Cold, Config
<1>5. /\ \A s \in old.sites : old.store[s] \in Nat /\ old.store[s] \in 0..gen /\ old.store[s] # gen
      /\ \A s \in new.sites : new.store[s] = gen
  BY <1>1, <1>2, SMT DEF IInv, ConfigInv, ApplyInv
<1>6. /\ DOMAIN store = new.sites
      /\ \A s \in new.sites : store[s] = IF s \in carried THEN old.store[s] ELSE gen
      /\ \A s \in new.sites : store[s] \in 0..gen /\ store[s] \in Nat
      /\ store \in StoreMaps
  <2>1. /\ DOMAIN store = new.sites
        /\ \A s \in new.sites : store[s] = IF s \in carried THEN old.store[s] ELSE gen
    <3> HIDE DEF carried, old, new
    <3> QED BY <1>5
  <2>2. \A s \in new.sites : store[s] \in 0..gen /\ store[s] \in Nat
    <3> HIDE DEF store, carried, old, new
    <3> QED BY <1>2, <1>4, <1>5, <2>1
  <2>3. store \in [new.sites -> Nat]
    <3>1. store = [s \in new.sites |-> store[s]]
      <4> HIDE DEF carried, old, new
      <4> QED OBVIOUS
    <3> HIDE DEF store, carried, old, new
    <3> QED BY <2>2, <3>1
  <2> HIDE DEF store, carried, old, new
  <2> QED BY <1>4, <2>1, <2>2, <2>3 DEF StoreMaps
<1> DEFINE moved == [new EXCEPT !.store = store, !.tempDirs = dirs]
<1>7. /\ moved \in Config
      /\ moved.store = store /\ moved.tempDirs = dirs
      /\ moved.sites = new.sites /\ moved.pool = new.pool /\ moved.print = new.print
  <2>1. dirs \in SUBSET (Sites \X Nat) /\ store \in StoreMaps /\ new \in Config
    BY <1>3, <1>4, <1>6
  <2> HIDE DEF store, dirs, cold, carried, new, old
  <2> DEFINE half == [new EXCEPT !.store = store]
  <2>2. /\ half \in Config /\ half.store = store /\ half.sites = new.sites /\ half.pool = new.pool
        /\ half.print = new.print
    BY <2>1, SMT DEF Config
  <2>3. moved = [half EXCEPT !.tempDirs = dirs]
    OBVIOUS
  <2> HIDE DEF half, moved
  <2> QED BY <2>1, <2>2, <2>3, SMT DEF Config
<1>8. /\ cfg' \in [0..gen -> Config]
      /\ \A g \in 0..gen : g # gen => cfg'[g] = cfg[g]
      /\ cfg'[gen] = moved
  <2>1. cfg' = [cfg EXCEPT ![gen] = moved]
    <3>1. /\ cfg' = [cfg EXCEPT ![gen].store = store, ![gen].tempDirs = dirs]
          /\ moved = [cfg[gen] EXCEPT !.store = store, !.tempDirs = dirs]
          /\ gen \in 0..gen /\ cfg \in [0..gen -> Config]
      BY <1>1, <1>2, <1>3
    <3> HIDE DEF store, dirs, moved, new, old, cold, carried
    <3> QED BY <3>1
  <2> HIDE DEF moved
  <2> QED BY <1>2, <1>3, <1>7, <2>1
<1> HIDE DEF moved, store, dirs
<1>9. StoresOf(moved) = {<<s, store[s]>> : s \in new.sites}
  BY <1>7 DEF StoresOf
<1>10. /\ \A x \in StoresOf(moved) : x \in StoresOf(old) \/ (x \in StoresOf(new) /\ x \notin cold)
       /\ \A x \in StoresOf(new) : x \notin cold => x \in StoresOf(moved)
       /\ \A x \in StoresOf(old) : x \notin cold
  <2>1. StoresOf(old) = {<<s, old.store[s]>> : s \in old.sites} /\ StoresOf(new) = {<<s, new.store[s]>> : s \in new.sites}
    BY DEF StoresOf
  <2> HIDE DEF old, new, carried, cold
  <2>2. ASSUME NEW s \in new.sites
        PROVE  LET x == <<s, store[s]>> IN x \in StoresOf(old) \/ (x \in StoresOf(new) /\ x \notin cold)
    <3>1. CASE s \in carried
      BY <1>4, <1>6, <2>1, <3>1
    <3>2. CASE s \notin carried
      BY <1>4, <1>5, <1>6, <2>1, <3>2
    <3> QED BY <3>1, <3>2
  <2>3. ASSUME NEW s \in new.sites, <<s, new.store[s]>> \notin cold
        PROVE  <<s, new.store[s]>> \in StoresOf(moved)
    <3>1. new.store[s] = gen /\ s \notin carried
      BY <1>4, <1>5, <2>3
    <3> QED BY <1>6, <1>9, <3>1
  <2>4. ASSUME NEW s \in old.sites  PROVE <<s, old.store[s]>> \notin cold
    BY <1>4, <1>5
  <2> QED BY <1>9, <2>1, <2>2, <2>3, <2>4
<1>11. \A g \in 0..gen : g # gen => StoresOf(cfg'[g]) = StoresOf(cfg[g])
  BY <1>8
<1>12. ConfigInv'
  <2>1. \A g \in 0..gen : DOMAIN cfg'[g].store = cfg'[g].sites
    <3> HIDE DEF old, new
    <3>1. DOMAIN moved.store = moved.sites
      BY <1>6, <1>7
    <3> QED BY <1>8, <3>1 DEF IInv, ConfigInv
  <2>2. \A g \in 0..gen : \A s \in cfg'[g].sites : cfg'[g].store[s] \in 0..g
    <3>1. \A s \in moved.sites : moved.store[s] \in 0..gen
      BY <1>6, <1>7
    <3> QED BY <1>8, <3>1 DEF IInv, ConfigInv
  <2>3. \A g \in 0..gen : cfg'[g].tempDirs \subseteq StoresOf(cfg'[g])
    <3>1. moved.tempDirs \subseteq StoresOf(moved)
      BY <1>2, <1>7, <1>10 DEF IInv, ConfigInv, dirs
    <3> QED BY <1>8, <1>11, <3>1 DEF IInv, ConfigInv
  <2>4. \A g \in 0..gen : cfg'[g].print \in K8sPrints => cfg'[g].pool = g
    BY <1>7, <1>8 DEF IInv, ConfigInv
  <2> QED BY <1>1, <1>2, <1>8, <2>1, <2>2, <2>3, <2>4 DEF ConfigInv
<1>13. ApplyInv'
  BY <1>1, <1>2 DEF IInv, ApplyInv
<1>14. KeepInv'
  <2> SUFFICES ASSUME NEW t \in teardown, NEW g \in {cur, gen}
               PROVE  StoresOf(cfg'[t.g]) \cap StoresOf(cfg'[g]) \subseteq t.keep
    BY <1>1, <1>2, TornDown DEF KeepInv
  <2>1. /\ t.g \in 0..gen
        /\ StoresOf(cfg[t.g]) \cap StoresOf(old) \subseteq t.keep
        /\ StoresOf(cfg[t.g]) \cap StoresOf(new) \subseteq t.keep
    BY <1>2, TornDown DEF IInv, KeepInv
  <2>2. t.g # gen
    BY <1>1, TornDown
  <2>3. CASE g = cur
    BY <1>2, <1>11, <2>1, <2>2, <2>3
  <2>4. CASE g = gen
    BY <1>8, <1>10, <1>11, <2>1, <2>2, <2>4
  <2> QED BY <2>3, <2>4
<1>15. UpInv'
  <2> SUFFICES ASSUME phase' = "up"  PROVE Serving'
    BY DEF UpInv
  <2>1. phase = "up" /\ StoresServe(cur) /\ StoresServe(gen)
    BY <1>1, <1>2 DEF IInv, UpInv, Serving
  <2>2. StoresServe(cur)'
    BY <1>1, <1>2, <1>10, <1>11, <2>1 DEF StoresServe
  <2>3. StoresServe(gen)'
    BY <1>1, <1>8, <1>10, <2>1 DEF StoresServe
  <2>4. WorkersRun(live)'
    BY <1>1, <1>2, <1>8, <2>1 DEF IInv, UpInv, Serving, WorkersRun
  <2>5. WorkersRun(gen)'
    BY SMT, <1>1, <1>7, <1>8, <2>1 DEF IInv, UpInv, Serving, WorkersRun
  <2> QED BY <1>1, <1>2, <2>2, <2>3, <2>4, <2>5 DEF Serving, StoresServe, WorkersRun
<1> QED BY <1>12, <1>13, <1>14, <1>15 DEF IInv

\* The handler swaps to a configuration whose stores are open and workers run.
LEMMA SwapStep ==
  ASSUME IInv, Swap
  PROVE  IInv'
<1>1. /\ apply = "moved" /\ apply' = "swapped" /\ live' = gen
      /\ UNCHANGED <<cfg, gen, cur, open, scratch, running, shared, teardown, phase>>
  BY DEF Swap, workers
<1>2. Active' = Active
  BY <1>1 DEF Active
<1>3. ConfigInv' /\ ApplyInv' /\ KeepInv'
  BY SMT, <1>1, <1>2 DEF IInv, ConfigInv, ApplyInv, KeepInv, StoresOf
<1>4. UpInv'
  BY <1>1, <1>2 DEF IInv, UpInv, Serving, WorkersRun, StoresServe, StoresOf
<1> QED BY <1>3, <1>4 DEF IInv

\* The end of ApplyConfig stops no worker of the new configuration and gives the
\* old one a keep set with every store it handed over.
LEMMA FinishStep ==
  ASSUME IInv, Finish
  PROVE  IInv'
<1>1. /\ apply = "swapped" /\ apply' = "idle" /\ cur' = gen
      /\ shared' = shared \ {cur} /\ running' = running \ (running \ {cfg[gen].pool})
      /\ teardown' = teardown \cup {[g |-> cur, keep |-> StoresOf(cfg[gen])]}
      /\ UNCHANGED <<cfg, gen, live, open, scratch, phase>>
  BY DEF Finish, RemovedPools, Keep
<1>2. /\ gen \in 0..gen /\ cur \in 0..gen /\ cur # gen /\ live = gen /\ gen \in Nat
      /\ Active = {cur, gen} /\ Active' = {gen}
  BY <1>1, SMT DEF IInv, ConfigInv, ApplyInv, Active
<1>3. ConfigInv' /\ ApplyInv'
  BY SMT, <1>1, <1>2 DEF IInv, ConfigInv, ApplyInv, StoresOf
<1>4. KeepInv'
  <2> SUFFICES ASSUME NEW t \in teardown'
               PROVE  t.g \in 0..gen /\ StoresOf(cfg[t.g]) \cap StoresOf(cfg[gen]) \subseteq t.keep
    BY SMT, <1>1, <1>2 DEF KeepInv, StoresOf
  <2>1. CASE t \in teardown
    BY <1>2, <2>1, TornDown DEF IInv, KeepInv
  <2>2. CASE t = [g |-> cur, keep |-> StoresOf(cfg[gen])]
    BY <1>2, <2>2
  <2> QED BY <1>1, <2>1, <2>2
<1>5. UpInv'
  <2> SUFFICES ASSUME phase' = "up"  PROVE Serving'
    BY DEF UpInv
  <2>1. StoresServe(gen) /\ WorkersRun(gen)
    BY <1>1, <1>2 DEF IInv, UpInv, Serving
  <2>2. cfg[gen].print \in K8sPrints => cfg[gen].pool # cur
    BY <1>2 DEF IInv, ConfigInv
  <2>3. StoresServe(gen)'
    BY <1>1, <2>1 DEF StoresServe, StoresOf
  <2>4. WorkersRun(live)'
    BY <1>1, <1>2, <2>1, <2>2 DEF WorkersRun
  <2> QED BY <1>1, <1>2, <2>3, <2>4 DEF Serving, StoresServe
<1> QED BY <1>3, <1>4, <1>5 DEF IInv

\* Shutdown closes the current configuration once the server is no longer up.
LEMMA ShutdownStep ==
  ASSUME IInv, ShutdownClose
  PROVE  IInv'
<1>1. phase' = "down" /\ UNCHANGED <<cfg, gen, live, cur, apply, teardown>>
  BY DEF ShutdownClose
<1>2. ConfigInv' /\ ApplyInv' /\ KeepInv'
  BY SMT, <1>1 DEF IInv, ConfigInv, ApplyInv, KeepInv, Active, StoresOf
<1> QED BY <1>1, <1>2 DEF IInv, UpInv

\* The first configuration: Server.Start opens its stores and starts its workers.
LEMMA InitHolds == Init => IInv
<1> SUFFICES ASSUME Init  PROVE IInv
  OBVIOUS
<1>1. PICK r \in Recipes, p \in Prints : cfg = [g \in {0} |-> NewConfig(0, Sites, r, p)]
  BY DEF Init
<1> DEFINE n == NewConfig(0, Sites, r, p)
<1>2. 0..0 = {0} /\ 0 \in Nat /\ gen = 0 /\ cur = 0 /\ live = 0
  BY SMT DEF Init
<1>3. cfg = [g \in 0..gen |-> n] /\ cfg[0] = n
  BY <1>1, <1>2
<1>4. /\ n \in Config /\ DOMAIN n.store = n.sites /\ n.pool = 0 /\ n.sites = Sites
      /\ \A s \in n.sites : n.store[s] = 0
      /\ n.tempDirs = {<<s, 0>> : s \in Sites \cap ScratchSites}
  <2>1. [s \in Sites |-> 0] \in StoreMaps
    BY SMT, <1>2 DEF StoreMaps
  <2>2. {<<s, 0>> : s \in Sites \cap ScratchSites} \in SUBSET (Sites \X Nat)
    BY SMT, <1>2
  <2> QED BY <1>2, <2>1, <2>2, SMT DEF NewConfig, Config
<1>5. StoresOf(n) = {<<s, 0>> : s \in Sites} /\ n.tempDirs \subseteq StoresOf(n)
  BY <1>4 DEF StoresOf
<1> HIDE DEF n
<1>6. ConfigInv
  BY <1>2, <1>3, <1>4, <1>5 DEF ConfigInv
<1>7. apply = "idle" /\ teardown = {} /\ Active = {0}
  BY <1>2 DEF Init, Active
<1>8. ApplyInv /\ KeepInv
  BY <1>2, <1>7 DEF ApplyInv, KeepInv
<1>9. StoresServe(0) /\ WorkersRun(0)
  BY SMT, <1>3, <1>4, <1>5 DEF Init, StoresServe, WorkersRun
<1> QED BY <1>2, <1>6, <1>7, <1>8, <1>9 DEF IInv, UpInv, Serving

\* Every step of a reload, a request or the shutdown preserves the invariant.
LEMMA StepHolds == IInv /\ [Next]_vars => IInv'
BY Kinds, FrameStep, LoadStep, RejectStep, StartPoolsStep, TransplantStep, SwapStep, FinishStep,
   GraceStep, ShutdownStep

\* Zero downtime: while the server is up, through any reloads applied, refused or
\* under way and any teardown of earlier ones, every site routed to has an open
\* store with its directory on disk, and the workers of its pool run
\* (Server.ApplyConfig, TransplantStoresFrom, TransplantPoolsFrom, CloseExcept).
THEOREM LiveServesTheorem == Spec => []LiveServes
<1>1. IInv => LiveServes
  <2> SUFFICES ASSUME IInv, phase = "up"  PROVE LiveServes
    BY DEF LiveServes
  <2>1. live \in Active
    BY DEF IInv, ApplyInv, Active
  <2>2. StoresServe(live) /\ WorkersRun(live)
    BY <2>1 DEF IInv, UpInv, Serving
  <2> QED BY <2>2 DEF LiveServes, LiveStores, StoresServe, WorkersRun
<1> QED BY <1>1, InitHolds, StepHolds, PTL DEF Spec

-----------------------------------------------------------------------------
(* The fallback chain of origins, for any number of origins and any set of    *)
(* statuses that fall through.                                                *)

CONSTANTS Origins, FallStatuses
VARIABLES i, hasBody, consumed, lastErr, lastNeg, bodies, result
Ch == INSTANCE Chain WITH N <- Origins, live <- bodies

AnswerKinds == {"none", "positive", "negative", "status", "transport", "refused", "notfound", "skip", "context"}
Outcomes == [kind : AnswerKinds, status : Nat, from : Nat, body : BOOLEAN]

\* While the chain goes on, what it holds came from origins tried before; a request
\* with a body was read by none of them, and nothing is held for it.
GoingOn ==
    /\ lastNeg < i /\ lastErr.from < i
    /\ lastErr.body => lastErr.from # lastNeg
    /\ hasBody => lastErr = Ch!NoOutcome /\ lastNeg = 0
    /\ consumed = {}

\* What it returned of a request with a body is the answer of the origin that read it.
Returned ==
    \/ consumed = {} /\ (hasBody => result.kind \in {"context", "refused"} \/ result.from = 0)
    \/ consumed = {result.from}

ChainInv ==
    /\ i \in Nat /\ hasBody \in BOOLEAN /\ lastNeg \in Nat /\ lastErr \in Outcomes /\ result \in Outcomes
    /\ Ch!BodiesOwned /\ Ch!NegativeSurvives
    /\ result = Ch!NoOutcome => GoingOn
    /\ result # Ch!NoOutcome => Returned

\* What an origin answers: it is named, and a response comes with its body.
LEMMA Answers ==
  ASSUME i \in Nat
  PROVE  \A out \in Ch!HTTPOutcomes(i) \cup Ch!S3Outcomes(i) \cup Ch!PeerOutcomes(i) :
            /\ out \in Outcomes /\ out.from = i /\ out.kind # "none"
            /\ out.kind \in {"positive", "negative"} => out.body
<1> DEFINE With(kind, status) == Ch!Outcome(kind, status, i, TRUE)
           Without(kind, status) == Ch!Outcome(kind, status, i, FALSE)
           Good(o) == /\ o \in Outcomes /\ o.from = i /\ o.kind # "none"
                      /\ o.kind \in {"positive", "negative"} => o.body
<1>1. ASSUME NEW kind \in AnswerKinds \ {"none"}, NEW status \in Nat
      PROVE  Good(With(kind, status)) /\ (kind \notin {"positive", "negative"} => Good(Without(kind, status)))
  <2>1. With(kind, status) \in Outcomes /\ Without(kind, status) \in Outcomes
    BY SMT DEF Ch!Outcome, Outcomes
  <2>2. /\ With(kind, status).from = i /\ With(kind, status).kind = kind /\ With(kind, status).body
        /\ Without(kind, status).from = i /\ Without(kind, status).kind = kind
    BY DEF Ch!Outcome
  <2> HIDE DEF With, Without
  <2> QED BY <2>1, <2>2
<1> HIDE DEF Good
<1>2. /\ 0 \in Nat /\ 200 \in Nat /\ 206 \in Nat /\ 304 \in Nat
      /\ 403 \in Nat /\ 404 \in Nat /\ 503 \in Nat
  BY SMT
<1>3. /\ Good(With("positive", 200)) /\ Good(With("positive", 206)) /\ Good(With("positive", 304))
      /\ Good(With("negative", 404)) /\ Good(With("status", 403)) /\ Good(With("status", 503))
      /\ Good(Without("status", 503)) /\ Good(Without("notfound", 0)) /\ Good(Without("transport", 0))
      /\ Good(Without("refused", 0)) /\ Good(Without("skip", 0))
  <2> HIDE DEF With, Without
  <2>1. \A status \in Nat : /\ Good(With("positive", status)) /\ Good(With("negative", status))
                            /\ Good(With("status", status)) /\ Good(Without("status", status))
    BY <1>1 DEF AnswerKinds
  <2>2. /\ Good(Without("notfound", 0)) /\ Good(Without("transport", 0))
        /\ Good(Without("refused", 0)) /\ Good(Without("skip", 0))
    BY <1>1, <1>2 DEF AnswerKinds
  <2> HIDE DEF Good
  <2>3. Good(With("positive", 200)) /\ Good(With("positive", 206)) /\ Good(With("positive", 304))
    BY SMT, <1>2, <2>1
  <2>4. Good(With("negative", 404)) /\ Good(With("status", 403)) /\ Good(With("status", 503))
    BY SMT, <1>2, <2>1
  <2>5. Good(Without("status", 503))
    BY SMT, <1>2, <2>1
  <2> QED BY <2>2, <2>3, <2>4, <2>5
<1>4. \A o \in Ch!HTTPOutcomes(i) : Good(o)
  <2> HIDE DEF With, Without
  <2>1. Ch!HTTPOutcomes(i) = {With("positive", 200), With("positive", 304), With("negative", 404),
                              With("status", 403), With("status", 503), Without("transport", 0)}
    BY DEF With, Without, Ch!HTTPOutcomes
  <2> QED BY SMT, <1>3, <2>1
<1>5. \A o \in Ch!S3Outcomes(i) : Good(o)
  <2> HIDE DEF With, Without
  <2>1. Ch!S3Outcomes(i) \subseteq {With("positive", 206), Without("refused", 0), Without("notfound", 0),
                                    Without("status", 503), Without("transport", 0)}
    BY DEF With, Without, Ch!S3Outcomes
  <2> QED BY SMT, <1>3, <2>1
<1>6. \A o \in Ch!PeerOutcomes(i) : Good(o)
  <2> HIDE DEF With, Without
  <2>1. Ch!PeerOutcomes(i) \subseteq {With("positive", 200), With("status", 503), Without("skip", 0),
                                      Without("notfound", 0), Without("transport", 0)}
    <3>1. CASE hasBody
      <4>1. Ch!PeerOutcomes(i) = {Without("skip", 0)}
        BY <3>1 DEF Without, Ch!PeerOutcomes
      <4> QED BY <4>1
    <3>2. CASE ~hasBody
      <4>1. Ch!PeerOutcomes(i) = {Without("skip", 0)} \cup {With("positive", 200), Without("notfound", 0),
                                                             With("status", 503), Without("transport", 0)}
        BY <3>2 DEF With, Without, Ch!PeerOutcomes
      <4> QED BY <4>1
    <3> QED BY <3>1, <3>2
  <2> QED BY SMT, <1>3, <2>1
<1> QED BY <1>4, <1>5, <1>6 DEF Good

\* No answer at all.
LEMMA Nothing ==
  /\ Ch!NoOutcome \in Outcomes /\ Ch!NoOutcome.from = 0 /\ ~Ch!NoOutcome.body /\ Ch!NoOutcome.kind = "none"
  /\ Ch!ErrBody(Ch!NoOutcome) = {}
BY SMT DEF Ch!NoOutcome, Ch!Outcome, Outcomes, AnswerKinds, Ch!ErrBody

\* The context ends: nothing stays open.
LEMMA ContextStep ==
  ASSUME ChainInv, Ch!ContextDone
  PROVE  ChainInv'
<1> DEFINE r == [kind |-> "context", status |-> 0, from |-> 0, body |-> FALSE]
<1>1. /\ result = Ch!NoOutcome /\ result' = r /\ bodies' = bodies \ (Ch!NegBody \cup Ch!ErrBody(lastErr))
      /\ UNCHANGED <<i, hasBody, consumed, lastErr, lastNeg>>
  BY DEF Ch!ContextDone, Ch!Outcome
<1>2. r \in Outcomes /\ r.kind = "context" /\ r.from = 0 /\ ~r.body
  BY SMT DEF Outcomes, AnswerKinds
<1>3. r # Ch!NoOutcome /\ Ch!ErrBody(r) = {}
  BY <1>2, Nothing DEF Ch!ErrBody
<1> HIDE DEF r
<1>4. Ch!BodiesOwned'
  BY <1>1, <1>3 DEF ChainInv, Ch!BodiesOwned, Ch!ErrBody
<1>5. Ch!NegativeSurvives'
  BY <1>1, <1>2 DEF Ch!NegativeSurvives
<1> QED BY <1>1, <1>2, <1>3, <1>4, <1>5 DEF ChainInv, GoingOn, Returned

\* Every origin fell through.
LEMMA ExhaustedStep ==
  ASSUME ChainInv, Ch!Exhausted
  PROVE  ChainInv'
<1> DEFINE neg == [kind |-> "negative", status |-> 404, from |-> lastNeg, body |-> TRUE]
           none == [kind |-> "notfound", status |-> 0, from |-> 0, body |-> FALSE]
<1>1. /\ result = Ch!NoOutcome
      /\ UNCHANGED <<i, hasBody, consumed, lastErr, lastNeg>>
      /\ \/ lastNeg # 0 /\ result' = neg /\ bodies' = bodies \ Ch!ErrBody(lastErr)
         \/ lastNeg = 0 /\ lastErr # Ch!NoOutcome /\ result' = lastErr /\ bodies' = bodies
         \/ lastNeg = 0 /\ lastErr = Ch!NoOutcome /\ result' = none /\ bodies' = bodies
  BY DEF Ch!Exhausted, Ch!Outcome
<1>2. /\ neg \in Outcomes /\ neg.kind = "negative" /\ neg.from = lastNeg /\ neg.body
      /\ none \in Outcomes /\ none.kind = "notfound" /\ none.from = 0 /\ ~none.body
  BY SMT DEF Outcomes, AnswerKinds, ChainInv
<1> HIDE DEF neg, none
<1>3. /\ neg # Ch!NoOutcome /\ none # Ch!NoOutcome
      /\ Ch!ErrBody(neg) = {lastNeg} /\ Ch!ErrBody(none) = {}
  BY <1>2, Nothing DEF Ch!ErrBody
<1>4. bodies = Ch!NegBody \cup Ch!ErrBody(lastErr) /\ GoingOn
  BY <1>1 DEF ChainInv, Ch!BodiesOwned
<1>5. lastNeg # 0 => lastNeg \notin Ch!ErrBody(lastErr)
  BY <1>4 DEF GoingOn, Ch!ErrBody
<1>6. Ch!BodiesOwned'
  <2>1. result' # Ch!NoOutcome /\ bodies' = Ch!ErrBody(result')
    BY <1>1, <1>3, <1>4, <1>5, Nothing DEF Ch!NegBody
  <2> QED BY <2>1 DEF Ch!BodiesOwned, Ch!ErrBody
<1>7. Ch!NegativeSurvives'
  BY <1>1, <1>2 DEF Ch!NegativeSurvives
<1> QED BY <1>1, <1>2, <1>3, <1>4, <1>6, <1>7 DEF ChainInv, GoingOn, Returned

\* An origin answers: its answer is returned or held, and what it supersedes closed.
LEMMA TryStep ==
  ASSUME ChainInv, NEW out \in Ch!HTTPOutcomes(i) \cup Ch!S3Outcomes(i) \cup Ch!PeerOutcomes(i), Ch!Try(out)
  PROVE  ChainInv'
<1>1. /\ i \in Nat /\ out \in Outcomes /\ out.from = i /\ out.kind # "none" /\ out # Ch!NoOutcome
      /\ out.kind \in {"positive", "negative"} => out.body
  BY Answers, Nothing DEF ChainInv
<1>2. /\ result = Ch!NoOutcome /\ hasBody' = hasBody
      /\ bodies = Ch!NegBody \cup Ch!ErrBody(lastErr) /\ GoingOn
      /\ consumed' = IF hasBody /\ out.kind \notin {"skip", "refused"} THEN {i} ELSE {}
  BY DEF Ch!Try, ChainInv, Ch!BodiesOwned, GoingOn
<1>3. /\ i \notin Ch!NegBody /\ i \notin Ch!ErrBody(lastErr) /\ lastNeg \in Nat
      /\ lastNeg # i /\ lastErr.from # i /\ i + 1 \in Nat
      /\ lastNeg < i + 1 /\ i < i + 1 /\ 0 < i + 1 /\ lastErr.from < i + 1
  <2>1. lastNeg \in Nat /\ lastErr.from \in Nat /\ lastNeg < i /\ lastErr.from < i
    BY <1>2, SMT DEF ChainInv, GoingOn, Outcomes
  <2>2. lastNeg # i /\ lastErr.from # i /\ i + 1 \in Nat /\ lastNeg < i + 1 /\ i < i + 1 /\ 0 < i + 1
        /\ lastErr.from < i + 1
    BY <1>1, <2>1, SMT
  <2> QED BY <2>1, <2>2 DEF Ch!NegBody, Ch!ErrBody
<1>4. /\ lastNeg # 0 => lastNeg \notin Ch!ErrBody(lastErr)
      /\ hasBody => Ch!NegBody = {} /\ Ch!ErrBody(lastErr) = {}
  BY <1>2, Nothing DEF GoingOn, Ch!ErrBody, Ch!NegBody
<1>5. Ch!ErrBody(out) = IF out.body THEN {i} ELSE {}
  BY <1>1 DEF Ch!ErrBody
\* The chain returns this answer, with its body alone open.
<1>6. ASSUME result' = out, bodies' = Ch!ErrBody(out), UNCHANGED <<i, lastNeg>>, lastErr' \in Outcomes,
             out.kind # "skip",
             lastNeg # 0 => out.kind \in {"positive", "negative"} \/ ~Ch!FallThrough(out)
      PROVE  ChainInv'
  <2>1. Ch!BodiesOwned'
    BY <1>1, <1>6 DEF Ch!BodiesOwned, Ch!ErrBody
  <2>2. Ch!NegativeSurvives'
    BY <1>1, <1>6 DEF Ch!NegativeSurvives, Ch!FallThrough, Ch!StatusOf
  <2>3. Returned'
    BY <1>1, <1>2, <1>6 DEF Returned
  <2> QED BY <1>1, <1>2, <1>3, <1>6, <2>1, <2>2, <2>3 DEF ChainInv
\* The chain goes on, with what it holds open.
<1>7. ASSUME result' = result, i' = i + 1, lastErr' \in Outcomes, lastNeg' \in {lastNeg, i},
             lastErr' \in {Ch!NoOutcome, out}, lastErr' = out => lastNeg' = lastNeg,
             bodies' = (IF lastNeg' # 0 THEN {lastNeg'} ELSE {}) \cup Ch!ErrBody(lastErr'),
             hasBody => lastErr' = Ch!NoOutcome /\ lastNeg' = 0 /\ out.kind = "skip"
      PROVE  ChainInv'
  <2>1. Ch!BodiesOwned'
    BY <1>2, <1>7 DEF Ch!BodiesOwned, Ch!ErrBody, Ch!NegBody
  <2>2. Ch!NegativeSurvives'
    BY <1>2, <1>7 DEF Ch!NegativeSurvives
  <2>3. lastNeg' < i' /\ lastErr'.from < i' /\ (lastErr'.body => lastErr'.from # lastNeg') /\ consumed' = {}
    BY <1>1, <1>2, <1>3, <1>7, Nothing
  <2>4. GoingOn'
    BY <1>2, <1>7, <2>3 DEF GoingOn
  <2> QED BY <1>1, <1>2, <1>3, <1>7, <2>1, <2>2, <2>4 DEF ChainInv
<1>8. CASE Ch!Positive(out)
  <2>1. /\ out.kind = "positive" /\ result' = out /\ UNCHANGED <<i, lastErr, lastNeg>>
        /\ bodies' = (bodies \cup {i}) \ (Ch!NegBody \cup Ch!ErrBody(lastErr))
    BY <1>1, <1>8 DEF Ch!Positive, Ch!Returned
  <2>2. bodies' = Ch!ErrBody(out)
    BY <1>1, <1>2, <1>3, <1>5, <2>1
  <2> QED BY <1>6, <2>1, <2>2 DEF ChainInv
<1>9. CASE Ch!Negative(out)
  <2>1. CASE hasBody
    <3>1. /\ out.kind = "negative" /\ result' = out /\ UNCHANGED <<i, lastErr, lastNeg>>
          /\ bodies' = (bodies \cup {i}) \ Ch!NegBody
      BY <1>1, <1>9, <2>1 DEF Ch!Negative, Ch!Returned
    <3>2. bodies' = Ch!ErrBody(out)
      BY <1>1, <1>2, <1>4, <1>5, <2>1, <3>1
    <3> QED BY <1>6, <3>1, <3>2 DEF ChainInv
  <2>2. CASE ~hasBody
    <3>1. /\ lastNeg' = i /\ lastErr' = Ch!NoOutcome /\ i' = i + 1 /\ result' = result
          /\ bodies' = (bodies \cup {i}) \ (Ch!NegBody \cup Ch!ErrBody(lastErr))
      BY <1>1, <1>9, <2>2 DEF Ch!Negative, Ch!Returned
    <3>2. i # 0
      BY <1>2, <1>3, SMT DEF GoingOn
    <3>3. bodies' = (IF lastNeg' # 0 THEN {lastNeg'} ELSE {}) \cup Ch!ErrBody(lastErr')
      BY <1>2, <1>3, <3>1, <3>2, Nothing
    <3> QED BY <1>1, <1>7, <2>2, <3>1, <3>3, Nothing
  <2> QED BY <2>1, <2>2
<1>10. CASE Ch!Skipped(out)
  <2>1. /\ out.kind = "skip" /\ lastErr' = Ch!NoOutcome /\ i' = i + 1 /\ bodies' = bodies \ Ch!ErrBody(lastErr)
        /\ lastNeg' = lastNeg /\ result' = result
    BY <1>10 DEF Ch!Skipped
  <2>2. bodies' = (IF lastNeg' # 0 THEN {lastNeg'} ELSE {}) \cup Ch!ErrBody(lastErr')
    BY <1>2, <1>4, <2>1, Nothing DEF Ch!NegBody
  <2> QED BY <1>1, <1>2, <1>7, <2>1, <2>2, Nothing DEF GoingOn
<1>11. CASE Ch!Failed(out)
  <2>1. /\ out.kind \in {"status", "notfound", "transport", "refused"} /\ lastErr' = out /\ lastNeg' = lastNeg
    BY <1>11 DEF Ch!Failed
  <2>2. CASE Ch!Stops(out)
    <3>1. /\ result' = out /\ i' = i
          /\ bodies' = ((bodies \cup Ch!ErrBody(out)) \ Ch!ErrBody(lastErr)) \ Ch!NegBody
      BY <1>11, <2>2 DEF Ch!Failed, Ch!Superseded
    <3>2. bodies' = Ch!ErrBody(out)
      BY <1>2, <1>3, <1>5, <3>1
    <3>3. lastNeg # 0 => ~Ch!FallThrough(out)
      BY <1>2, <2>2 DEF GoingOn, Ch!Stops
    <3> QED BY <1>1, <1>6, <2>1, <3>1, <3>2, <3>3
  <2>3. CASE ~Ch!Stops(out)
    <3>1. /\ result' = result /\ i' = i + 1 /\ ~hasBody
          /\ bodies' = (bodies \cup Ch!ErrBody(out)) \ Ch!ErrBody(lastErr)
      BY <1>11, <2>3 DEF Ch!Failed, Ch!Superseded, Ch!Stops
    <3>2. bodies' = (IF lastNeg' # 0 THEN {lastNeg'} ELSE {}) \cup Ch!ErrBody(lastErr')
      BY <1>2, <1>3, <1>4, <1>5, <2>1, <3>1 DEF Ch!NegBody
    <3> QED BY <1>1, <1>7, <2>1, <3>1, <3>2
  <2> QED BY <2>2, <2>3
<1> QED BY <1>8, <1>9, <1>10, <1>11 DEF Ch!Try

\* The invariant of the chain.
LEMMA ChainInvariance == Ch!Spec => []ChainInv
<1>1. Ch!Init => ChainInv
  <2> SUFFICES ASSUME Ch!Init  PROVE ChainInv
    OBVIOUS
  <2>1. 1 \in Nat /\ 0 \in Nat /\ 0 < 1
    BY SMT
  <2> QED BY <2>1, Nothing DEF Ch!Init, ChainInv, GoingOn, Ch!BodiesOwned, Ch!NegativeSurvives, Ch!NegBody
<1>2. ChainInv /\ [Ch!Next]_Ch!vars => ChainInv'
  <2>1. ASSUME ChainInv, UNCHANGED Ch!vars  PROVE ChainInv'
    BY <2>1 DEF Ch!vars, ChainInv, GoingOn, Returned, Ch!BodiesOwned, Ch!NegativeSurvives, Ch!NegBody,
                Ch!ErrBody, Ch!FallThrough, Ch!StatusOf
  <2> QED BY <2>1, ContextStep, ExhaustedStep, TryStep DEF Ch!Next
<1> QED BY <1>1, <1>2, PTL DEF Ch!Spec

\* Chain.Fetch leaks no body and closes none under its holder: of the bodies the
\* origins opened, those open are the ones held, and in the end the one returned.
THEOREM ChainBodies == Ch!Spec => []Ch!BodiesOwned
<1>1. ChainInv => Ch!BodiesOwned
  BY DEF ChainInv
<1> QED BY <1>1, ChainInvariance, PTL

\* A negative response held as the fallback answer is never lost to a later failure.
THEOREM ChainNegative == Ch!Spec => []Ch!NegativeSurvives
<1>1. ChainInv => Ch!NegativeSurvives
  BY DEF ChainInv
<1> QED BY <1>1, ChainInvariance, PTL

\* A request's body is read by one origin at most, and the client gets that
\* origin's answer (Chain.Fetch stops at the first origin that read the body).
THEOREM ChainBodyOnce == Ch!Spec => []Ch!BodyReadOnce
<1>1. ChainInv => Ch!BodyReadOnce
  <2> SUFFICES ASSUME ChainInv  PROVE Ch!BodyReadOnce
    OBVIOUS
  <2>1. consumed = {} \/ consumed = {result.from}
    BY DEF ChainInv, GoingOn, Returned
  <2>2. Cardinality({}) = 0 /\ Cardinality({result.from}) = 1
    BY FS_EmptySet, FS_Singleton
  <2>3. Ch!Cardinality(consumed) <= 1
    <3>1. Ch!Cardinality(consumed) = Cardinality(consumed)
      BY DEF Cardinality, Ch!Cardinality
    <3> QED BY <2>1, <2>2, <3>1, SMT
  <2>4. result.kind # "none" => result # Ch!NoOutcome
    BY Nothing
  <2>5. ASSUME hasBody, result # Ch!NoOutcome, result.kind \notin {"context", "refused"}, result.from # 0
        PROVE  consumed = {result.from}
    BY <2>5 DEF ChainInv, Returned
  <2>6. hasBody /\ result.kind \notin {"none", "context", "refused"} /\ result.from # 0
          => consumed = {result.from}
    BY <2>4, <2>5
  <2> QED BY <2>3, <2>6 DEF Ch!BodyReadOnce
<1> QED BY <1>1, ChainInvariance, PTL

-----------------------------------------------------------------------------
(* The nodes of a cluster, for any nodes and ring and any number of requests  *)
(* and of changes of the nodes' views.                                        *)

CONSTANTS Nodes, RingOrder, MaxClients, MaxTasks, MaxFlaps
VARIABLES mode, fallback, view, flaps, task, flight, cached, calm
Cl == INSTANCE Cluster

\* The ring holds every node.
RingAssumption ==
    /\ MaxTasks \in Nat /\ "none" \notin Nodes
    /\ DOMAIN RingOrder \subseteq Nat
    /\ \A n \in Nodes : \E j \in DOMAIN RingOrder : RingOrder[j] = n

\* A set of numbers that is not empty has a least one.
LEMMA LeastOf ==
  ASSUME NEW S \in SUBSET Nat, S # {}
  PROVE  \E m \in S : \A k \in S : m <= k
<1>1. \E m \in S : \A k \in S : ~(<<k, m>> \in OpToRel(<, Nat))
  BY NatLessThanWellFounded, WFMin
<1>2. PICK m \in S : \A k \in S : ~(<<k, m>> \in OpToRel(<, Nat))
  BY <1>1
<1>3. \A k \in S : ~(k < m)
  BY <1>2 DEF OpToRel
<1>4. \A k \in S : m <= k
  BY <1>3, SMT
<1> QED BY <1>4

\* The ring walk answers an eligible node, if one is on the ring.
LEMMA WalkFacts ==
  ASSUME RingAssumption, NEW E
  PROVE  /\ Cl!Walk(E) # "none" => Cl!Walk(E) \in E
         /\ E \cap Nodes # {} => Cl!Walk(E) \in E
<1> DEFINE at == {j \in DOMAIN RingOrder : RingOrder[j] \in E}
<1>1. Cl!Walk(E) = IF at = {} THEN "none" ELSE RingOrder[CHOOSE j \in at : \A k \in at : j <= k]
  BY DEF Cl!Walk
<1>2. at \in SUBSET Nat /\ (E \cap Nodes # {} => at # {})
  BY DEF RingAssumption
<1>3. ASSUME at # {}  PROVE (CHOOSE j \in at : \A k \in at : j <= k) \in at
  <2> HIDE DEF at
  <2>1. \E j \in at : \A k \in at : j <= k
    BY <1>2, <1>3, LeastOf
  <2> QED BY <2>1
<1> QED BY <1>1, <1>2, <1>3

\* A new request takes a slot that is unused.
LEMMA NextTaskFree ==
  ASSUME RingAssumption, Cl!Fresh # {}
  PROVE  Cl!NextTask \in Cl!Tasks /\ task[Cl!NextTask].pc = "unused"
<1>1. Cl!Fresh \in SUBSET Nat
  BY SMT DEF Cl!Fresh, Cl!Tasks, RingAssumption
<1>2. \E t \in Cl!Fresh : \A s \in Cl!Fresh : t <= s
  BY <1>1, LeastOf
<1>3. Cl!NextTask \in Cl!Fresh
  BY <1>2 DEF Cl!NextTask
<1> QED BY <1>3 DEF Cl!Fresh

Record(r) == r = [at |-> r.at, parent |-> r.parent, hop |-> r.hop, pc |-> r.pc, lead |-> r.lead, tried |-> r.tried]

\* A forwarded request is known as one, was sent by a client's request at another
\* node, and is not forwarded again.
TaskOK(t) ==
    /\ task[t].hop = (task[t].parent # 0)
    /\ task[t].pc = "unused" => task[t].parent = 0
    /\ task[t].pc # "unused" => task[t].at \in Nodes
    /\ task[t].parent # 0 =>
         /\ task[t].parent \in Cl!Tasks /\ task[task[t].parent].pc # "unused"
         /\ task[task[t].parent].parent = 0 /\ task[task[t].parent].at # task[t].at
    /\ task[t].pc \in {"pick", "peer", "proxy"} => ~task[t].hop

HopInv ==
    /\ DOMAIN task = Cl!Tasks /\ \A t \in Cl!Tasks : Record(task[t])
    /\ view \in [Nodes -> SUBSET Nodes]
    /\ \A t \in Cl!Tasks : TaskOK(t)

\* In owner mode, without faults, a request is looked up and fetched at the owner.
AtOwner(t) ==
    /\ task[t].pc \in {"lookup", "wait", "fetch", "origin"} => task[t].at = Cl!IntendedOwner
    /\ task[t].pc = "route" /\ task[t].hop => task[t].at = Cl!IntendedOwner
    /\ task[t].pc \notin {"pick", "peer"}

OwnerInv ==
    (mode = "owner" /\ calm) =>
        /\ \A n \in Nodes : view[n] = Nodes
        /\ \A t \in Cl!Tasks : AtOwner(t)
        /\ cached \subseteq {Cl!IntendedOwner}

\* One request moves on.
Moves(t, pcs) ==
    /\ DOMAIN task' = Cl!Tasks /\ \A s \in Cl!Tasks : s # t => task'[s] = task[s]
    /\ Record(task'[t]) /\ task'[t].pc \in pcs
    /\ task'[t].at = task[t].at /\ task'[t].parent = task[t].parent /\ task'[t].hop = task[t].hop

\* One request moves on and forwards itself to node n.
Forwards(t, pc, n) ==
    LET c == Cl!NextTask
    IN  /\ c \in Cl!Tasks /\ c # t /\ task[c].pc = "unused"
        /\ DOMAIN task' = Cl!Tasks /\ \A s \in Cl!Tasks \ {t, c} : task'[s] = task[s]
        /\ Record(task'[t]) /\ task'[t].pc = pc
        /\ task'[t].at = task[t].at /\ task'[t].parent = task[t].parent /\ task'[t].hop = task[t].hop
        /\ Record(task'[c]) /\ task'[c].pc = "route" /\ task'[c].at = n /\ task'[c].parent = t /\ task'[c].hop = TRUE

\* A request that moves on stays one that may be where it is.
LEMMA MovesHop ==
  ASSUME HopInv, NEW t \in Cl!Tasks, task[t].pc # "unused", NEW pcs, Moves(t, pcs), "unused" \notin pcs,
         task[t].hop => "pick" \notin pcs /\ "peer" \notin pcs /\ "proxy" \notin pcs,
         view' = view
  PROVE  HopInv'
<1>1. \A s \in Cl!Tasks : task'[s].at = task[s].at /\ task'[s].parent = task[s].parent /\ task'[s].hop = task[s].hop
  BY DEF Moves
<1>2. \A s \in Cl!Tasks : (task'[s].pc = "unused") <=> (task[s].pc = "unused")
  BY DEF Moves
<1>3. \A s \in Cl!Tasks : TaskOK(s)'
  <2> SUFFICES ASSUME NEW s \in Cl!Tasks  PROVE TaskOK(s)'
    OBVIOUS
  <2>1. task'[s].pc \in {"pick", "peer", "proxy"} => ~task'[s].hop
    BY SMT DEF HopInv, TaskOK, Moves
  <2>2. task'[s].parent # 0 =>
         /\ task'[s].parent \in Cl!Tasks /\ task'[task'[s].parent].pc # "unused"
         /\ task'[task'[s].parent].parent = 0 /\ task'[task'[s].parent].at # task'[s].at
    BY SMT, <1>1, <1>2 DEF HopInv, TaskOK
  <2>3. /\ task'[s].hop = (task'[s].parent # 0)
        /\ task'[s].pc = "unused" => task'[s].parent = 0
        /\ task'[s].pc # "unused" => task'[s].at \in Nodes
    BY SMT, <1>1, <1>2 DEF HopInv, TaskOK
  <2> QED BY <2>1, <2>2, <2>3 DEF TaskOK, Cl!Tasks
<1>4. DOMAIN task' = Cl!Tasks /\ \A s \in Cl!Tasks : Record(task'[s])
  BY DEF Moves, HopInv
<1> QED BY <1>3, <1>4 DEF HopInv, Record, Cl!Tasks

\* A client's request that forwards itself to another node.
LEMMA ForwardsHop ==
  ASSUME HopInv, NEW t \in Cl!Tasks, task[t].pc # "unused", NEW pc, pc \in {"peer", "proxy"},
         NEW n \in Nodes, n # task[t].at, Forwards(t, pc, n), ~task[t].hop, view' = view
  PROVE  HopInv'
<1> DEFINE c == Cl!NextTask
<1>1. /\ c \in Cl!Tasks /\ c # t /\ task[c].pc = "unused"
      /\ DOMAIN task' = Cl!Tasks /\ \A s \in Cl!Tasks : s # t /\ s # c => task'[s] = task[s]
      /\ Record(task'[t]) /\ task'[t].pc = pc
      /\ task'[t].at = task[t].at /\ task'[t].parent = task[t].parent /\ task'[t].hop = task[t].hop
      /\ Record(task'[c]) /\ task'[c].pc = "route" /\ task'[c].at = n /\ task'[c].parent = t /\ task'[c].hop = TRUE
  BY DEF Forwards
<1> HIDE DEF c
<1>2. \A s \in Cl!Tasks : s # c =>
        /\ task'[s].at = task[s].at /\ task'[s].parent = task[s].parent /\ task'[s].hop = task[s].hop
        /\ (task'[s].pc = "unused") <=> (task[s].pc = "unused")
  BY <1>1
<1>3. t # 0 /\ task[t].parent = 0
  <2>1. t # 0
    BY SMT DEF Cl!Tasks
  <2> QED BY <2>1 DEF HopInv, TaskOK
<1>4. \A s \in Cl!Tasks : TaskOK(s)'
  <2> SUFFICES ASSUME NEW s \in Cl!Tasks  PROVE TaskOK(s)'
    OBVIOUS
  <2>1. CASE s = c
    BY <1>1, <1>2, <1>3, <2>1 DEF TaskOK, Cl!Tasks
  <2>2. CASE s # c
    <3>1. task'[s].pc \in {"pick", "peer", "proxy"} => ~task'[s].hop
      BY <1>1, <2>2 DEF HopInv, TaskOK
    <3>2. task'[s].parent # 0 =>
           /\ task'[s].parent \in Cl!Tasks /\ task'[task'[s].parent].pc # "unused"
           /\ task'[task'[s].parent].parent = 0 /\ task'[task'[s].parent].at # task'[s].at
      <4> HAVE task'[s].parent # 0
      <4> DEFINE p == task[s].parent
      <4>1. p \in Cl!Tasks /\ task[p].pc # "unused" /\ task[p].parent = 0 /\ task[p].at # task[s].at
        BY <1>2, <2>2 DEF HopInv, TaskOK
      <4>2. p # c
        BY <1>1, <4>1
      <4> QED BY <1>2, <2>2, <4>1, <4>2
    <3>3. /\ task'[s].hop = (task'[s].parent # 0)
          /\ task'[s].pc = "unused" => task'[s].parent = 0
          /\ task'[s].pc # "unused" => task'[s].at \in Nodes
      BY SMT, <1>2, <2>2 DEF HopInv, TaskOK
    <3> QED BY <3>1, <3>2, <3>3 DEF TaskOK, Cl!Tasks
  <2> QED BY <2>1, <2>2
<1>5. \A s \in Cl!Tasks : Record(task'[s])
  BY <1>1 DEF HopInv
<1> QED BY <1>1, <1>4, <1>5 DEF HopInv, Record, Cl!Tasks

\* The same of where the owner's requests are.
LEMMA MovesOwner ==
  ASSUME OwnerInv, NEW t \in Cl!Tasks, NEW pcs, Moves(t, pcs), view' = view, mode' = mode, calm' => calm,
         (mode = "owner" /\ calm) =>
             /\ "pick" \notin pcs /\ "peer" \notin pcs /\ "route" \notin pcs
             /\ (\E pc \in pcs : pc \in {"lookup", "wait", "fetch", "origin"}) => task[t].at = Cl!IntendedOwner
             /\ cached' \subseteq {Cl!IntendedOwner}
  PROVE  OwnerInv'
<1> SUFFICES ASSUME mode' = "owner", calm'  PROVE OwnerInv'
  BY DEF OwnerInv
<1>1. mode = "owner" /\ calm
  OBVIOUS
<1>2. \A s \in Cl!Tasks : AtOwner(s)'
  <2> SUFFICES ASSUME NEW s \in Cl!Tasks  PROVE AtOwner(s)'
    OBVIOUS
  <2>1. CASE s # t
    <3>1. task'[s] = task[s] /\ AtOwner(s)
      BY <1>1, <2>1 DEF Moves, OwnerInv
    <3> QED BY <3>1 DEF AtOwner, Cl!IntendedOwner, Cl!Walk
  <2>2. CASE s = t
    <3>1. task'[t].pc \in pcs /\ task'[t].at = task[t].at
      BY DEF Moves
    <3> QED BY <1>1, <2>2, <3>1 DEF AtOwner, Cl!IntendedOwner, Cl!Walk
  <2> QED BY <2>1, <2>2
<1>3. cached' \subseteq {Cl!IntendedOwner}
  BY <1>1
<1> QED BY <1>1, <1>2, <1>3 DEF OwnerInv, Cl!IntendedOwner, Cl!Walk, Cl!Tasks

\* A request proxied in owner mode goes to the owner.
LEMMA ForwardsOwner ==
  ASSUME OwnerInv, NEW t \in Cl!Tasks, NEW n, Forwards(t, "proxy", n), view' = view, mode' = mode,
         calm' = calm, cached' = cached, (mode = "owner" /\ calm) => n = Cl!IntendedOwner
  PROVE  OwnerInv'
<1> DEFINE c == Cl!NextTask
<1>1. /\ \A s \in Cl!Tasks : s # t /\ s # c => task'[s] = task[s]
      /\ task'[t].pc = "proxy" /\ c # t
      /\ task'[c].pc = "route" /\ task'[c].at = n
  BY DEF Forwards
<1> HIDE DEF c
<1> SUFFICES ASSUME mode = "owner", calm  PROVE OwnerInv'
  BY DEF OwnerInv
<1>2. \A s \in Cl!Tasks : AtOwner(s)'
  <2> SUFFICES ASSUME NEW s \in Cl!Tasks  PROVE AtOwner(s)'
    OBVIOUS
  <2>1. CASE s # t /\ s # c
    <3>1. task'[s] = task[s] /\ AtOwner(s)
      BY <1>1, <2>1 DEF OwnerInv
    <3> QED BY <3>1 DEF AtOwner, Cl!IntendedOwner, Cl!Walk
  <2>2. CASE s = t
    BY <1>1, <2>2 DEF AtOwner
  <2>3. CASE s = c
    BY <1>1, <2>3 DEF AtOwner, Cl!IntendedOwner, Cl!Walk
  <2> QED BY <2>1, <2>2, <2>3
<1> QED BY <1>2 DEF OwnerInv, Cl!IntendedOwner, Cl!Walk, Cl!Tasks

\* A record stays one under an update of a field.
LEMMA Records ==
  ASSUME NEW r, Record(r), NEW v
  PROVE  /\ Record([r EXCEPT !.pc = v]) /\ Record([r EXCEPT !.lead = v]) /\ Record([r EXCEPT !.tried = v])
<1>1. Record([r EXCEPT !.pc = v])
  BY SMT DEF Record
<1>2. Record([r EXCEPT !.lead = v])
  BY SMT DEF Record
<1>3. Record([r EXCEPT !.tried = v])
  BY SMT DEF Record
<1> QED BY <1>1, <1>2, <1>3

\* What the updates of a request's record come to.
LEMMA Updates ==
  ASSUME HopInv, NEW t \in Cl!Tasks
  PROVE  /\ \A pc : task' = [task EXCEPT ![t].pc = pc] => Moves(t, {pc})
         /\ \A pc, a : task' = [task EXCEPT ![t].pc = pc, ![t].lead = a] => Moves(t, {pc})
         /\ \A pc, a : task' = [task EXCEPT ![t].lead = a, ![t].pc = pc] => Moves(t, {pc})
         /\ \A pc, a : task' = [[task EXCEPT ![t].pc = pc] EXCEPT ![t].tried = a] => Moves(t, {pc})
         /\ \A pc, a, b : task' = [task EXCEPT ![t].pc = pc, ![t].tried = a, ![t].lead = b] => Moves(t, {pc})
<1>1. DOMAIN task = Cl!Tasks /\ Record(task[t])
  BY DEF HopInv
<1>2. ASSUME NEW b, Record(b), task' = [task EXCEPT ![t] = b], b.at = task[t].at, b.parent = task[t].parent,
             b.hop = task[t].hop
      PROVE  Moves(t, {b.pc})
  BY <1>1, <1>2 DEF Moves
<1>3. ASSUME NEW pc, task' = [task EXCEPT ![t].pc = pc]  PROVE Moves(t, {pc})
  <2> DEFINE b == [task[t] EXCEPT !.pc = pc]
  <2>1. Record(b) /\ task' = [task EXCEPT ![t] = b]
    BY <1>1, <1>3, Records
  <2>2. b.pc = pc /\ b.at = task[t].at /\ b.parent = task[t].parent /\ b.hop = task[t].hop
    BY <1>1 DEF Record
  <2> HIDE DEF b
  <2> QED BY <1>2, <2>1, <2>2
<1>4. ASSUME NEW pc, NEW a, task' = [task EXCEPT ![t].pc = pc, ![t].lead = a]  PROVE Moves(t, {pc})
  <2> DEFINE b == [task[t] EXCEPT !.pc = pc, !.lead = a]
  <2>1. Record(b) /\ task' = [task EXCEPT ![t] = b]
    BY <1>1, <1>4, Records
  <2>2. b.pc = pc /\ b.at = task[t].at /\ b.parent = task[t].parent /\ b.hop = task[t].hop
    BY <1>1 DEF Record
  <2> HIDE DEF b
  <2> QED BY <1>2, <2>1, <2>2
<1>5. ASSUME NEW pc, NEW a, task' = [task EXCEPT ![t].lead = a, ![t].pc = pc]  PROVE Moves(t, {pc})
  <2> DEFINE b == [task[t] EXCEPT !.lead = a, !.pc = pc]
  <2>1. Record(b) /\ task' = [task EXCEPT ![t] = b]
    BY <1>1, <1>5, Records
  <2>2. b.pc = pc /\ b.at = task[t].at /\ b.parent = task[t].parent /\ b.hop = task[t].hop
    BY <1>1 DEF Record
  <2> HIDE DEF b
  <2> QED BY <1>2, <2>1, <2>2
<1>6. ASSUME NEW pc, NEW a, task' = [[task EXCEPT ![t].pc = pc] EXCEPT ![t].tried = a]  PROVE Moves(t, {pc})
  <2> DEFINE b == [task[t] EXCEPT !.pc = pc, !.tried = a]
  <2>1. Record(b) /\ task' = [task EXCEPT ![t] = b]
    BY <1>1, <1>6, Records
  <2>2. b.pc = pc /\ b.at = task[t].at /\ b.parent = task[t].parent /\ b.hop = task[t].hop
    BY <1>1 DEF Record
  <2> HIDE DEF b
  <2> QED BY <1>2, <2>1, <2>2
<1>7. ASSUME NEW pc, NEW a, NEW l, task' = [task EXCEPT ![t].pc = pc, ![t].tried = a, ![t].lead = l]  PROVE Moves(t, {pc})
  <2> DEFINE b == [task[t] EXCEPT !.pc = pc, !.tried = a, !.lead = l]
  <2>1. Record(b) /\ task' = [task EXCEPT ![t] = b]
    BY <1>1, <1>7, Records
  <2>2. b.pc = pc /\ b.at = task[t].at /\ b.parent = task[t].parent /\ b.hop = task[t].hop
    BY <1>1 DEF Record
  <2> HIDE DEF b
  <2> QED BY <1>2, <2>1, <2>2
<1> QED BY <1>3, <1>4, <1>5, <1>6, <1>7

\* A new request.
LEMMA NewRecord ==
  ASSUME NEW n, NEW parent
  PROVE  LET new == Cl!NewTask(n, parent) IN
           /\ Record(new) /\ new.pc = "route" /\ new.at = n /\ new.parent = parent
           /\ new.hop = (parent # 0)
<1> DEFINE u == Cl!Unused
           new == Cl!NewTask(n, parent)
<1>1. new = [u EXCEPT !.at = n, !.parent = parent, !.hop = (parent # 0), !.pc = "route"]
  BY DEF Cl!NewTask
<1>2. u = [at |-> "none", parent |-> 0, hop |-> FALSE, pc |-> "unused", lead |-> 0, tried |-> {}]
  BY DEF Cl!Unused
<1>3. new.pc = "route" /\ new.at = n /\ new.parent = parent /\ new.hop = (parent # 0)
  <2> HIDE DEF u, new
  <2> QED BY <1>1, <1>2
<1>4. new = [at |-> n, parent |-> parent, hop |-> (parent # 0), pc |-> "route", lead |-> 0, tried |-> {}]
  <2> HIDE DEF u, new
  <2> QED BY <1>1, <1>2
<1>5. Record(new)
  <2> HIDE DEF u, new
  <2> QED BY <1>4 DEF Record
<1> QED BY <1>3, <1>5

\* What the updates that forward a request come to.
LEMMA SpawnUpdates ==
  ASSUME HopInv, NEW t \in Cl!Tasks, task[t].pc # "unused", NEW n,
         Cl!NextTask \in Cl!Tasks, task[Cl!NextTask].pc = "unused"
  PROVE  /\ \A pc : task' = [[task EXCEPT ![t].pc = pc] EXCEPT ![Cl!NextTask] = Cl!NewTask(n, t)]
                      => Forwards(t, pc, n)
         /\ \A pc, a : task' = [task EXCEPT ![t].pc = pc, ![t].tried = a, ![Cl!NextTask] = Cl!NewTask(n, t)]
                      => Forwards(t, pc, n)
<1> DEFINE c == Cl!NextTask
           new == Cl!NewTask(n, t)
<1>1. DOMAIN task = Cl!Tasks /\ Record(task[t]) /\ c \in Cl!Tasks /\ c # t /\ task[c].pc = "unused"
  BY DEF HopInv
<1>2. t # 0
  BY SMT DEF Cl!Tasks
<1>3. Record(new) /\ new.pc = "route" /\ new.at = n /\ new.parent = t /\ new.hop = TRUE
  <2>1. Record(new) /\ new.pc = "route" /\ new.at = n /\ new.parent = t /\ new.hop = (t # 0)
    BY NewRecord
  <2> HIDE DEF new
  <2> QED BY <1>2, <2>1
<1> HIDE DEF c, new
<1>4. ASSUME NEW pc, task' = [[task EXCEPT ![t].pc = pc] EXCEPT ![c] = new]
      PROVE  /\ DOMAIN task' = Cl!Tasks /\ \A s \in Cl!Tasks \ {t, c} : task'[s] = task[s]
             /\ Record(task'[t]) /\ task'[t].pc = pc /\ task'[c] = new
             /\ task'[t].at = task[t].at /\ task'[t].parent = task[t].parent /\ task'[t].hop = task[t].hop
  BY <1>1, <1>4, SMT DEF Record
<1>5. ASSUME NEW pc, NEW a, task' = [task EXCEPT ![t].pc = pc, ![t].tried = a, ![c] = new]
      PROVE  /\ DOMAIN task' = Cl!Tasks /\ \A s \in Cl!Tasks \ {t, c} : task'[s] = task[s]
             /\ Record(task'[t]) /\ task'[t].pc = pc /\ task'[c] = new
             /\ task'[t].at = task[t].at /\ task'[t].parent = task[t].parent /\ task'[t].hop = task[t].hop
  BY <1>1, <1>5, SMT DEF Record
<1> QED BY SMT, <1>1, <1>3, <1>4, <1>5 DEF Forwards, c, new

\* clusterRoute forwards only a client's request, in owner mode to the owner.
LEMMA RouteStep ==
  ASSUME RingAssumption, HopInv, OwnerInv, NEW t \in Cl!Tasks, Cl!Route(t)
  PROVE  HopInv' /\ OwnerInv'
<1> DEFINE n == task[t].at
           to == Cl!RouteTarget(t)
<1>1. /\ task[t].pc = "route" /\ n \in Nodes /\ UNCHANGED <<mode, fallback, view, flaps, flight, cached, calm>>
      /\ view \in [Nodes -> SUBSET Nodes]
  BY DEF Cl!Route, HopInv, TaskOK
<1>2. Cl!IntendedOwner \in Nodes
  <2>1. Nodes \cap Nodes # {}
    BY <1>1
  <2> QED BY <2>1, WalkFacts DEF Cl!IntendedOwner
<1>3. /\ to # n => ~task[t].hop
      /\ to \in Nodes
      /\ (mode = "owner" /\ calm) => to = Cl!IntendedOwner \/ task[t].hop
  <2>1. Cl!Owner(n) # "none" => Cl!Owner(n) \in Nodes
    <3>1. Cl!Owner(n) # "none" => Cl!Owner(n) \in view[n]
      BY WalkFacts DEF Cl!Owner
    <3> QED BY <1>1, <3>1
  <2>2. to = IF task[t].hop \/ mode # "owner" THEN n
             ELSE IF Cl!Owner(n) # "none" THEN Cl!Owner(n)
             ELSE IF fallback = "strict" THEN n ELSE Cl!IntendedOwner
    BY DEF Cl!RouteTarget, Cl!IsForwardedHop
  <2>3. (mode = "owner" /\ calm) => Cl!Owner(n) = Cl!IntendedOwner
    BY <1>1 DEF OwnerInv, Cl!Owner, Cl!IntendedOwner
  <2>4. Cl!IntendedOwner # "none"
    BY <1>2 DEF RingAssumption
  <2> HIDE DEF to, n
  <2> QED BY <1>1, <1>2, <2>1, <2>2, <2>3, <2>4
<1>4. CASE to = n /\ task' = Cl!To(t, "lookup")
  <2>1. Moves(t, {"lookup"})
    BY <1>4, Updates DEF Cl!To
  <2>2. HopInv'
    BY <1>1, <2>1, MovesHop
  <2>3. (mode = "owner" /\ calm) => n = Cl!IntendedOwner
    BY <1>1, <1>3, <1>4 DEF OwnerInv, AtOwner
  <2>4. (mode = "owner" /\ calm) => cached' \subseteq {Cl!IntendedOwner}
    BY <1>1 DEF OwnerInv
  <2>5. OwnerInv'
    BY <1>1, <2>1, <2>3, <2>4, MovesOwner
  <2> QED BY <2>2, <2>5
<1>5. CASE /\ to # n /\ Cl!Fresh # {}
           /\ task' = [Cl!To(t, "proxy") EXCEPT ![Cl!NextTask] = Cl!NewTask(to, t)]
  <2>1. Cl!NextTask \in Cl!Tasks /\ task[Cl!NextTask].pc = "unused"
    BY <1>5, NextTaskFree
  <2>2. Forwards(t, "proxy", to)
    BY <1>1, <1>5, <2>1, SpawnUpdates DEF Cl!To
  <2>3. HopInv'
    BY <1>1, <1>3, <1>5, <2>2, ForwardsHop
  <2>4. OwnerInv'
    BY <1>1, <1>3, <1>5, <2>2, ForwardsOwner
  <2> QED BY <2>3, <2>4
<1> QED BY <1>4, <1>5 DEF Cl!Route

\* The steps of a request at its node, and what they store.
LEMMA LocalStep ==
  ASSUME HopInv, OwnerInv, NEW t \in Cl!Tasks,
         Cl!Lookup(t) \/ Cl!Woken(t) \/ Cl!PeerGuard(t) \/ Cl!Abandoned(t)
            \/ \E ok \in BOOLEAN : Cl!OriginAnswers(t, ok)
  PROVE  HopInv' /\ OwnerInv'
<1>1. UNCHANGED <<mode, view, calm>>
  BY DEF Cl!Lookup, Cl!Woken, Cl!PeerGuard, Cl!Abandoned, Cl!OriginAnswers
<1>2. ASSUME NEW pcs, Moves(t, pcs), task[t].pc # "unused", "unused" \notin pcs, "route" \notin pcs, "peer" \notin pcs,
             "proxy" \notin pcs, task[t].hop \/ mode = "owner" => "pick" \notin pcs,
             (mode = "owner" /\ calm) =>
                 /\ (\E pc \in pcs : pc \in {"lookup", "wait", "fetch", "origin"}) => task[t].at = Cl!IntendedOwner
                 /\ cached' \subseteq {Cl!IntendedOwner}
      PROVE  HopInv' /\ OwnerInv'
  BY <1>1, <1>2, MovesHop, MovesOwner
<1>3. (mode = "owner" /\ calm) => cached \subseteq {Cl!IntendedOwner} /\ AtOwner(t)
  BY DEF OwnerInv
<1>4. CASE Cl!Lookup(t)
  <2>1. task[t].pc = "lookup" /\ cached' = cached
    BY <1>4 DEF Cl!Lookup
  <2>2. Moves(t, {"done"}) \/ Moves(t, {"fetch"}) \/ Moves(t, {"wait"})
    BY <1>4, Updates DEF Cl!Lookup, Cl!To
  <2>3. Moves(t, {"done", "fetch", "wait"})
    BY <2>2 DEF Moves
  <2>4. (mode = "owner" /\ calm) => task[t].at = Cl!IntendedOwner
    BY <1>3, <2>1 DEF AtOwner
  <2> QED BY <1>2, <1>3, <2>1, <2>3, <2>4
<1>5. CASE Cl!Woken(t)
  <2>1. task[t].pc = "wait" /\ cached' = cached
    BY <1>5 DEF Cl!Woken
  <2>2. \E pc \in {"done", "fetch"} : task' = [task EXCEPT ![t].lead = 0, ![t].pc = pc]
    BY <1>5 DEF Cl!Woken
  <2>3. Moves(t, {"done", "fetch"})
    <3>1. Moves(t, {"done"}) \/ Moves(t, {"fetch"})
      BY <2>2, Updates
    <3> QED BY <3>1 DEF Moves
  <2>4. (mode = "owner" /\ calm) => task[t].at = Cl!IntendedOwner
    BY <1>3, <2>1 DEF AtOwner
  <2> QED BY <1>2, <1>3, <2>1, <2>3, <2>4
<1>6. CASE Cl!PeerGuard(t)
  <2> DEFINE direct == mode # "read_through" \/ task[t].hop \/ Cl!Owner(task[t].at) = task[t].at
  <2>1. task[t].pc = "fetch" /\ cached' = cached
    BY <1>6 DEF Cl!PeerGuard
  <2>2. task' = [task EXCEPT ![t].pc = IF direct THEN "origin" ELSE "pick"]
    BY <1>6 DEF Cl!PeerGuard, Cl!To
  <2>3. Moves(t, {IF direct THEN "origin" ELSE "pick"})
    BY <2>2, Updates
  <2>4. (mode = "owner" /\ calm) => task[t].at = Cl!IntendedOwner
    BY <1>3, <2>1 DEF AtOwner
  <2>5. CASE direct
    <3>1. Moves(t, {"origin"})
      BY <2>3, <2>5
    <3> QED BY <1>2, <1>3, <2>1, <2>4, <3>1
  <2>6. CASE ~direct
    <3>1. Moves(t, {"pick"}) /\ mode # "owner" /\ ~task[t].hop
      BY <2>3, <2>6
    <3> QED BY <1>2, <1>3, <2>1, <3>1
  <2> QED BY <2>5, <2>6
<1>7. CASE Cl!Abandoned(t)
  <2>1. task[t].pc # "unused" /\ cached' = cached /\ Moves(t, {"failed"})
    BY <1>7, Updates DEF Cl!Abandoned, Cl!Live, Cl!Ended
  <2> QED BY <1>2, <1>3, <2>1
<1>8. CASE \E ok \in BOOLEAN : Cl!OriginAnswers(t, ok)
  <2>1. PICK ok \in BOOLEAN : Cl!OriginAnswers(t, ok)
    BY <1>8
  <2>2. /\ task[t].pc = "origin" /\ cached' = (IF ok THEN cached \cup {task[t].at} ELSE cached)
        /\ task' = [task EXCEPT ![t].pc = IF ok THEN "done" ELSE "failed", ![t].tried = {}, ![t].lead = 0]
    BY <2>1 DEF Cl!OriginAnswers, Cl!Ended
  <2>3. Moves(t, {IF ok THEN "done" ELSE "failed"})
    BY <2>2, Updates
  <2>4. Moves(t, {"done", "failed"})
    BY <2>3 DEF Moves
  <2>5. (mode = "owner" /\ calm) => cached' \subseteq {Cl!IntendedOwner}
    BY <1>3, <2>2 DEF AtOwner
  <2> QED BY <1>2, <2>2, <2>4, <2>5
<1> QED BY <1>4, <1>5, <1>6, <1>7, <1>8

\* The pool forwards a client's request, and not to its own node.
LEMMA PeerStep ==
  ASSUME RingAssumption, HopInv, OwnerInv, NEW t \in Cl!Tasks,
         Cl!PeerPick(t) \/ Cl!PeerAnswered(t) \/ Cl!PeerFailed(t)
  PROVE  HopInv' /\ OwnerInv'
<1>1. /\ UNCHANGED <<mode, view>> /\ (calm' => calm) /\ view \in [Nodes -> SUBSET Nodes]
      /\ task[t].pc \in {"pick", "peer", "proxy"} /\ ~task[t].hop /\ task[t].at \in Nodes /\ task[t].pc # "unused"
      /\ (mode = "owner" /\ calm) => task[t].pc = "proxy" /\ cached \subseteq {Cl!IntendedOwner}
  BY SMT DEF Cl!PeerPick, Cl!PeerAnswered, Cl!PeerFailed, Cl!ExchangeFails, HopInv, TaskOK, OwnerInv, AtOwner
<1>2. ASSUME NEW pcs, Moves(t, pcs), "unused" \notin pcs,
             (mode = "owner" /\ calm /\ calm') =>
                 (\A pc \in pcs : pc \in {"done", "failed"}) /\ cached' \subseteq {Cl!IntendedOwner}
      PROVE  HopInv' /\ OwnerInv'
  <2>1. HopInv'
    BY <1>1, <1>2, MovesHop
  <2>2. calm' => OwnerInv'
    BY <1>1, <1>2, MovesOwner
  <2>3. ~calm' => OwnerInv'
    BY DEF OwnerInv
  <2> QED BY <2>1, <2>2, <2>3
<1>3. CASE Cl!PeerPick(t)
  <2> DEFINE p == Cl!Walk(Cl!Pickable(t))
  <2>1. task[t].pc = "pick" /\ ~(mode = "owner" /\ calm)
    BY <1>1, <1>3 DEF Cl!PeerPick
  <2>2. CASE p = "none" /\ task' = [Cl!To(t, "origin") EXCEPT ![t].tried = {}]
    <3>1. Moves(t, {"origin"})
      BY <2>2, Updates DEF Cl!To
    <3> QED BY <1>2, <2>1, <3>1
  <2>3. CASE /\ p # "none" /\ Cl!Fresh # {}
             /\ task' = [task EXCEPT ![t].pc = "peer", ![t].tried = @ \cup {p}, ![Cl!NextTask] = Cl!NewTask(p, t)]
    <3>1. p \in Nodes /\ p # task[t].at
      <4>1. p \in Cl!Pickable(t)
        BY <2>3, WalkFacts
      <4> HIDE DEF p
      <4> QED BY <1>1, <4>1 DEF Cl!Pickable
    <3>2. Cl!NextTask \in Cl!Tasks /\ task[Cl!NextTask].pc = "unused"
      BY <2>3, NextTaskFree
    <3>3. Forwards(t, "peer", p)
      BY <1>1, <2>3, <3>2, SpawnUpdates
    <3>4. HopInv'
      BY <1>1, <3>1, <3>3, ForwardsHop
    <3>5. calm' = calm
      BY <1>3 DEF Cl!PeerPick
    <3> QED BY <1>1, <2>1, <3>4, <3>5 DEF OwnerInv
  <2> QED BY <1>3, <2>2, <2>3 DEF Cl!PeerPick
<1>4. CASE Cl!PeerAnswered(t)
  <2> DEFINE s == Cl!Waited(t)
  <2>1. calm' = calm
    BY <1>4 DEF Cl!PeerAnswered
  <2>2. CASE /\ task[s].pc = "done" /\ task[t].pc = "peer" /\ cached' = cached \cup {task[t].at} /\ Cl!Ended(t, "done")
    <3>1. Moves(t, {"done"})
      BY <2>2, Updates DEF Cl!Ended
    <3> QED BY <1>1, <1>2, <2>2, <3>1
  <2>3. CASE \E pc \in {"pick", "origin"} : /\ task[t].pc = "peer"
               /\ task' = [Cl!To(t, pc) EXCEPT ![t].tried = IF pc = "pick" THEN @ ELSE {}]
    <3>1. PICK pc \in {"pick", "origin"} : /\ task[t].pc = "peer"
                /\ task' = [Cl!To(t, pc) EXCEPT ![t].tried = IF pc = "pick" THEN @ ELSE {}]
      BY <2>3
    <3>2. Moves(t, {pc})
      BY <3>1, Updates DEF Cl!To
    <3> QED BY <1>1, <1>2, <3>1, <3>2
  <2>4. CASE Cl!Ended(t, "failed") /\ cached' = cached
    <3>1. Moves(t, {"failed"})
      BY <2>4, Updates DEF Cl!Ended
    <3> QED BY <1>1, <1>2, <2>4, <3>1
  <2>5. CASE task[s].pc \in {"done", "failed"} /\ Cl!Ended(t, task[s].pc) /\ cached' = cached
    <3>1. Moves(t, {task[s].pc})
      BY <2>5, Updates DEF Cl!Ended
    <3> QED BY <1>1, <1>2, <2>5, <3>1
  <2> QED BY <1>4, <2>2, <2>3, <2>4, <2>5 DEF Cl!PeerAnswered
<1>5. CASE Cl!PeerFailed(t)
  <2>1. calm' = FALSE /\ task' = [task EXCEPT ![t].pc = IF task[t].pc = "peer" THEN "pick" ELSE "lookup"]
    BY <1>5 DEF Cl!PeerFailed, Cl!To
  <2>2. Moves(t, {IF task[t].pc = "peer" THEN "pick" ELSE "lookup"})
    BY <2>1, Updates
  <2>3. Moves(t, {"pick", "lookup"})
    BY <2>2 DEF Moves
  <2> QED BY <1>2, <2>1, <2>3
<1> QED BY <1>3, <1>4, <1>5

\* A client's request arrives at an unused slot.
LEMMA ArriveStep ==
  ASSUME RingAssumption, HopInv, OwnerInv, NEW n \in Nodes, Cl!Arrive(n)
  PROVE  HopInv' /\ OwnerInv'
<1> DEFINE c == Cl!NextTask
           new == Cl!NewTask(n, 0)
<1>1. /\ c \in Cl!Tasks /\ task[c].pc = "unused" /\ task' = [task EXCEPT ![c] = new]
      /\ UNCHANGED <<mode, view, cached, calm>>
  BY NextTaskFree DEF Cl!Arrive
<1>2. Record(new) /\ new.pc = "route" /\ new.at = n /\ new.parent = 0 /\ new.hop = FALSE
  BY NewRecord
<1> HIDE DEF c, new
<1>3. DOMAIN task' = Cl!Tasks /\ task'[c] = new /\ \A s \in Cl!Tasks : s # c => task'[s] = task[s]
  BY <1>1 DEF HopInv
<1>4. \A s \in Cl!Tasks : TaskOK(s)'
  <2> SUFFICES ASSUME NEW s \in Cl!Tasks  PROVE TaskOK(s)'
    OBVIOUS
  <2>1. CASE s = c
    BY <1>2, <1>3, <2>1 DEF TaskOK
  <2>2. CASE s # c
    <3>1. task'[s] = task[s] /\ TaskOK(s)
      BY <1>3, <2>2 DEF HopInv
    <3>2. task[s].parent # 0 => task'[task[s].parent] = task[task[s].parent]
      BY <1>1, <1>3, <3>1 DEF TaskOK
    <3> QED BY <3>1, <3>2 DEF TaskOK, Cl!Tasks
  <2> QED BY <2>1, <2>2
<1>5. HopInv'
  BY <1>1, <1>2, <1>3, <1>4 DEF HopInv, Record, Cl!Tasks
<1>6. OwnerInv'
  <2> SUFFICES ASSUME mode = "owner", calm  PROVE OwnerInv'
    BY <1>1 DEF OwnerInv
  <2>1. \A s \in Cl!Tasks : AtOwner(s)'
    BY <1>2, <1>3 DEF OwnerInv, AtOwner, Cl!IntendedOwner, Cl!Walk
  <2> QED BY <1>1, <2>1 DEF OwnerInv, Cl!IntendedOwner, Cl!Walk, Cl!Tasks
<1> QED BY <1>5, <1>6

\* The invariant of the cluster.
LEMMA ClusterInvariance ==
  ASSUME RingAssumption
  PROVE  Cl!Spec => [](HopInv /\ OwnerInv)
<1>1. Cl!Init => HopInv /\ OwnerInv
  <2> SUFFICES ASSUME Cl!Init  PROVE HopInv /\ OwnerInv
    OBVIOUS
  <2>1. /\ task = [t \in Cl!Tasks |-> Cl!Unused] /\ view = [n \in Nodes |-> Nodes] /\ cached = {}
    BY DEF Cl!Init
  <2>2. Record(Cl!Unused) /\ Cl!Unused.pc = "unused" /\ Cl!Unused.parent = 0 /\ Cl!Unused.hop = FALSE
    BY SMT DEF Cl!Unused, Record
  <2>3. DOMAIN task = Cl!Tasks /\ \A t \in Cl!Tasks : task[t] = Cl!Unused
    BY <2>1
  <2>4. \A t \in Cl!Tasks : TaskOK(t) /\ AtOwner(t)
    BY <2>2, <2>3 DEF TaskOK, AtOwner
  <2> QED BY <2>1, <2>2, <2>3, <2>4 DEF HopInv, OwnerInv
<1>2. HopInv /\ OwnerInv /\ [Cl!Next]_Cl!vars => HopInv' /\ OwnerInv'
  <2> SUFFICES ASSUME HopInv, OwnerInv, [Cl!Next]_Cl!vars  PROVE HopInv' /\ OwnerInv'
    OBVIOUS
  <2>1. CASE UNCHANGED Cl!vars
    <3>1. UNCHANGED <<mode, view, task, cached, calm>>
      BY <2>1 DEF Cl!vars
    <3>2. HopInv'
      BY <3>1 DEF HopInv, TaskOK, Record, Cl!Tasks
    <3>3. OwnerInv'
      BY <3>1 DEF OwnerInv, AtOwner, Cl!Tasks, Cl!IntendedOwner, Cl!Walk
    <3> QED BY <3>2, <3>3
  <2>2. CASE \E n, p \in Nodes : Cl!Flap(n, p)
    <3>1. PICK n \in Nodes, p \in Nodes : Cl!Flap(n, p)
      BY <2>2
    <3>2. task' = task /\ calm' = FALSE /\ view' = [view EXCEPT ![n] = IF p \in @ THEN @ \ {p} ELSE @ \cup {p}]
      BY <3>1 DEF Cl!Flap
    <3>3. view' \in [Nodes -> SUBSET Nodes]
      BY <3>2 DEF HopInv
    <3>4. HopInv'
      BY <3>2, <3>3 DEF HopInv, TaskOK, Record, Cl!Tasks
    <3> QED BY <3>2, <3>4 DEF OwnerInv
  <2>3. CASE \E n \in Nodes : Cl!Arrive(n)
    BY <2>3, ArriveStep
  <2>4. CASE \E t \in Cl!Tasks : Cl!Step(t) \/ Cl!PeerFailed(t)
    BY <2>4, RouteStep, LocalStep, PeerStep DEF Cl!Step
  <2> QED BY <2>1, <2>2, <2>3, <2>4 DEF Cl!Next
<1> QED BY <1>1, <1>2, PTL DEF Cl!Spec

\* A request hops at most once and never to the node it is at, whatever the nodes
\* think of each other and however that changes (clusterRoute, PeerOrigin.Fetch,
\* WithExcludeBaseURL).
THEOREM ClusterHopsOnce ==
  ASSUME RingAssumption
  PROVE  Cl!Spec => []Cl!ForwardedOnce
<1>1. HopInv => Cl!ForwardedOnce
  BY DEF HopInv, TaskOK, Cl!ForwardedOnce
<1> QED BY <1>1, ClusterInvariance, PTL

\* In owner mode, until a view changes or an exchange between nodes fails, only the
\* key's owner stores the object (clusterRoute).
THEOREM ClusterOwnerStores ==
  ASSUME RingAssumption
  PROVE  Cl!Spec => []Cl!OwnerOnlyStores
<1>1. OwnerInv => Cl!OwnerOnlyStores
  BY DEF OwnerInv, Cl!OwnerOnlyStores
<1> QED BY <1>1, ClusterInvariance, PTL

-----------------------------------------------------------------------------
(* The upgraded tunnels, for any finite set of them and any number of bytes.  *)

CONSTANTS Tunnels, MaxBytes
VARIABLES tunnel, gauge
Tn == INSTANCE Tunnel WITH t <- tunnel

Pcs == {"idle", "resolved", "open", "refused"}
Timers == {"none", "armed", "fired", "stopped"}
Conns == {"none", "open", "closed"}
Onces == {"no", "running", "done"}
Stages == {"no", "calling", "marked", "shut", "returned"}

TunnelRecords ==
    [pc : Pcs, status : Nat, timer : Timers, closed : BOOLEAN, conn : Conns, once : Onces,
     closer : [Tn!Closers -> Stages], bytes : Nat]

\* The values a tunnel's fields are set to.
LEMMA Literals ==
  /\ "resolved" \in Pcs /\ "open" \in Pcs /\ "refused" \in Pcs
  /\ "armed" \in Timers /\ "fired" \in Timers /\ "stopped" \in Timers
  /\ "none" \in Conns /\ "open" \in Conns /\ "closed" \in Conns
  /\ "running" \in Onces /\ "done" \in Onces
  /\ "calling" \in Stages /\ "marked" \in Stages /\ "shut" \in Stages /\ "returned" \in Stages
  /\ TRUE \in BOOLEAN
BY DEF Pcs, Timers, Conns, Onces, Stages

\* closeOnce: while it runs one caller is in it, and from then on the tunnel is
\* marked and its timer stopped; when it is done the connection is closed.
TunnelOK(r) ==
    /\ r.pc # "open" => r.once = "no" /\ r.timer = "none" /\ \A c \in Tn!Closers : r.closer[c] = "no"
    /\ r.once \in {"no", "running", "done"}
    /\ r.once = "no" => \A c \in Tn!Closers : r.closer[c] \in {"no", "calling"}
    /\ r.once = "running" => \A c, d \in Tn!Closers :
            r.closer[c] \in {"marked", "shut"} /\ r.closer[d] \in {"marked", "shut"} => c = d
    /\ r.once = "done" => r.conn = "closed" /\ \A c \in Tn!Closers : r.closer[c] \notin {"marked", "shut"}
    /\ r.once # "no" => r.closed /\ r.timer = "stopped"
    /\ \A c \in Tn!Closers : r.closer[c] = "shut" => r.conn = "closed"

Counted == {x \in Tunnels : tunnel[x].pc = "open" /\ tunnel[x].once # "done"}

TunnelInv ==
    /\ tunnel \in [Tunnels -> TunnelRecords] /\ \A x \in Tunnels : TunnelOK(tunnel[x])
    /\ gauge = Cardinality(Counted)

\* A step of one tunnel that is counted before and after it, or neither.
LEMMA SameCount ==
  ASSUME TunnelInv, NEW x \in Tunnels, NEW r \in TunnelRecords, TunnelOK(r), tunnel' = [tunnel EXCEPT ![x] = r],
         gauge' = gauge, (r.pc = "open" /\ r.once # "done") <=> (tunnel[x].pc = "open" /\ tunnel[x].once # "done")
  PROVE  TunnelInv'
<1>1. tunnel' \in [Tunnels -> TunnelRecords] /\ tunnel'[x] = r /\ \A y \in Tunnels : y # x => tunnel'[y] = tunnel[y]
  BY DEF TunnelInv
<1>2. Counted' = Counted
  BY <1>1 DEF Counted
<1> QED BY <1>1, <1>2 DEF TunnelInv

\* Before the switch: a tunnel is refused or resolved.
LEMMA HandshakeStep ==
  ASSUME TunnelInv, NEW x \in Tunnels, Tn!ResolveUpgrade(x) \/ Tn!HandshakeFails(x) \/ Tn!NotSwitched(x)
  PROVE  TunnelInv'
<1>1. tunnel \in [Tunnels -> TunnelRecords] /\ tunnel[x] \in TunnelRecords /\ TunnelOK(tunnel[x])
  BY DEF TunnelInv
<1>2. gauge' = gauge /\ tunnel[x].pc # "open"
  BY DEF Tn!ResolveUpgrade, Tn!HandshakeFails, Tn!NotSwitched
<1>3. ASSUME NEW r \in TunnelRecords, tunnel' = [tunnel EXCEPT ![x] = r], r.pc # "open", r.once = tunnel[x].once,
             r.timer = tunnel[x].timer, r.closer = tunnel[x].closer, r.closed = tunnel[x].closed
      PROVE  TunnelInv'
  <2>1. TunnelOK(r)
    BY <1>1, <1>2, <1>3 DEF TunnelOK
  <2> QED BY <1>2, <1>3, <2>1, SameCount
<1>4. ASSUME NEW pc \in {"refused", "resolved"}, tunnel' = [tunnel EXCEPT ![x].pc = pc]
      PROVE  TunnelInv'
  <2> DEFINE r == [tunnel[x] EXCEPT !.pc = pc]
  <2>1. /\ r \in TunnelRecords /\ r.pc = pc /\ r.once = tunnel[x].once /\ r.timer = tunnel[x].timer
        /\ r.closer = tunnel[x].closer /\ r.closed = tunnel[x].closed
    BY <1>1, Literals DEF TunnelRecords
  <2>2. tunnel' = [tunnel EXCEPT ![x] = r]
    BY <1>4
  <2> HIDE DEF r
  <2> QED BY <1>3, <2>1, <2>2
<1>5. ASSUME NEW s \in Nat, tunnel' = [tunnel EXCEPT ![x].pc = "refused", ![x].status = s]
      PROVE  TunnelInv'
  <2> DEFINE r == [tunnel[x] EXCEPT !.pc = "refused", !.status = s]
  <2>1. /\ r \in TunnelRecords /\ r.pc = "refused" /\ r.once = tunnel[x].once /\ r.timer = tunnel[x].timer
        /\ r.closer = tunnel[x].closer /\ r.closed = tunnel[x].closed
    BY <1>1, Literals DEF TunnelRecords
  <2>2. tunnel' = [tunnel EXCEPT ![x] = r]
    BY <1>1, <1>5
  <2> HIDE DEF r
  <2> QED BY <1>3, <2>1, <2>2
<1>6. ASSUME NEW s \in Nat, NEW c \in Conns,
             tunnel' = [tunnel EXCEPT ![x].pc = "refused", ![x].status = s, ![x].conn = c]
      PROVE  TunnelInv'
  <2> DEFINE r == [tunnel[x] EXCEPT !.pc = "refused", !.status = s, !.conn = c]
  <2>1. r \in TunnelRecords
    BY <1>1, Literals DEF TunnelRecords
  <2>2. /\ r.pc = "refused" /\ r.once = tunnel[x].once /\ r.timer = tunnel[x].timer
        /\ r.closer = tunnel[x].closer /\ r.closed = tunnel[x].closed
    BY <1>1 DEF TunnelRecords
  <2>3. tunnel' = [tunnel EXCEPT ![x] = r]
    BY <1>1, <1>6
  <2> HIDE DEF r
  <2> QED BY <1>3, <2>1, <2>2, <2>3
<1>7. PICK ok \in Nat, bad \in Nat, none \in Nat : ok = 200 /\ bad = 502 /\ none = 503
  BY SMT
<1>8. \/ tunnel' = [tunnel EXCEPT ![x].pc = "resolved"]
      \/ \E s \in {ok, bad, none} : tunnel' = [tunnel EXCEPT ![x].pc = "refused", ![x].status = s]
      \/ \E c \in Conns : tunnel' = [tunnel EXCEPT ![x].pc = "refused", ![x].status = bad, ![x].conn = c]
  <2>1. CASE Tn!ResolveUpgrade(x)
    BY <1>7, <2>1 DEF Tn!ResolveUpgrade, Tn!Refuse
  <2>2. CASE Tn!HandshakeFails(x)
    BY <1>7, <2>2 DEF Tn!HandshakeFails, Conns
  <2>3. CASE Tn!NotSwitched(x)
    BY <1>7, <2>3 DEF Tn!NotSwitched
  <2> QED BY <2>1, <2>2, <2>3
<1> QED BY <1>4, <1>5, <1>6, <1>8

\* An established tunnel: bytes, the timer, and the calls of Close up to its end.
LEMMA OpenTunnelStep ==
  ASSUME TunnelInv, NEW x \in Tunnels,
         \/ Tn!Transfer(x) \/ Tn!ProxyClose(x) \/ Tn!TimerFires(x)
         \/ \E c \in Tn!Closers : Tn!CloseMark(x, c) \/ Tn!CloseConn(x, c) \/ Tn!CloseAgain(x, c)
  PROVE  TunnelInv'
<1>1. tunnel \in [Tunnels -> TunnelRecords] /\ tunnel[x] \in TunnelRecords /\ TunnelOK(tunnel[x]) /\ "proxy" \in Tn!Closers /\ "timer" \in Tn!Closers
  BY DEF TunnelInv, Tn!Closers
<1>2. gauge' = gauge
  BY DEF Tn!Transfer, Tn!ProxyClose, Tn!TimerFires, Tn!CloseMark, Tn!CloseConn, Tn!CloseAgain
<1>3. CASE Tn!Transfer(x)
  <2> DEFINE tm == IF ~tunnel[x].closed /\ tunnel[x].timer # "none" THEN "armed" ELSE tunnel[x].timer
             r == [tunnel[x] EXCEPT !.bytes = @ + 1, !.timer = tm]
  <2>1. tunnel' = [tunnel EXCEPT ![x] = r] /\ tunnel[x].pc = "open"
    BY <1>1, <1>3 DEF Tn!Transfer
  <2>2. tunnel[x].bytes + 1 \in Nat /\ tm \in Timers
    BY <1>1, Literals, SMT DEF TunnelRecords
  <2>3. /\ r \in TunnelRecords /\ r.pc = tunnel[x].pc /\ r.once = tunnel[x].once /\ r.timer = tm /\ r.closer = tunnel[x].closer
        /\ r.closed = tunnel[x].closed /\ r.conn = tunnel[x].conn
    <3> HIDE DEF tm
    <3> QED BY <1>1, <2>2, Literals DEF TunnelRecords
  <2> HIDE DEF r
  <2>4. TunnelOK(r)
    BY <1>1, <2>1, <2>3 DEF TunnelOK
  <2> QED BY <1>2, <2>1, <2>3, <2>4, SameCount
<1>4. CASE Tn!ProxyClose(x)
  <2> DEFINE r == [tunnel[x] EXCEPT !.closer["proxy"] = "calling"]
  <2>1. tunnel' = [tunnel EXCEPT ![x] = r] /\ tunnel[x].pc = "open" /\ tunnel[x].closer["proxy"] = "no"
    BY <1>1, <1>4 DEF Tn!ProxyClose
  <2>2. /\ r \in TunnelRecords /\ r.pc = tunnel[x].pc /\ r.once = tunnel[x].once /\ r.timer = tunnel[x].timer
        /\ r.closed = tunnel[x].closed /\ r.conn = tunnel[x].conn
        /\ \A c \in Tn!Closers : r.closer[c] = IF c = "proxy" THEN "calling" ELSE tunnel[x].closer[c]
    BY <1>1, Literals DEF TunnelRecords
  <2> HIDE DEF r
  <2>3. TunnelOK(r)
    BY <1>1, <2>1, <2>2 DEF TunnelOK
  <2> QED BY <1>2, <2>1, <2>2, <2>3, SameCount
<1>5. CASE Tn!TimerFires(x)
  <2> DEFINE r == [tunnel[x] EXCEPT !.timer = "fired", !.closer["timer"] = "calling"]
  <2>1. tunnel' = [tunnel EXCEPT ![x] = r] /\ tunnel[x].timer = "armed" /\ tunnel[x].closer["timer"] = "no"
    BY <1>1, <1>5 DEF Tn!TimerFires
  <2>2. /\ r \in TunnelRecords /\ r.pc = tunnel[x].pc /\ r.once = tunnel[x].once /\ r.timer = "fired"
        /\ r.closed = tunnel[x].closed /\ r.conn = tunnel[x].conn
        /\ \A c \in Tn!Closers : r.closer[c] = IF c = "timer" THEN "calling" ELSE tunnel[x].closer[c]
    BY <1>1, Literals DEF TunnelRecords
  <2> HIDE DEF r
  <2>3. tunnel[x].once = "no" /\ tunnel[x].pc = "open"
    BY <1>1, <2>1 DEF TunnelOK
  <2>4. TunnelOK(r)
    BY <1>1, <2>1, <2>2, <2>3 DEF TunnelOK
  <2> QED BY <1>2, <2>1, <2>2, <2>4, SameCount
<1>6. ASSUME NEW c \in Tn!Closers, Tn!CloseMark(x, c)  PROVE TunnelInv'
  <2> DEFINE r == [tunnel[x] EXCEPT !.closer[c] = "marked", !.once = "running", !.closed = TRUE, !.timer = "stopped"]
  <2>1. tunnel' = [tunnel EXCEPT ![x] = r] /\ tunnel[x].once = "no" /\ tunnel[x].closer[c] = "calling"
    BY <1>1, <1>6 DEF Tn!CloseMark, Tn!FirstClose
  <2>2. /\ r \in TunnelRecords /\ r.pc = tunnel[x].pc /\ r.once = "running" /\ r.timer = "stopped"
        /\ r.closed = TRUE /\ r.conn = tunnel[x].conn
        /\ \A d \in Tn!Closers : r.closer[d] = IF d = c THEN "marked" ELSE tunnel[x].closer[d]
    BY <1>1, Literals DEF TunnelRecords
  <2> HIDE DEF r
  <2>3. tunnel[x].pc = "open"
    BY <1>1, <1>6, <2>1 DEF TunnelOK
  <2>4. TunnelOK(r)
    BY <1>1, <2>1, <2>2, <2>3 DEF TunnelOK
  <2> QED BY <1>2, <2>1, <2>2, <2>3, <2>4, SameCount
<1>7. ASSUME NEW c \in Tn!Closers, Tn!CloseConn(x, c)  PROVE TunnelInv'
  <2> DEFINE r == [tunnel[x] EXCEPT !.closer[c] = "shut", !.conn = "closed"]
  <2>1. tunnel' = [tunnel EXCEPT ![x] = r] /\ tunnel[x].closer[c] = "marked"
    BY <1>1, <1>7 DEF Tn!CloseConn
  <2>2. /\ r \in TunnelRecords /\ r.pc = tunnel[x].pc /\ r.once = tunnel[x].once /\ r.timer = tunnel[x].timer
        /\ r.closed = tunnel[x].closed /\ r.conn = "closed"
        /\ \A d \in Tn!Closers : r.closer[d] = IF d = c THEN "shut" ELSE tunnel[x].closer[d]
    BY <1>1, Literals DEF TunnelRecords
  <2> HIDE DEF r
  <2>3. tunnel[x].pc = "open" /\ tunnel[x].once = "running"
    BY <1>1, <1>7, <2>1 DEF TunnelOK
  <2>4. TunnelOK(r)
    BY <1>1, <1>7, <2>1, <2>2, <2>3 DEF TunnelOK
  <2> QED BY <1>2, <2>1, <2>2, <2>4, SameCount
<1>8. ASSUME NEW c \in Tn!Closers, Tn!CloseAgain(x, c)  PROVE TunnelInv'
  <2> DEFINE r == [tunnel[x] EXCEPT !.closer[c] = "returned"]
  <2>1. tunnel' = [tunnel EXCEPT ![x] = r] /\ tunnel[x].closer[c] = "calling" /\ tunnel[x].once = "done"
    BY <1>1, <1>8 DEF Tn!CloseAgain
  <2>2. /\ r \in TunnelRecords /\ r.pc = tunnel[x].pc /\ r.once = tunnel[x].once /\ r.timer = tunnel[x].timer
        /\ r.closed = tunnel[x].closed /\ r.conn = tunnel[x].conn
        /\ \A d \in Tn!Closers : r.closer[d] = IF d = c THEN "returned" ELSE tunnel[x].closer[d]
    BY <1>1, Literals DEF TunnelRecords
  <2> HIDE DEF r
  <2>3. TunnelOK(r)
    BY <1>1, <1>8, <2>1, <2>2 DEF TunnelOK
  <2> QED BY <1>2, <2>1, <2>2, <2>3, SameCount
<1> QED BY <1>3, <1>4, <1>5, <1>6, <1>7, <1>8

\* The switch counts its tunnel in, and the end of Close counts it out, once.
LEMMA CountStep ==
  ASSUME IsFiniteSet(Tunnels), TunnelInv, NEW x \in Tunnels,
         Tn!Switch(x) \/ \E c \in Tn!Closers : Tn!CloseCount(x, c)
  PROVE  TunnelInv'
<1>1. tunnel \in [Tunnels -> TunnelRecords] /\ tunnel[x] \in TunnelRecords /\ TunnelOK(tunnel[x])
  BY DEF TunnelInv
<1>2. IsFiniteSet(Counted)
  BY FS_Subset DEF Counted
<1>3. CASE Tn!Switch(x)
  <2> DEFINE r == [tunnel[x] EXCEPT !.pc = "open", !.status = 101, !.conn = "open", !.timer = "armed"]
  <2>0. 101 \in Nat
    BY SMT
  <2>1. tunnel' = [tunnel EXCEPT ![x] = r] /\ gauge' = gauge + 1 /\ tunnel[x].pc = "resolved"
    BY <1>1, <1>3 DEF Tn!Switch, Tn!TimerFor
  <2>2. /\ r \in TunnelRecords /\ r.pc = "open" /\ r.once = tunnel[x].once /\ r.timer = "armed"
        /\ r.closed = tunnel[x].closed /\ r.conn = "open" /\ r.closer = tunnel[x].closer
    BY <1>1, <2>0, Literals DEF TunnelRecords
  <2> HIDE DEF r
  <2>3. TunnelOK(r) /\ r.once = "no"
    BY <1>1, <2>1, <2>2 DEF TunnelOK
  <2>4. tunnel' \in [Tunnels -> TunnelRecords] /\ tunnel'[x] = r /\ \A y \in Tunnels : y # x => tunnel'[y] = tunnel[y]
    BY <1>1, <2>1, <2>2
  <2>5. Counted' = Counted \cup {x} /\ x \notin Counted
    BY <2>1, <2>2, <2>3, <2>4 DEF Counted
  <2>6. Cardinality(Counted') = Cardinality(Counted) + 1
    BY <1>2, <2>5, FS_AddElement
  <2> QED BY <2>1, <2>3, <2>4, <2>6 DEF TunnelInv
<1>4. ASSUME NEW c \in Tn!Closers, Tn!CloseCount(x, c)  PROVE TunnelInv'
  <2> DEFINE r == [tunnel[x] EXCEPT !.closer[c] = "returned", !.once = "done"]
  <2>1. tunnel' = [tunnel EXCEPT ![x] = r] /\ gauge' = gauge - 1 /\ tunnel[x].closer[c] = "shut"
    BY <1>1, <1>4 DEF Tn!CloseCount
  <2>2. /\ r \in TunnelRecords /\ r.pc = tunnel[x].pc /\ r.once = "done" /\ r.timer = tunnel[x].timer
        /\ r.closed = tunnel[x].closed /\ r.conn = tunnel[x].conn
        /\ \A d \in Tn!Closers : r.closer[d] = IF d = c THEN "returned" ELSE tunnel[x].closer[d]
    BY <1>1, Literals DEF TunnelRecords
  <2> HIDE DEF r
  <2>3. tunnel[x].pc = "open" /\ tunnel[x].once = "running"
    BY <1>1, <1>4, <2>1 DEF TunnelOK
  <2>4. TunnelOK(r)
    BY <1>1, <1>4, <2>1, <2>2, <2>3 DEF TunnelOK
  <2>5. tunnel' \in [Tunnels -> TunnelRecords] /\ tunnel'[x] = r /\ \A y \in Tunnels : y # x => tunnel'[y] = tunnel[y]
    BY <1>1, <2>1, <2>2
  <2>6. Counted' = Counted \ {x} /\ x \in Counted
    BY <2>2, <2>3, <2>5 DEF Counted
  <2>7. Cardinality(Counted') = Cardinality(Counted) - 1
    BY <1>2, <2>6, FS_RemoveElement
  <2> QED BY <2>1, <2>4, <2>5, <2>7 DEF TunnelInv
<1> QED BY <1>3, <1>4

\* The gauge of active tunnels is exact through every race of the copies' teardown,
\* the idle timer and late bytes, and a tunnel that left it is closed with its timer
\* stopped (upgrade.go RoundTrip, Close, reset).
THEOREM TunnelGauge ==
  ASSUME IsFiniteSet(Tunnels)
  PROVE  Tn!Spec => []Tn!GaugeExact
<1>1. Tn!Init => TunnelInv
  <2> SUFFICES ASSUME Tn!Init  PROVE TunnelInv
    OBVIOUS
  <2>1. /\ Tn!Fresh \in TunnelRecords /\ Tn!Fresh.pc = "idle" /\ Tn!Fresh.once = "no" /\ Tn!Fresh.timer = "none"
        /\ \A c \in Tn!Closers : Tn!Fresh.closer[c] = "no"
    <3>1. 0 \in Nat
      BY SMT
    <3> QED BY <3>1 DEF Tn!Fresh, TunnelRecords, Pcs, Timers, Conns, Onces, Stages
  <2>2. tunnel \in [Tunnels -> TunnelRecords] /\ \A x \in Tunnels : tunnel[x] = Tn!Fresh
    BY <2>1 DEF Tn!Init
  <2>3. TunnelOK(Tn!Fresh)
    BY <2>1 DEF TunnelOK
  <2>4. Counted = {}
    BY <2>1, <2>2 DEF Counted
  <2>5. gauge = Cardinality(Counted)
    BY <2>4, FS_EmptySet DEF Tn!Init
  <2> QED BY <2>2, <2>3, <2>5 DEF TunnelInv
<1>2. TunnelInv /\ [Tn!Next]_Tn!vars => TunnelInv'
  <2>1. ASSUME TunnelInv, UNCHANGED Tn!vars  PROVE TunnelInv'
    BY <2>1 DEF Tn!vars, TunnelInv, Counted
  <2> QED BY <2>1, HandshakeStep, OpenTunnelStep, CountStep DEF Tn!Next, Tn!Handshake, Tn!Close
<1>3. TunnelInv => Tn!GaugeExact
  <2>1. \A S : Tn!Cardinality(S) = Cardinality(S)
    BY DEF Cardinality, Tn!Cardinality
  <2> QED BY <2>1 DEF TunnelInv, TunnelOK, Counted, Tn!GaugeExact
<1> QED BY <1>1, <1>2, <1>3, PTL DEF Tn!Spec
=============================================================================
