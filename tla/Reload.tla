------------------------------- MODULE Reload -------------------------------
(* Zero-downtime reload: Server.Reload / ApplyConfig / Shutdown               *)
(* (internal/server/server.go) over the configuration objects they move       *)
(* stores and pools between (internal/config/config.go).                      *)
(*                                                                            *)
(* Objects are named by the load that made them: generation g opens a store   *)
(* <<s, g>> for each of its sites, builds pool g and owns k8s client g.  A    *)
(* directory holds one key, which collides between two cache-key recipes: its *)
(* blob is the recipe whose response it holds, 0 when there is none.          *)
EXTENDS Integers, FiniteSets

CONSTANTS DiskSites,     \* sites with a configured `disk` directory
          ScratchSites,  \* sites without one: each store gets a temp directory
          Recipes,       \* cache-key fingerprints
          Prints,        \* pool fingerprints
          K8sPrints,     \* those of pools with a k8s:// backend
          MaxReloads,    \* bound: configurations loaded after the first
          Requests       \* request slots

Sites == DiskSites \cup ScratchSites
Gens == 0..MaxReloads
Stores == Sites \X Gens

VARIABLES
    cfg,       \* generation -> its Config
    gen,       \* the last generation loaded
    live,      \* the generation the handler routes with
    cur,       \* Server.cfg
    open,      \* stores not closed
    scratch,   \* scratch directories on disk, named by their first store
    has,       \* stores whose index holds the key
    dirty,     \* stores with an unpersisted change
    blob,      \* directory -> the recipe of the key's blob, 0 if none
    index,     \* directory -> whether index.json lists the key
    running,   \* pools with a cancel in poolCancels
    draining,  \* removed pools whose context is not cancelled yet
    shared,    \* generations whose shared workers (k8s client) run
    apply,     \* the step ApplyConfig is at
    teardown,  \* old configurations waiting for the drain grace
    req,       \* the requests
    phase,     \* "up", "stopping" (servingCtx cancelled) or "down"
    late       \* Shutdown's deadline passed

vars == <<cfg, gen, live, cur, open, scratch, has, dirty, blob, index,
          running, draining, shared, apply, teardown, req, phase, late>>
disk == <<has, dirty, blob, index>>
workers == <<running, draining, shared>>

\* DiskDir: a configured directory is the site's, whichever store is opened on
\* it; a scratch directory is its store's own.
DiskDir(x) == IF x[1] \in ScratchSites THEN x ELSE <<x[1], 0>>

StoresOf(c) == {<<s, c.store[s]>> : s \in c.sites}

\* What Load builds as generation g: its stores and its pool are its own.
NewConfig(g, sites, recipe, print) ==
    [sites |-> sites, recipe |-> recipe, print |-> print,
     store |-> [s \in sites |-> g], pool |-> g,
     tempDirs |-> {<<s, g>> : s \in sites \cap ScratchSites}]

Idle == [st |-> "idle", g |-> 0, s |-> "", tmp |-> FALSE, got |-> 0]

Init ==
    /\ \E r \in Recipes, p \in Prints : cfg = [g \in {0} |-> NewConfig(0, Sites, r, p)]
    /\ gen = 0 /\ live = 0 /\ cur = 0
    /\ open = Sites \X {0}
    /\ scratch = ScratchSites \X {0}
    /\ has = {} /\ dirty = {}
    /\ blob = [d \in Stores |-> 0]
    /\ index = [d \in Stores |-> FALSE]
    /\ running = {0} /\ draining = {} /\ shared = {0}
    /\ apply = "idle" /\ teardown = {}
    /\ req = [r \in Requests |-> Idle]
    /\ phase = "up" /\ late = FALSE

-----------------------------------------------------------------------------
(* The disk tier, as far as two stores on one directory see it.              *)

\* load: an indexed entry whose blob is there.
Loaded(x) == index[DiskDir(x)] /\ blob[DiskDir(x)] # 0

\* NewDiskTier reaps every wip-* file of the directory, the ones other open
\* stores are writing included.
Reaped(xs) ==
    [r \in Requests |->
        IF \E x \in xs : req[r].st = "fetch" /\ DiskDir(x) = DiskDir(<<req[r].s, cfg[req[r].g].store[req[r].s]>>)
        THEN [req[r] EXCEPT !.tmp = FALSE] ELSE req[r]]

\* DiskTier.Close: the full index of each closed store is written.
Persisted(xs, ix) ==
    [d \in Stores |-> IF \E x \in xs : DiskDir(x) = d THEN \E x \in xs : DiskDir(x) = d /\ x \in has
                      ELSE ix[d]]

\* CloseExcept(keep): the stores not kept are closed, the scratch directories
\* not under a kept store are removed.
Close(c, keep) ==
    LET closed == (StoresOf(c) \ keep) \cap open IN
    /\ open' = open \ closed
    /\ index' = Persisted(closed, index)
    /\ dirty' = dirty \ closed
    /\ scratch' = scratch \ (c.tempDirs \ (StoresOf(c) \cap keep))

\* flushLoop of an open store.
Flush(x) ==
    /\ x \in open \cap dirty /\ phase # "down"
    /\ dirty' = dirty \ {x}
    /\ index' = [index EXCEPT ![DiskDir(x)] = x \in has]
    /\ UNCHANGED <<cfg, gen, live, cur, open, scratch, has, blob, workers,
                   apply, teardown, req, phase, late>>

-----------------------------------------------------------------------------
(* Reload.                                                                    *)

\* LoadWithOptions opens a cold store for every site, on the directories the
\* running stores use.
Load(sites, recipe, print) ==
    LET g == gen + 1
        cold == sites \X {g} IN
    /\ apply = "idle" /\ gen < MaxReloads /\ phase # "down" /\ sites # {}
    /\ gen' = g
    /\ cfg' = [h \in 0..g |-> IF h = g THEN NewConfig(g, sites, recipe, print) ELSE cfg[h]]
    /\ open' = open \cup cold
    /\ scratch' = scratch \cup cfg'[g].tempDirs
    /\ has' = has \cup {x \in cold : Loaded(x)}
    /\ req' = Reaped(cold)
    /\ apply' = "loaded"
    /\ UNCHANGED <<live, cur, dirty, blob, index, workers, teardown, phase, late>>

\* PrepareReload refuses the TLS hosts, or StartShared fails: next is closed.
Reject ==
    /\ apply = "loaded"
    /\ Close(cfg[gen], {})
    /\ apply' = "idle"
    /\ UNCHANGED <<cfg, gen, live, cur, has, blob, workers, teardown, req, phase, late>>

\* Mutant: a k8s:// pool is carried over with the client of its old config.
CarryK8s(old, new) == old.print = new.print

\* TransplantPoolsFrom's test: same name and fingerprint, and no k8s:// backend
\* bound to the client the old config owns.
Carried(old, new) == old.print = new.print /\ new.print \notin K8sPrints

\* TransplantPoolsFrom, then startPools.
StartPools ==
    LET old == cfg[cur]
        new == cfg[gen]
        pool == IF Carried(old, new) THEN old.pool ELSE new.pool IN
    /\ apply = "loaded"
    /\ cfg' = [cfg EXCEPT ![gen].pool = pool]
    /\ running' = IF phase = "up" THEN running \cup {pool} ELSE running
    /\ shared' = IF phase = "up" THEN shared \cup {gen} ELSE shared
    /\ apply' = "started"
    /\ UNCHANGED <<gen, live, cur, open, scratch, disk, draining, teardown, req, phase, late>>

\* willTransplantStore: the site is in both, under the same key recipe.
WillTransplant(old, new) ==
    {s \in old.sites \cap new.sites : old.store[s] # new.store[s] /\ old.recipe = new.recipe}

Flushed(old, new) ==
    {s \in old.sites \cap new.sites : old.store[s] # new.store[s] /\ old.recipe # new.recipe}

\* Mutant: the cold store of a carried site is left open.
CloseNone(carried) == {}

\* The cold stores TransplantStoresFrom closes.
Cold(carried) == carried \X {gen}

\* TransplantStoresFrom: a carried site serves from the old store and its cold
\* one is closed; a site whose recipe changed keeps the cold one, Reset, which
\* drops the entries it loaded and persists the index if there were any.
TransplantStores ==
    LET old == cfg[cur]
        new == cfg[gen]
        carried == WillTransplant(old, new)
        cold == Cold(carried)
        reset == (Flushed(old, new) \X {gen}) \cap has
        freed == {DiskDir(x) : x \in reset} IN
    /\ apply = "started"
    /\ cfg' = [cfg EXCEPT ![gen].store = [s \in new.sites |-> IF s \in carried THEN old.store[s] ELSE new.store[s]],
                          ![gen].tempDirs = @ \ cold]
    /\ open' = open \ cold
    /\ scratch' = scratch \ cold
    /\ has' = has \ reset
    /\ blob' = [d \in Stores |-> IF d \in freed THEN 0 ELSE blob[d]]
    /\ index' = [d \in Stores |-> d \notin freed /\ Persisted(cold, index)[d]]
    /\ dirty' = dirty \ cold
    /\ apply' = "moved"
    /\ UNCHANGED <<gen, live, cur, workers, teardown, req, phase, late>>

\* handler.Reload.
Swap ==
    /\ apply = "moved"
    /\ live' = gen
    /\ apply' = "swapped"
    /\ UNCHANGED <<cfg, gen, cur, open, scratch, disk, workers, teardown, req, phase, late>>

\* Mutant: the pools to stop are the old configuration's.
OldPools == running \cap {cfg[cur].pool}

\* stopRemovedPools: the running pools the new configuration does not have.
RemovedPools == running \ {cfg[gen].pool}

\* Mutant: the keep set forgets the transplanted stores.
OwnStores(c) == {x \in StoresOf(c) : x[2] = gen}

\* The stores ApplyConfig's keep set holds.
Keep(c) == StoresOf(c)

\* s.cfg = next, the old shared workers are stopped, removed pools drain and
\* the old configuration waits for the grace.
Finish ==
    /\ apply = "swapped"
    /\ cur' = gen
    /\ shared' = shared \ {cur}
    /\ running' = running \ RemovedPools
    /\ draining' = draining \cup RemovedPools
    /\ teardown' = teardown \cup {[g |-> cur, keep |-> Keep(cfg[gen])]}
    /\ apply' = "idle"
    /\ UNCHANGED <<cfg, gen, live, open, scratch, disk, req, phase, late>>

\* drainPool: no request in flight on the pool, or the grace elapsed.
DrainPool(p) ==
    /\ p \in draining
    /\ draining' = draining \ {p}
    /\ UNCHANGED <<cfg, gen, live, cur, open, scratch, disk, running, shared,
                   apply, teardown, req, phase, late>>

\* Mutant: the background goroutine tears the configuration down with no keep set.
NoKeep(t) == {}

Kept(t) == t.keep

\* The grace elapsed: old.CloseExcept(keep).
GraceOver(t) ==
    /\ t \in teardown /\ phase # "down"
    /\ Close(cfg[t.g], Kept(t))
    /\ teardown' = teardown \ {t}
    /\ UNCHANGED <<cfg, gen, live, cur, has, blob, workers, apply, req, phase, late>>

-----------------------------------------------------------------------------
(* Requests.                                                                  *)

Busy(r) == req[r].st \in {"routed", "fetch"}

\* The handler loads the routing once and keeps it for the whole request.
Arrive(r, s) ==
    /\ ~Busy(r) /\ phase = "up"
    /\ s \in cfg[live].sites
    /\ req' = [req EXCEPT ![r] = [Idle EXCEPT !.st = "routed", !.g = live, !.s = s]]
    /\ UNCHANGED <<cfg, gen, live, cur, open, scratch, disk, workers, apply, teardown, phase, late>>

StoreOf(r) == <<req[r].s, cfg[req[r].g].store[req[r].s]>>

\* A hit opens the blob by its path; an entry whose blob is gone is dropped and
\* the request fetches, its writer's temp blob in the store's directory.
Lookup(r) ==
    LET x == StoreOf(r)
        b == blob[DiskDir(x)] IN
    /\ req[r].st = "routed" /\ phase # "down"
    /\ IF x \in has /\ b # 0
       THEN /\ req' = [req EXCEPT ![r] = [Idle EXCEPT !.st = "done", !.g = req[r].g, !.got = b]]
            /\ UNCHANGED <<has, dirty>>
       ELSE /\ req' = [req EXCEPT ![r].st = "fetch", ![r].tmp = TRUE]
            /\ has' = has \ {x}
            /\ dirty' = IF x \in has THEN dirty \cup {x} ELSE dirty
    /\ UNCHANGED <<cfg, gen, live, cur, open, scratch, blob, index, workers,
                   apply, teardown, phase, late>>

\* The response is complete: the temp blob is renamed to the key's path, unless
\* it was reaped or its directory removed.
Commit(r) ==
    LET x == StoreOf(r)
        ok == req[r].tmp /\ (x[1] \in ScratchSites => x \in scratch) IN
    /\ req[r].st = "fetch" /\ phase # "down"
    /\ req' = [req EXCEPT ![r] = [Idle EXCEPT !.st = "done"]]
    /\ IF ok THEN /\ blob' = [blob EXCEPT ![DiskDir(x)] = cfg[req[r].g].recipe]
                  /\ has' = has \cup {x}
                  /\ dirty' = dirty \cup {x}
             ELSE UNCHANGED <<blob, has, dirty>>
    /\ UNCHANGED <<cfg, gen, live, cur, open, scratch, index, workers,
                   apply, teardown, phase, late>>

-----------------------------------------------------------------------------
(* Shutdown.                                                                  *)

\* s.cancel(): every worker context is a child of servingCtx; the drains end.
Cancel ==
    /\ phase = "up"
    /\ phase' = "stopping"
    /\ running' = {} /\ draining' = {} /\ shared' = {}
    /\ UNCHANGED <<cfg, gen, live, cur, open, scratch, disk, apply, teardown, req, late>>

DeadlinePasses ==
    /\ phase = "stopping" /\ ~late
    /\ late' = TRUE
    /\ UNCHANGED <<cfg, gen, live, cur, open, scratch, disk, workers, apply, teardown, req, phase>>

\* httpSrv.Shutdown and the two tlsacme servers' Shutdown return.
Drained == late \/ \A r \in Requests : ~Busy(r)

\* handler.Shutdown, then Close of the current configuration; the process exits.
ShutdownClose ==
    /\ phase = "stopping" /\ Drained
    /\ Close(cfg[cur], {})
    /\ phase' = "down"
    /\ UNCHANGED <<cfg, gen, live, cur, has, blob, workers, apply, teardown, req, late>>

ApplySteps == Reject \/ StartPools \/ TransplantStores \/ Swap \/ Finish

Next ==
    \/ \E sites \in SUBSET Sites, r \in Recipes, p \in Prints : Load(sites, r, p)
    \/ ApplySteps
    \/ \E p \in Gens : DrainPool(p)
    \/ \E t \in teardown : GraceOver(t)
    \/ \E x \in Stores : Flush(x)
    \/ \E r \in Requests : \/ \E s \in Sites : Arrive(r, s)
                           \/ Lookup(r) \/ Commit(r)
    \/ Cancel \/ DeadlinePasses \/ ShutdownClose

Spec == Init /\ [][Next]_vars

\* ApplyConfig runs to its end, the drains and the grace timers fire.
FairSpec ==
    /\ Spec
    /\ WF_vars(ApplySteps)
    /\ \A p \in Gens : WF_vars(DrainPool(p))
    /\ WF_vars(\E t \in teardown : GraceOver(t))

-----------------------------------------------------------------------------

LiveStores == StoresOf(cfg[live])

\* While the server is up, whatever reloads were applied, refused or are under
\* way: every site it routes to has an open store with its directory on disk,
\* its pool's workers run and a k8s:// pool's client is not stopped
\* (ApplyConfig, TransplantStoresFrom, TransplantPoolsFrom, CloseExcept).
LiveServes ==
    phase = "up" =>
        /\ LiveStores \subseteq open
        /\ \A x \in LiveStores : x[1] \in ScratchSites => x \in scratch
        /\ cfg[live].pool \in running
        /\ cfg[live].print \in K8sPrints => cfg[live].pool \in shared

\* Once reloads stop, every store that the routing does not use is closed and
\* every pool it does not use is stopped: nothing of a refused or replaced
\* configuration is left running (ApplyConfig's teardown, drainPool).
Reclaimed ==
    <>[](phase = "up" => /\ open \subseteq LiveStores
                         /\ running \cup draining \subseteq {cfg[live].pool})

\* A hit serves a response stored under the recipe of the request's routing:
\* a site whose cache_key recipe changed starts from a genuine flush
\* (TransplantStoresFrom).
FlushGenuine == \A r \in Requests : req[r].got # 0 => req[r].got = cfg[req[r].g].recipe

\* A scratch directory belongs to an open store (buildStore, CloseExcept).
ScratchOwned == \A x \in scratch : x \in open
=============================================================================
