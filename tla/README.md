# Verification of cadish

This directory holds TLA+ models of cadish, an HTTP cache server written in Go, the TLC
configurations that check them on small instances, and theorems about them that TLAPS
checks for every value of the constants. `PROJECT.json` lists the components, the runs,
the source lines behind each definition, the hazards and the theorems.

    tlc -workers 2 -config MCStorage.cfg MCStorage     # model-check one run
    tlapm DiskTierProofs.tla                           # check one proof module

## 1. The system and its parts

A request enters `ServeHTTP` (internal/server/handler.go). Listeners have by then found
out who the client is (PROXY protocol, forwarded addresses) and TLS has chosen a
certificate. The *pipeline* of the site decides what the request is: refused, redirected,
passed through, or looked up under a cache key. The handler asks the *freshness index* in
which window the key's entry is and reads the body from the *tiered store* (RAM tier, then
disk tier). On a miss the *coalescer* elects one request per key to fetch from the origin,
which may be a *chain* of origins, a *peer* of the cluster or a load-balanced *pool*. That
request streams the body to its client and into the store, then marks the key fresh; the
others wait and read the store. A stale hit starts one *background revalidation* per key.
Purges and unsafe methods drop the freshness entry and leave the stored copy. Beside this,
a *reload* replaces the configuration under traffic, and *controllers* produce
configurations from Kubernetes objects.

| Part | What makes it hard | Modules |
|---|---|---|
| RAM tier (cache/ram.go) | writers reserve against a shared total with compare-and-swap; eviction in the middle of a commit | `RAMTier` |
| Disk tier (cache/disk.go) | a crash between any two file operations, restart into other shards, failing renames, removes and index writes | `DiskTier` |
| Tiered store, routing (cache/router.go, shard.go) | commit and the sibling's delete are two steps; boundaries of budgets and shards | `Store`, `Router` |
| Freshness index (server/freshness.go) | decisions on a clock read before the lock; bans that apply lazily and are pruned | `Freshness` |
| Coalescer (server/coalesce.go) | panicking winners, leaving clients, refused revalidations | `Coalesce` |
| Request lifecycle (server/handler.go, tee.go) | fetches, writes, purges, ageing and eviction interleave | `Serve` |
| Pipeline (pipeline/) | which credentials reach the key, the origin and the shared copy; names that depend on each other | `Decision`, `Credentials`, `KeyText`, `JSONField`, `SiteBody`, `Deliver` |
| Compressed variants, conditional answers (server/encode*.go, transform.go, range.go) | stored variants of a body that has changed | `Variants` |
| Configuration language (cadishfile/) | the formatter must keep the meaning of a text it formats | `Cadishfile`, `SiteBody` |
| Load balancer (lb/) | counts and tokens under failover and re-resolution, lost wake-ups | `Upstream` |
| Origin chain (origin/) | bodies that must be closed, request bodies that must not be read twice | `Chain` |
| Cluster (cluster/, server/cluster.go) | views that disagree, flights that wait for each other | `Cluster` |
| Reload and shutdown (server/server.go, config/) | stores and pools move between configurations; failure half way | `Reload` |
| Controllers (ingress/, gateway/, k8s/) | lagging caches, debounce, bad objects among good ones | `Controller`, `Ingress`, `Gateway` |
| TLS (tlsacme/) | handshakes that read several sources without a lock | `TLSManager` |
| Client address (geo/, proxyproto/) | which hop to believe; exactly the header's bytes; a database unmapped under its readers | `ClientAddress`, `ProxyHeader`, `GeoDB` |
| Rate limiter (ratelimit/) | clocks out of order, eviction at the cap | `RateLimit` |
| Connections and sinks (server/idlereader.go, upgrade.go, auditlog.go, accesshub.go) | timers against teardown, close against publish | `IdleSweeper`, `Tunnel`, `Sinks` |
| Edge deployment (edgedeploy) | calls that are lost after they took effect, other parties | `EdgeDeploy` |

The other packages (linting, the edge compiler, the VCL adapter, URL signing, redirect
templates, metrics, the admin views, the log reader, the CLI) are not modelled.
`PROJECT.json` gives the reason for each.

## 2. How models and code correspond

One module per component: its state as variables, one action per operation, handler or
step. `Tier` is abstract: what a storage tier promises its users; `RAMTier` and `DiskTier`
are shown to implement it and `Store` is built on two instances of it. `TierData` holds
the list and the byte sums both tiers use, with the lemmas about them. `Serve` uses an
instance of `Coalesce`, `Decision` one of `Credentials`. `RAMTierProofs`, `DiskTierProofs`,
`StoreProofs`, `LookupProofs` (`Coalesce` and `Freshness`, through `MCLookup`), `ServeProofs`,
`ControlProofs` (`Reload`, then `Chain`, `Cluster` and `Tunnel`) and `NetworkProofs`
(`Upstream`, then `GeoDB`, `TLSManager`, `RateLimit` and `Sinks`) hold the theorems; `MC*` are
the instances for TLC.

* **RAMTier.** A writer stands for the object it writes. A critical section of a shard
  lock is one step, but commit's eviction loop is one step per lap with the lock held
  (`locked`). `reserve`'s compare-and-swap is a load step and a swap step that fails if
  the total moved in between.
* **DiskTier.** `blob`, `wip`, `index` and `indexTmp` are the directory and survive
  `Crash`; the rest is the process. Each file operation is a step of its own, and the
  flush visits one shard per step. `NextProcess` opens the same directory with any layout
  in `Layouts`. `May` selects which environment events happen: reset, close, a vanishing
  blob, failing file operations. `stray` and `strayTmp` are history variables: files whose
  `os.Remove` failed, an error the code ignores. `Spec` has restarts; `OneProcess` is a
  behaviour without one.
* **Store.** A commit installs in one tier, then a separate step deletes the key from
  the sibling. `stamp` numbers a key's installs. A lookup asks RAM, then disk. A disk commit
  whose rename fails has already removed the copy it was to replace (`CommitFailed`).
* **Router.** One behaviour per configuration and object: bounds resolved, budget split,
  object routed, kept or refused.
* **Freshness.** A call reads the clock (`Call`) and takes the lock later (`Locked`), at
  most `MaxStall` instants later. `doomed` is a history variable: the stores whose entry a
  finished ban had to invalidate.
* **Coalesce.** A `fetchCall` is named by the request that created it. `finish` is two
  steps: the map entry goes under the lock, then the channel closes.
* **Serve.** One resource with the key of its GET and that of an unsafe method on it; the
  two coincide when `Methodless`. A fetch is a request and "fg" or "bg", and a copy is
  named by its fetch. The store is a map that may evict and may refuse a commit.
* **Decision, Credentials.** A site is a record of its rules; `EvalRequest`,
  `CredentialKey` and `EvalResponse` are operators, and a small state machine runs
  requests of different identities through one cache.
* **Upstream.** A backend object is `<<id, generation>>`: an endpoint that returns gets a
  new object while requests may hold the old one. A resolver round is one step per target.
* **Reload.** Objects are named by the load that made them. `ApplyConfig` is one step per
  statement that another goroutine can observe.
* **Cluster.** A task is one request at one node; every node has its own view of health.
* **Controller.** `cluster` is what the API server holds, `cache` what informers have
  delivered. `Ingress` and `Gateway` compute which site an object becomes.
* **TLSManager, GeoDB, IdleSweeper, Sinks, Tunnel, RateLimit, EdgeDeploy.** Each access to
  shared state outside a lock is a step of its own. A call to a provider may fail before
  or after it took effect.
* **Cadishfile, SiteBody, KeyText, JSONField, ProxyHeader, Deliver, Router, Ingress,
  Gateway.** The code is pure: operators that compute what the code computes, checked over
  all small inputs against a second definition that says what it should.

## 3. The runs

Components that share no state are checked in one run: a behaviour is then one of a single
part (`part`), and the variables of the others rest. State counts are TLC's distinct
states; a run takes between half a minute and four minutes with two workers. Every
property has a mutant in `PROJECT.json`: a small change of one definition, as a plausible
bug would make it, under which TLC finds the property violated.

| Run | Instance | What it shows |
|---|---|---|
| `ram` | 3 keys in 2 shards (caps 3 and 1), 3 writers, chunks of 1 and 2, object cap and budget 2; 218 k states | `TierSound`: the bytes buffered never exceed the budget and no path leaks a charge; map, ring and counters agree in the middle of a sweep; caps hold. `CommitTerminates`. `ImplementsTier` |
| `disk` | one process, 3 keys in 2 shards, 2 writers, bodies up to 2, failing file operations, vanishing blobs; 301 k states | `BlobsOwned`: every entry describes its blob and every blob has an entry, but for a file whose remove failed. `IndexCatchesUp`: the index file comes to list exactly what memory holds. `ImplementsTier` |
| `storage` | parts *store* (2 keys, 3 writers, 1 two-step reader), *disk* (2 writers, 1 crash, Close, Reset, failing file operations, restart into either of 2 layouts), *router* (RAM tiers of one and of two shards, small disk budgets, every override), *bans* (2 keys, 4 overlapping calls); 1.9 M states | `OneNewestCopy`, `NewestResident`: once its commits are over a key is in one tier, in its newest copy, and that copy was not lost to a later write, unless a failed disk commit had removed it. `DiskRecovers`: through crashes and restarts list, map and counter agree within the caps, lengths are right, no dead temp file stays, a clean tier is a persisted one. `PlacedWhereItFits`: shard caps partition a budget and an object is dropped only if no shard could hold it, or in the case of `Overlooked` (Known limits). `BanHolds`: no lookup is answered from an entry a finished ban invalidated |
| `lookup` | parts *coalesce* (3 requests, 2 keys, 1 background token) and *tracker* (3 overlapping calls of every kind on the freshness index, sweeper); 858 k states | `SingleFlight`: maps, channels and tokens agree. `CallsEnd`: the background drains and, if the fetches of winners end, every waiter is released. `ClassifyIsPair`, `PruneOnlyDead`, `DeadReclaimed`: the one-pass lookup equals the two calls it replaced, nothing usable is pruned, what is unusable goes |
| `serve` | 2 requests of 9 kinds, 7 origin answers, refused commits, panics, key without the method; 714 k states | `CacheShareable`: the store only holds whole answers anybody may be served. `Answered`: if clients go on reading, every request is |
| `serve_write` | 3 reads, writes and purges, failing origins, refused commits; 3.6 M states | `WritesAndPurgesHold`: every write reaches the origin and an invalidated copy is not served to a later request, unless a refused commit has marked it fresh again |
| `control` | parts *cluster* (2 nodes, 2 clients, 1 change of view), *reload* (2 reloads, a disk site and a scratch site, 1 request), *controller* (2 sites, 1 that does not compile, 2 changes, 1 fault), *tunnel* (2 tunnels), *chain* (3 origins); 356 k states | `HopsOnceToOwner`, `EveryClientAnswered`, `LiveServes`, `Reclaimed`, `ControllersConverge`, `TunnelsEnd`, `ChainBodiesOwned` |
| `network` | parts *upstream* (2 endpoints, 2 requests, 1 connection each), *health* (every window up to 3 and threshold up to 4), *sweeper*, *sinks*, *limiter*, *address* (10 routes), *tls* (2 handshakes), *geo* (2 lookups, 2 reloads, Close), *edge* (2 operators); 3.9 M states | `PoolSound`, `PoolFollowsAnswers`, `LimitsKept`, `AddressAttested`, `CertificatesWhole`, `HandedOverHeld`, `EdgeKept`, `EdgeAsReported` |
| `reading` | requests with every mix of credentials through one cache; all texts, paths, queries, globs and JSON values of up to 5 pieces; up to 5 Ingresses, 3 Gateways and 3 routes; header rules of up to 2 operations; 2 clients of compressed variants; 1.7 M states | `CacheKeepsApart`, `ConfigurationRead`, `RequestRead`, `KubernetesRouted`, `RepliesHonest` |
| `serve_write_nocache`, `refresh_identity`, `gateway_root` | | violated: the three findings below |

Each property is stated in words above its definition, with the function it is about.

**Why the bounds are enough.** Two keys that share a shard and one that does not give
replacement, eviction of another key, and independence of shards. Three RAM writers are
what a failed swap needs: one that loads, one that moves the total, one that holds part of
it. One crash is explored at every step of a commit, a flush and a load, with the whole
restart after it; the theorem of section 6 covers any number of crashes. In `lookup`,
three calls are a store, a lookup that read its clock early and one that moves between
them; three requests are a winner, a waiter and the winner of the next call. In
`serve_write` the third request lets a write fall between a fetch and the next reader. Two
reloads are one that takes over the store of another's predecessor. Two generations of a
backend let a request hold the old object while the new one serves.

**Where a run leaves interleavings out.** The headers of `MCNetwork` and `MCStorage` say
which: in the pool, the resolver's own races run before requests come, and later rounds run
undisturbed; in *reload*, requests run up to the first reload; alike keys, writers and calls
begin in a fixed order. `disk` leaves out resets (infinitely many failing resets refute
`IndexCatchesUp`) and closing; the theorem about `BlobsOwned` has both.

**Where a bound matters to the verdict.** *bans* gives the ban list room for all bans and
starts with `maxGrace` at the widest window, where the code starts at 0 (Known limits).
`disk` has no crash, because after one the metadata may be of an older body. `serve_write`
has answers "ok" and "fail" only.

**What a property leaves open.** `ImplementsTier` lets any key vanish at any time, as a user
of a cache must expect: it says what is stored and found, not that it stays. `ClassifyIsPair`
compares the lookups at one instant; the change from the shared to the exclusive lock between
the halves of `classify` is what `PruneOnlyDead` is about. `AddressAttested` has no bracketed IPv6 address
without a port (`clientip.go:76-91`). `CacheKeepsApart` is about requests that one recipe made
the key of: two different recipes that happen to give one key are exempt.

**Deadlock** is checked in `ram` and `disk`. The other runs say `CHECK_DEADLOCK FALSE`:
all requests, calls or commands of an instance may be over and nothing else happens.

**Symmetry** is used on the requests of `serve_write` and the disk writers of `storage`,
where no constant names a particular one and no liveness is checked.

### Fairness

Environment steps (requests, crashes, evictions, ageing, clients that leave, changes of a
view or of the cluster's objects) are never fair.

* RAMTier: weak fairness on each writer inside `reserve` or `commit`. A runnable goroutine
  runs, and nothing in these sections waits for a client.
* DiskTier: weak fairness on opening, on the flush loop (the ticker fires), on a reset and
  on a commit that holds its lock. Strong fairness on writing and renaming the index:
  writes may fail any number of times but not every time. Without it a full disk refutes
  `IndexCatchesUp`, as it should.
* Freshness: time goes on, the sweeper's ticker fires, a call that was made ends.
* Coalesce, Serve, Cluster: goroutines run, origin calls end because they have deadlines, and
  deferred calls run. Waiters wait on a channel whose close is such a step. The copy of a
  body to a client is not fair: `http.Server` is built without a `WriteTimeout`
  (`server.go:558`, 583), so a client that neither reads nor leaves stops it. What depends on
  such a copy is stated under a hypothesis: `FetchesEnd` in `CallsEnd`, `ClientsRead` in
  `Answered` and `EveryClientAnswered`.
* Reload: ApplyConfig goes on, a pool's drain and a grace period end (timers).
* Controller: informers deliver, the debounce timer fires and reconcile returns. Nothing says
  that a status update succeeds: a gateway sends one once per reconcile.
* Tunnel: an armed timer fires and a teardown that began ends.

## 4. Findings

Three runs state what a document or a comment says and TLC shows the code does otherwise.

1. `serve_write_nocache`, `SuccessfulWriteInvalidates` (`internal/server/handler.go:603`). The
   branch for a request that forces revalidation is taken for every method and returns before
   the branch for unsafe methods. A successful POST with `Cache-Control: no-cache` leaves the
   GET entry fresh. The comment at 618-619 says "a SUCCESSFUL (2xx/3xx) response to an unsafe
   method on a URI invalidates any cached entry for that URI".
2. `refresh_identity`, `RefreshSameIdentity` (`internal/server/handler.go:1541`). `revalidate`
   starts from an empty header and adds the forwarded cookie only. A header the cache key is
   made of is not sent, and the refresh stores what the origin answers without it. The comment
   at 1524-1526 says the refresh "forwards the same identity the foreground fetch would".
3. `gateway_root`, `RootConditionsKept` (`internal/gateway/render.go:429`). The prefix `/` is
   rendered as `path / //*`, which only `/` itself matches. A conditional match on the root
   prefix does not route the requests it was written for. `docs/gateway-api.md:194` says
   "Within one match all conditions are **AND**ed".

## 5. Known limits

Meeting points of a comment and the code that the runs do not state, because the property
is false there or is only true outside the case. Where a definition is named it is in the
module, and checking it as an invariant (or property) of that module's specification shows
the behaviour.

Storage:

* `DirectoryBounded` (`cache/disk.go:543`; line 47 says "byte-bounded"). Blobs committed after
  the last flush are in no index after a crash. No load ever meets them, so no eviction
  removes them.
* `GracefulLosesNothing` (`cache/disk.go:517`; comment 507-508). A commit that ends while
  `Close` writes the index is on disk and not in the index.
* `MetaMatchesBlob` after a crash (`cache/disk.go:279`; comments 22-28 and
  `cache/cache.go:53-62`). A load compares lengths only, so the metadata of an older body of
  the same length is taken for the newer body's. `BlobsOwned` is stated of one process.
* `BanHolds` (hypotheses of its theorem) beyond the cap (`freshness.go:518`; comment 61-64): the oldest ban is dropped
  while entries it covers may still be alive. And with a first wide window
  (`freshness.go:231`; comment 505-507): `maxGrace` may grow after a ban was dropped by it.
* `GetsNewest` and `DedupOnlyOlder` (`router.go:200`; comments 164-167, 194-198 and
  `cache.go:120-121`). Between the two installs of overlapping commits to different tiers a
  reader may be answered the older copy, and the removal of the other tier's copy may
  remove the newer one for a moment.
* Files whose `os.Remove` failed (`disk.go:536`, 556, 592, 638 ignore the error). The entry is
  gone and the file stays, outside every budget, until its key is stored again or a restart
  reaps it if it is a temp file. `BlobsOwned` and `DiskRecovers` exempt exactly these files.
* A commit that fails at its rename (`disk.go:578-594`) has already removed the copy it was to
  replace. `NewestResident` excuses that copy.
* `BoundsWithinTier` (`router.go:97`; comment 84-87) and `NeverDroppedByRAM` (`router.go:115-126`;
  comment 84-89). Routing does not look at the cap of a RAM shard, nor at the object cap for an
  object under the small-object threshold, so an object may be sent to a RAM tier that drops it
  although the disk tier would have kept it.

Serving:

* `WaitersGetTheWinnersCopy` (`tee.go:63`; comments `coalesce.go:21-23`, `handler.go:953-955`).
  A refused commit leaves nothing to hand over; the waiters fetch for themselves.
* A refused commit (an object over its shard's cap, which `Commit` reports as nil) is followed by
  the mark of the key as fresh (`tee.go:63`, `handler.go:1216-1220`). If a purged copy of the key is
  still in the store, the mark describes that copy. `WritesAndPurgesHold` exempts it from then on.
* Waiters of a winner wait for the copy of the body to the winner's client (`handler.go:694-706`,
  1209), which has no deadline (`server.go:558`, 583). See Fairness.
* `AfterWriteFresh` (`handler.go:644`; comment 619-623): a fetch that began before a write may
  store its answer after the write's invalidation. And in a hit-for-miss window
  (`handler.go:580`) a write does not invalidate.
* `WritesAnsweredByOrigin` (`handler.go:1268`; comments 609-616), with a cache key that does
  not hold the method.
* `ForcedStaysPrivate` (`handler.go:1595-1604`): the refresh of a stored object rebuilds its
  metadata without `ForcedPrivate`. A negative entry is answered without Cache-Control at its
  first delivery (1085-1087).

Control and network:

* `FlushGenuine` and `ScratchOwned` (`config/config.go:675-679` and 97-99): the old site's flush
  loop may write the old index again after the new store's `Reset`, and a scratch directory
  outlives a store that was handed on.
* A controller does not retry a failed `ApplyConfig` before the next change, and changes that
  keep arriving within the debounce keep it waiting. A gateway logs a failed status update
  (`gateway/status.go:106`, 214, 308) and sends it again at the next change only;
  `ControllersConverge` exempts these updates (`unsent`).
* An idle timeout of 0 does not disable the timer of a tunnel: `upgrade.go` raises it to
  `minTunnelIdle`. `docs/cadishfile-reference.md:1903-1904` and the comment at `upgrade.go:304-305`
  say 0 disables it. `TunnelsEnd` states what the code does.
* `Disable` removes another party's route that runs no worker if its pattern is on the exclusion
  list (`edgedeploy/deploy.go:432-440`; comment 430-431 says "an unrelated no-script route is left
  untouched"). `EdgeKept` exempts these routes.
* `StallBound` (`idlereader.go:277-285`; comment 146-149): the wait is renewed when a body with a
  shorter timeout registers, so a stream of registrations puts the scan off.
* `SweepLosesNothing` (`ratelimit/limiter.go:39-43`, 252-256): a slow rate with a large burst has
  not refilled after `idleTTL`.
* In the pool, a success that was under way when its endpoint was ejected ends the ejection, and
  a fallover does not close the body of a status it passed over (`origin.go:106-108`).
* The Kubernetes renderers' names for upstreams and pools are not injective, and an Exact path
  loses a trailing slash. `KubernetesRouted` leaves out Gateways in which two pools get one name
  or the root has conditions (finding 3).
* On a Gateway host whose rules are all drained a request that no rule takes is not answered 404
  but goes to one of the drained pools (`gateway/render.go:269-290`; `docs/gateway-api.md:60-64`).
  A drained match with conditions gives way to every serving one that covers its path (400-414).
  `RoutedAsAsked` says both.

Reading:

* The formatter (`FormatSound`): a bare reference or placeholder that it has to quote becomes a
  literal, and the newline it writes for a `;` after an address with a trailing comma continues
  the address list (`cadishfile/parse.go:278-286`). Of other texts it keeps the meaning (`Plain`).
* A query pair with an invalid escape is sent to the origin and left out of the cache key
  (`handler.go:1739-1747`; 1666-1672, 1719-1726). `KeyReadsBack` counts the pairs that can be told
  apart (`Tellable`). The comment of `urlFor` (`httporigin.go:297-300`) describes an earlier key.
* A compressed or replaced response keeps its `Last-Modified`, so a dated `If-Range` may be
  honoured for a copy of another coding of the same version. `ValidatorsHonest` says what is left.
* Of a `Vary` in several lines the stored entry keeps the first (`handler.go:1112`), and a
  `resp_header` scope on a field that a HIT does not rebuild is not met on the HIT.
  `HitSaysWhatMissSaid` leaves both out.

## 6. What is proved

`tlapm` checks every theorem and lemma to its last leaf. A theorem holds for every value of
the constants that satisfies the assumptions named in the component's module, which are
what the code guarantees of its inputs: sets are finite where a map or a list of the
program holds them, a layout sends every key to a shard, lengths are natural numbers.
Caps may be negative, bounds arbitrary. The bounds of the models (`MaxLen`, `MaxCrashes`,
`MaxGen`, `MaxTime`) are constants like the others, so the theorems hold for any of them.

| Module | Theorem | Property |
|---|---|---|
| `RAMTierProofs` | `TierSoundTheorem`, `Refinement` | `TierSound`, `ImplementsTier` |
| `DiskTierProofs` | `RecoversTheorem` | `Recovers` (run `storage`, as `DiskRecovers`) |
| `DiskTierProofs` | `BlobsOwnedTheorem`, `DiskRefinement` | `BlobsOwned`, `ImplementsTier`, of one process |
| `StoreProofs` | `OneNewestCopyTheorem`, `NewestResidentTheorem` | `OneNewestCopy`, `NewestResident` |
| `LookupProofs` | `SingleFlightTheorem` | `SingleFlight` |
| `LookupProofs` | `PruneOnlyDeadTheorem`, `ClassifyIsPairTheorem` | `PruneOnlyDead`, `ClassifyIsPair` |
| `LookupProofs` | `BanHoldsTheorem` | `Freshness`'s `BanHolds` (run `storage`, through its own instance of the module) |
| `ServeProofs` | `CacheShareableTheorem` | `CacheShareable` |
| `ServeProofs` | `WritesAndPurgesHoldTheorem` | `WritesAndPurgesHold` |
| `ServeProofs` | `WritesReachOriginTheorem`, `ImplementsCoalesce` | no write is answered from the cache unless its own fetch failed; the refinement |
| `ControlProofs` | `LiveServesTheorem` | `LiveServes` |
| `ControlProofs` | `ChainBodies`, `ChainNegative`, `ChainBodyOnce` | the three parts of `ChainBodiesOwned` |
| `ControlProofs` | `ClusterHopsOnce`, `ClusterOwnerStores` | the two parts of `HopsOnceToOwner` |
| `ControlProofs` | `TunnelGauge` | the safety part of `TunnelsEnd` |
| `NetworkProofs` | `PoolSoundTheorem`, `PoolFollowsAnswersTheorem` | `PoolSound`, `PoolFollowsAnswers` |
| `NetworkProofs` | `GeoMapped`, `AuditHeld`, `HubRecords` | the three parts of `HandedOverHeld` |
| `NetworkProofs` | `CertificateSwaps`, `CertificateRedirects` | the two parts of `CertificatesWhole` |
| `NetworkProofs` | `CertificateOrders`, `RateLimited` | two parts of `LimitsKept` |

A run with several parts states a part's property through an instance of its module, and a
theorem states it of the component's own specification, with any number of nodes, requests,
records or changes.

**RAM tier.** The invariant `IInv` adds two facts to the types and the shards' accounts.
`WriterInv`: a writer has charged exactly what it buffers, and a writer about to swap has
seen a total that leaves room. `LockInv`: a commit in its sweep holds its shard's lock, has
taken out the entry it replaces and writes an object the shard can hold. From these a
successful swap stays within the budget, because the total has not moved. A shard's
byte count is the cardinality of the set of its residents' bytes (`TierData`), so that an
insertion or removal is a fact about finite sets.

**Disk tier.** `IInv` has a conjunct per place where a crash or another goroutine may cut in.
`LockInv` is as above. `SizeInv`: an entry and the blob at its path have one length in
every phase, which a load needs. `TempInv`: temp files belong to active writers once the
reaper ran, or their remove failed. `ListInv` and `LoadInv`: the keys of a listing are distinct, so a load never
meets an entry twice. `ResetInv`: a reset that cleared a shard leaves it empty. `FlushInv`
is the heart of `CleanMeansPersisted`: the entries of a clean shard are listed in the index,
or in the snapshot, or in the temp file, according to where the flush is. A flush that
failed makes all shards dirty again. `Crash` keeps the directory only, and the invariant
says enough about it to open the tier again. For one process `OneInv` adds that nothing was
loaded and that a blob is the object its entry names, or is gone, or has no entry because
its remove failed. From it follow
`BlobsOwned`, and that every step is an install, a discard or a drop of `Tier`. After a crash
both fail, for the reason given in section 5.

**Store.** `Superseded`: a copy in one tier is older than an installed copy of its key only
if that one went to the other tier and its delete is due. `Held`: a tier holds what was
installed in it. `ReaderInv`: a lookup on its way to the disk tier will find nothing older
than its floor. `KeptInv`, for `NewestResident`: unless an overlap, an eviction or a failed
commit excuses the key, its newest copy is in a tier and the only delete due is its own.

**Freshness index.** `IInv`: a call that runs read the clock at most `MaxStall` ago; an entry
was written by a call that is past its store; windows follow one another. An entry that is
dead at an instant is dead ever after, so a prune on an early clock drops nothing usable.
`BanHoldsTheorem` has three hypotheses, and section 5 says what happens without them: the
ban list has room (`RoomForBans`), no window is wider than the widest known, and a call takes
no longer than that window between its look at the clock and its lock (`WindowsKnown`). Its
invariant `DoomedInv` says that an entry a ban invalidated is still banned, or ended before
the clock of any running call. The argument is the code's factor two: a ban leaves the list
at twice the widest window, an entry it covers ends within one, and the other one outlasts
every call that read its clock before. `MCStorage` assumes the same of its constants.

**Coalescer.** The four invariants are inductive together. The map tells a waiter who its
winner is, and the stages tell how many tokens are out. Counts are cardinalities.

**Load balancer.** `RequestInv` (a request holds one backend at a time and has tried what it
was sent to), `CapacityInv` (counters and tokens are the holders) and `RoundInv` (a round
under way has gathered what its targets answered, unless a change or a poke is pending).
`PoolFollowsAnswers` is an action property and follows from `RoundInv` step by step.

**Request lifecycle.** `FetchInv`: a fetch goes on towards its commit only with a whole body
it may store, and a copy in the store is one whose fetch committed. `ReplyInv`: where a
request is tells where its answer came from. `CInv`: what the coalescer's maps say about the
fetches. These give `CacheShareable` and, whatever the store does, that no write is answered
from the cache unless its own fetch failed first. The calls to the coalescer are shown to be
steps of `Coalesce`, so the theorems about it hold inside the handler. For invalidation
`DoomInv` says that while an invalidated copy is in the store no entry describes it, no fetch
is about to announce it and no later request is about to read it. A refused commit ends this
for the copy that is there (`Announced`), and the fetch that made it goes on to mark the key.

**Reload.** Zero downtime needs to know why a late teardown cannot close a store in use.
`KeepInv`: a configuration waiting for its grace was given a keep set that holds every store
it shares with the generation that serves or the one being applied. A later reload cannot add
to what is shared, because stores are handed on only from the serving generation: what it has
in common with the waiting one is in the keep set already. `ConfigInv` and `ApplyInv` say
what a configuration refers to and which one routes at each statement of `ApplyConfig`;
`UpInv` is the conclusion for both generations.

**Chain.** `ChainInv`: while the chain goes on, the bodies open are the ones it holds, they
came from origins it has left, and a request with a body was read by none of them. Any number
of origins and any set of statuses.

**Cluster.** `TaskOK`: a forwarded request is known as one, was sent by a client's request at
another node and is not forwarded again. `AtOwner`, until a view changes or an exchange fails:
a request is looked up and fetched at the intended owner only. `RingAssumption`: the ring
lists every node.

**Tunnel.** `TunnelOK` follows `closeOnce`: one caller is in it, from then on the timer stays
stopped although late bytes may try to reset it, and the connection is closed before the
gauge is lowered. The gauge is then the cardinality of the tunnels counted, which are finitely
many.

**Geo database.** `LockInv`: a writer alone, or readers only, hold the lock; a lookup that
decodes holds the reader in use. `OwnInv`: what is mapped is the reader in use or one that a
writer is about to unmap. `GeoCalls`: a call is one of lookup, reload and close.

**Certificates.** A request carries what happened while it ran: whether the dynamic set
covered its name throughout, and whether its name had a certificate at some moment. `Decided`
and `Aware` relate these to where the request stands between its reads of the gate, the set
and the disk. `BudgetInv` counts the handshakes that hold a token of the issuance limiter.
`KeypairAssumption`: a source is a list of keypairs.

**Rate limiter.** `BucketOK`: tokens in a bucket and tokens it has given never exceed its
capacity and what its rate earned since it was made. A request that read its clock before
another one refilled adds nothing, because the refill never goes backwards. The wait it is
told, rounded up, earns the token that is missing.

**Sinks.** `AuditInv`: the records written, in the writer's hand and queued are in the order
they came, and with those dropped and refused they are all there are. `HubInv`: a consumer is
attached exactly while it is not off, and then what it got, has queued and lost adds up to
what was published since.

Proofs use Zenon by default (sets, functions, records as functions on a fixed set of fields)
and cite `SMT` or `Z3` where arithmetic or sequences are needed.

### Only model-checked

* Liveness (`CommitTerminates`, `IndexCatchesUp`, `CallsEnd`, `DeadReclaimed`, `Answered`,
  `EveryClientAnswered`, `Reclaimed`, `ControllersConverge`, `TunnelsEnd`): fairness and ENABLED
  are beyond the prover.
* The pure algorithms of `Cadishfile`, `SiteBody`, `KeyText`, `JSONField`, `Deliver`, `Ingress`,
  `Gateway` and `Decision`: they are recursive over their input, and induction over data is
  beyond the prover. The same holds for the sums of `Router` (`PlacedWhereItFits`), the
  lists of addresses `ClientAddress` filters (`AddressAttested`) and the health verdict over a
  window of probes (a part of `LimitsKept`).
* `EdgeKept` and `EdgeAsReported` of `EdgeDeploy`, and the scan bound of `IdleSweeper` (a part
  of `LimitsKept`): checked on their instances and not proved.

## 7. What is not modelled

Contents of bodies, headers that no rule reads, log and metric text, real time (instants are
numbers, timers are steps), and the memory model below a lock or an atomic operation. Maps
are functions, so Go's iteration order is a choice where the code depends on it. Sockets,
the file system, the Kubernetes API, the ACME server, the edge provider and the geo file are
environments with the failures the code handles. The packages named in section 1 are left
out: they compute text from text or are glue around a library.
