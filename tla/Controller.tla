------------------------------ MODULE Controller ------------------------------
(***************************************************************************)
(* The reconcile loop the Ingress and the Gateway controllers share        *)
(* (ingress/controller.go, gateway/controller.go): informer caches that    *)
(* lag the cluster, the one-slot change channel, the debounce timer, one   *)
(* reconcile at a time, salvage of sites that do not compile, a failing    *)
(* ApplyConfig, and the status only a leader writes.                       *)
(*                                                                         *)
(* cluster is what the API server holds (the sites its objects ask for and *)
(* the version of a TLS Secret), cache what the informers have delivered;  *)
(* modules Ingress and Gateway say which site an object becomes.           *)
(***************************************************************************)
EXTENDS Integers

CONSTANTS
    Sites,          \* sites the cluster's objects may ask for
    Broken,         \* those that do not compile (their policy fragment collides)
    MaxChanges,     \* bound on cluster, base and leadership changes together
    MaxFaults       \* bound on failing ApplyConfig and UpdateStatus calls

VARIABLES
    kind,           \* "ingress" or "gateway"
    cluster, cache, \* [sites, rev, secret]: rev and secret are resource versions
    notify,         \* an informer handler has not run yet
    changes,        \* c.changes holds a token
    timer,          \* the debounce timer is armed
    pc, snap, seen, \* the reconcile in progress, the text it renders, the rev it listed
    base,           \* "ok" or "bad": the globals-only Cadishfile
    lastGood, lastErr, warm,
    live, certs,    \* what the server routes by, and the dynamic certificate it holds
    leader, status, \* isLeader; the sites whose published status is current
    unsent,         \* the updates the last writeStatus (gateway) failed and only logged
    changed, faults

vars == <<kind, cluster, cache, notify, changes, timer, pc, snap, seen, base, lastGood, lastErr,
          warm, live, certs, leader, status, unsent, changed, faults>>

Text(b, s) == [base |-> b, sites |-> s]
Nothing == Text("none", {})

TypeOK ==
    /\ kind \in {"ingress", "gateway"}
    /\ {cluster, cache} \subseteq [sites : SUBSET Sites, rev : 0..MaxChanges, secret : 0..MaxChanges]
    /\ {notify, changes, timer, warm, leader} \subseteq BOOLEAN
    /\ pc \in {"idle", "snapshot", "inject", "compare", "status"}
    /\ {snap, lastGood, live} \subseteq [base : {"none", "ok", "bad"}, sites : SUBSET Sites]
    /\ lastErr \in {"", "render", "apply"}
    /\ {status, unsent} \subseteq SUBSET Sites

\* Run: the caches have synced, and the first reconcile runs before the loop.
Init ==
    /\ kind \in {"ingress", "gateway"}
    /\ cluster \in [sites : SUBSET Sites, rev : {0}, secret : {0}]
    /\ cache = cluster
    /\ notify = FALSE /\ changes = FALSE /\ timer = FALSE
    /\ pc = "snapshot" /\ snap = Nothing /\ seen = 0
    /\ base = "ok"
    /\ lastGood = Nothing /\ lastErr = "" /\ warm = FALSE
    /\ live = Nothing /\ certs = -1
    /\ leader = FALSE /\ status = {} /\ unsent = {}
    /\ changed = 0 /\ faults = 0

loop == <<timer, pc, snap, seen>>
server == <<live, certs>>
record == <<lastGood, lastErr, warm>>

------------------------------------------------------------------------------
(* The cluster and its informers (external) *)

EditSites ==
    /\ changed < MaxChanges
    /\ changed' = changed + 1
    /\ \E s \in SUBSET Sites :
          /\ s # cluster.sites
          /\ cluster' = [cluster EXCEPT !.sites = s, !.rev = @ + 1]
          /\ status' = status \intersect s \intersect cluster.sites
    /\ UNCHANGED <<kind, cache, notify, changes, loop, base, record, server, leader, faults, unsent>>

RotateSecret ==
    /\ changed < MaxChanges
    /\ changed' = changed + 1
    /\ cluster' = [cluster EXCEPT !.secret = @ + 1]
    /\ UNCHANGED <<kind, cache, notify, changes, loop, base, record, server, leader, status, faults, unsent>>

\* One informer's store is brought up to date; its handler runs later.
Deliver ==
    /\ \/ cache.rev # cluster.rev /\ cache' = [cluster EXCEPT !.secret = cache.secret]
       \/ cache.secret # cluster.secret /\ cache' = [cache EXCEPT !.secret = cluster.secret]
    /\ notify' = TRUE
    /\ UNCHANGED <<kind, cluster, changes, loop, base, record, server, leader, status, changed, faults, unsent>>

\* AddFunc, UpdateFunc, DeleteFunc: poke.
Notify ==
    /\ notify
    /\ notify' = FALSE
    /\ changes' = TRUE
    /\ UNCHANGED <<kind, cluster, cache, loop, base, record, server, leader, status, changed, faults, unsent>>

\* UpdateBase (SIGHUP).
UpdateBase ==
    /\ changed < MaxChanges
    /\ changed' = changed + 1
    /\ base' \in {"ok", "bad"} \ {base}
    /\ changes' = TRUE
    /\ UNCHANGED <<kind, cluster, cache, notify, loop, record, server, leader, status, faults, unsent>>

------------------------------------------------------------------------------
(* status.go: leadership *)

\* Mutant: the new leader waits for the next change.
NoPoke == changes

\* onAcquiredLeadership pokes in the gateway; the ingress writer has a ticker instead.
AfterAcquiring == changes \/ kind = "gateway"

OnAcquiredLeadership ==
    /\ ~leader
    /\ changed < MaxChanges
    /\ changed' = changed + 1
    /\ leader' = TRUE
    /\ changes' = AfterAcquiring
    /\ UNCHANGED <<kind, cluster, cache, notify, loop, base, record, server, status, faults, unsent>>

OnStoppedLeading ==
    /\ leader
    /\ changed < MaxChanges
    /\ changed' = changed + 1
    /\ leader' = FALSE
    /\ UNCHANGED <<kind, cluster, cache, notify, changes, loop, base, record, server, status, faults, unsent>>

\* An update from a stale copy of an object is refused; a successful one is an event.
\* A rev behind the cluster's may be stale for any of the sites.
Publish(sites, rev) ==
    LET due == {s \in sites : s \in cluster.sites /\ s \notin status}
    IN  \E written \in SUBSET due :
          /\ rev = cluster.rev => written = due
          /\ status' = status \union written
          /\ notify' = (notify \/ written # {})

\* statusWriter.sync (ingress), on the leader's ticker: it lists the API server itself,
\* and an update that fails or is overtaken by an edit waits for the next tick.
StatusTick ==
    /\ kind = "ingress" /\ leader
    /\ cluster.sites \ status # {}
    /\ \/ Publish(cluster.sites, cluster.rev) /\ UNCHANGED faults
       \/ /\ faults < MaxFaults
          /\ faults' = faults + 1
          /\ Publish(cluster.sites, -1)
    /\ UNCHANGED <<kind, cluster, cache, changes, loop, base, record, server, leader, changed, unsent>>

------------------------------------------------------------------------------
(* Run's loop *)

\* A change pushes the deadline out.
TakeChange ==
    /\ pc = "idle" /\ changes
    /\ changes' = FALSE
    /\ timer' = TRUE
    /\ UNCHANGED <<kind, cluster, cache, notify, pc, snap, seen, base, record, server, leader, status, changed, faults, unsent>>

Fire ==
    /\ pc = "idle" /\ timer
    /\ timer' = FALSE
    /\ pc' = "snapshot"
    /\ UNCHANGED <<kind, cluster, cache, notify, changes, snap, seen, base, record, server, leader, status, changed, faults, unsent>>

\* reconcile lists the objects and reads the base.
Snapshot ==
    /\ pc = "snapshot"
    /\ snap' = Text(base, cache.sites)
    /\ seen' = cache.rev
    /\ pc' = "inject"
    /\ UNCHANGED <<kind, cluster, cache, notify, changes, timer, base, record, server, leader, status, changed, faults, unsent>>

\* Mutant: certificates are injected only when the routing changes.
InjectIfChanged == snap # lastGood

\* Injection runs on every reconcile, before the no-op check.
InjectAlways == TRUE

Inject ==
    /\ pc = "inject"
    /\ certs' = IF InjectAlways THEN cache.secret ELSE certs
    /\ pc' = "compare"
    /\ UNCHANGED <<kind, cluster, cache, notify, changes, timer, snap, seen, base, record, live, leader, status, changed, faults, unsent>>

Compiles(t) == t.base = "ok" /\ t.sites \intersect Broken = {}

\* salvageCompile: the sites that compile alone, with the same base.
Salvaged(t) == Text(t.base, {s \in t.sites : Compiles(Text(t.base, {s}))})

\* What is applied in place of t.
Applied(t) == IF Compiles(t) THEN t ELSE Salvaged(t)

\* The gateway writes status on its way out of every reconcile.
Finish == pc' = IF kind = "gateway" THEN "status" ELSE "idle"

Noop ==
    /\ pc = "compare" /\ snap = lastGood
    /\ lastErr' = IF kind = "ingress" THEN "" ELSE lastErr
    /\ warm' = TRUE
    /\ Finish
    /\ UNCHANGED <<kind, cluster, cache, notify, changes, timer, snap, seen, base, lastGood, server, leader, status, changed, faults, unsent>>

\* Not even the salvaged text compiles: the last good configuration stays.
RenderFails ==
    /\ pc = "compare" /\ snap # lastGood
    /\ ~Compiles(Applied(snap))
    /\ lastErr' = "render"
    /\ Finish
    /\ UNCHANGED <<kind, cluster, cache, notify, changes, timer, snap, seen, base, lastGood, warm, server, leader, status, changed, faults, unsent>>

Apply ==
    /\ pc = "compare" /\ snap # lastGood
    /\ Compiles(Applied(snap))
    /\ live' = Applied(snap)
    /\ lastGood' = Applied(snap)
    /\ lastErr' = ""
    /\ warm' = TRUE
    /\ Finish
    /\ UNCHANGED <<kind, cluster, cache, notify, changes, timer, snap, seen, base, certs, leader, status, changed, faults, unsent>>

ApplyFails ==
    /\ pc = "compare" /\ snap # lastGood
    /\ Compiles(Applied(snap))
    /\ faults < MaxFaults
    /\ faults' = faults + 1
    /\ lastErr' = "apply"
    /\ Finish
    /\ UNCHANGED <<kind, cluster, cache, notify, changes, timer, snap, seen, base, lastGood, warm, server, leader, status, changed, unsent>>

\* writeStatus (gateway), from the objects this reconcile listed. An update that fails is
\* logged and nothing asks for it again: informers that resync at 0 bring no event.
WriteStatus ==
    /\ pc = "status"
    /\ pc' = "idle"
    /\ \/ /\ leader
          /\ Publish(snap.sites, seen)
          /\ unsent' = {}
          /\ UNCHANGED faults
       \/ /\ leader /\ seen = cluster.rev /\ cluster.sites \ status # {}
          /\ faults < MaxFaults
          /\ faults' = faults + 1
          /\ Publish(snap.sites, -1)
          /\ unsent' = cluster.sites \ status'
       \/ ~leader /\ UNCHANGED <<status, notify, unsent, faults>>
    /\ UNCHANGED <<kind, cluster, cache, changes, timer, snap, seen, base, record, server, leader, changed>>

Next ==
    \/ EditSites \/ RotateSecret \/ Deliver \/ Notify \/ UpdateBase
    \/ OnAcquiredLeadership \/ OnStoppedLeading \/ StatusTick
    \/ TakeChange \/ Fire \/ Snapshot \/ Inject
    \/ Noop \/ RenderFails \/ Apply \/ ApplyFails \/ WriteStatus

\* The informers deliver, their handlers run, the loop and the ticker make progress.
Loop == TakeChange \/ Fire \/ Snapshot \/ Inject \/ Noop \/ RenderFails \/ Apply \/ ApplyFails \/ WriteStatus
Fairness == WF_vars(Deliver) /\ WF_vars(Notify) /\ WF_vars(StatusTick) /\ WF_vars(Loop)

FairSpec == Init /\ [][Next]_vars /\ Fairness

------------------------------------------------------------------------------
\* Once the cluster is left alone, either the server routes by the base and every site
\* the cluster asks for that compiles, or Stats reports the error that prevents it; and
\* the certificate it serves is the Secret's.
RoutingConverges ==
    <>[](/\ lastErr = "" => live = Applied(Text(base, cluster.sites))
         /\ certs = cluster.secret)

\* A replica that stays leader publishes the status of every object, except what the
\* last writeStatus of a gateway failed to send: an update that fails for another reason
\* than a stale copy stays unsent until something else in the cluster changes.
StatusPublished == <>[]leader => <>[](cluster.sites \ status \subseteq unsent)

===============================================================================
