------------------------------ MODULE Cluster ------------------------------
(* One cacheable object in a region of cadish nodes: ownership routing        *)
(* (internal/server/cluster.go), peer read-through (origin/peerorigin, chained*)
(* before the real origin by config/cluster.go) and the request coalescing of *)
(* every node (serveMiss), which the forwarded requests take part in.         *)
(*                                                                            *)
(* A task is one request at one node: a client's, or one a peer forwarded.    *)
(* Every node has the same ring but its own view of who is healthy.           *)
EXTENDS Integers, FiniteSets

CONSTANTS Nodes,
          RingOrder,    \* the nodes in the order the ring walk of the key meets them
          MaxClients,   \* bound on the client requests of a behaviour
          MaxTasks,     \* bound on all its requests, the forwarded ones included
          MaxFlaps      \* bound on the changes of a health view

Tasks == 1..MaxTasks
Modes == {"read_through", "owner"}
Fallbacks == {"degraded", "strict"}

VARIABLES
    mode, fallback, \* the cluster block's policy, the same on every node
    view,           \* view[n]: the peers that node n's peer pool finds eligible
    flaps,
    task,           \* the requests made so far
    flight,         \* flight[n]: the task leading the fetch at n, 0 if none
    cached,         \* the nodes that store the object
    calm            \* no view changed and no peer exchange failed yet

vars == <<mode, fallback, view, flaps, task, flight, cached, calm>>

Unused == [at |-> "none", parent |-> 0, hop |-> FALSE, pc |-> "unused",
           lead |-> 0, tried |-> {}]

Init ==
    /\ mode \in Modes /\ fallback \in Fallbacks
    /\ mode = "read_through" => fallback = "degraded"
    /\ view = [n \in Nodes |-> Nodes] /\ flaps = 0
    /\ task = [t \in Tasks |-> Unused]
    /\ flight = [n \in Nodes |-> 0] /\ cached = {} /\ calm = TRUE

\* ring.lookup: the first node of the walk among those eligible, "none" without one.
Walk(eligible) ==
    LET at == {j \in DOMAIN RingOrder : RingOrder[j] \in eligible}
    IN  IF at = {} THEN "none" ELSE RingOrder[CHOOSE j \in at : \A k \in at : j <= k]

\* Mutant: a node that finds itself healthy takes every key.
SelfFirst(n) == IF n \in view[n] THEN n ELSE Walk(view[n])

\* Membership.Owner and IntendedOwner, as node n sees them.
Owner(n) == Walk(view[n])
IntendedOwner == Walk(Nodes)

Fresh == {t \in Tasks : task[t].pc = "unused"}
NextTask == CHOOSE t \in Fresh : \A s \in Fresh : t <= s
Live(t) == task[t].pc \notin {"unused", "done", "failed"}
Children(t) == {s \in Tasks : task[s].parent = t /\ task[s].pc # "unused"}
\* The exchange a task waits for.
Waited(t) == CHOOSE s \in Children(t) : \A u \in Children(t) : u <= s

NewTask(n, parent) ==
    [Unused EXCEPT !.at = n, !.parent = parent, !.hop = parent # 0, !.pc = "route"]
To(t, pc) == [task EXCEPT ![t].pc = pc]
\* The task ends; the flight it leads ends with it.
Ended(t, pc) ==
    /\ task' = [task EXCEPT ![t].pc = pc, ![t].tried = {}, ![t].lead = 0]
    /\ flight' = [n \in Nodes |-> IF flight[n] = t THEN 0 ELSE flight[n]]

Arrive(n) ==
    /\ Fresh # {}
    /\ Cardinality({t \in Tasks \ Fresh : task[t].parent = 0}) < MaxClients
    /\ task' = [task EXCEPT ![NextTask] = NewTask(n, 0)]
    /\ UNCHANGED <<mode, fallback, view, flaps, flight, cached, calm>>

\* Mutant: a forwarded request is routed like a client's.
ForgetHop(t) == FALSE

\* IsForwardedHop: the peers are trusted and share the region, so the header stays.
IsForwardedHop(t) == task[t].hop

\* The owner clusterRoute proxies to: the healthy one; without any, and unless the
\* fallback is strict, the one the ring intends.
RouteTarget(t) ==
    LET n == task[t].at
    IN  IF IsForwardedHop(t) \/ mode # "owner" THEN n
        ELSE IF Owner(n) # "none" THEN Owner(n)
        ELSE IF fallback = "strict" THEN n ELSE IntendedOwner

\* clusterRoute: serve here, or proxyToPeer.
Route(t) ==
    LET n == task[t].at
    IN  /\ task[t].pc = "route"
        /\ \/ RouteTarget(t) = n /\ task' = To(t, "lookup")
           \/ /\ RouteTarget(t) # n /\ Fresh # {}
              /\ task' = [To(t, "proxy") EXCEPT ![NextTask] = NewTask(RouteTarget(t), t)]
        /\ UNCHANGED <<mode, fallback, view, flaps, flight, cached, calm>>

\* serveMiss: a hit is served; else enter the coalescer and lead or wait.
Lookup(t) ==
    LET n == task[t].at
    IN  /\ task[t].pc = "lookup"
        /\ \/ n \in cached /\ task' = To(t, "done") /\ UNCHANGED flight
           \/ /\ n \notin cached /\ flight[n] = 0
              /\ flight' = [flight EXCEPT ![n] = t] /\ task' = To(t, "fetch")
           \/ /\ n \notin cached /\ flight[n] # 0
              /\ task' = [task EXCEPT ![t].pc = "wait", ![t].lead = flight[n]]
              /\ UNCHANGED flight
        /\ UNCHANGED <<mode, fallback, view, flaps, cached, calm>>

\* A waiter is woken by the end of the flight: the cache, or a fetch of its own.
Woken(t) ==
    LET n == task[t].at
    IN  /\ task[t].pc = "wait" /\ flight[n] # task[t].lead
        /\ task' = [task EXCEPT ![t].lead = 0, ![t].pc =
                       IF task[task[t].lead].pc = "done" /\ n \in cached THEN "done" ELSE "fetch"]
        /\ UNCHANGED <<mode, fallback, view, flaps, flight, cached, calm>>

\* PeerOrigin.Fetch up to its self guard; outside read-through mode the site's
\* origin is the real one.
PeerGuard(t) ==
    LET n == task[t].at
    IN  /\ task[t].pc = "fetch"
        /\ task' = To(t, IF mode # "read_through" \/ task[t].hop \/ Owner(n) = n
                         THEN "origin" ELSE "pick")
        /\ UNCHANGED <<mode, fallback, view, flaps, flight, cached, calm>>

\* Mutant: the pick may take any eligible peer, this node included.
AnyPeer(t) == view[task[t].at] \ task[t].tried

\* The peers pick may take: eligible, not tried, not excluded by WithExcludeBaseURL.
Pickable(t) == view[task[t].at] \ (task[t].tried \cup {task[t].at})

\* The pool's pick: forward to the peer, or fall through to the origin.
PeerPick(t) ==
    LET p == Walk(Pickable(t))
    IN  /\ task[t].pc = "pick"
        /\ \/ p = "none" /\ task' = [To(t, "origin") EXCEPT ![t].tried = {}]
           \/ /\ p # "none" /\ Fresh # {}
              /\ task' = [task EXCEPT ![t].pc = "peer", ![t].tried = @ \cup {p},
                                      ![NextTask] = NewTask(p, t)]
        /\ UNCHANGED <<mode, fallback, view, flaps, flight, cached, calm>>

\* The peer answered.  A read-through answer is stored here; after an error the
\* pool tries another peer (5xx), the chain the origin (404), or neither (another
\* status); a proxied answer of any status is passed on.
PeerAnswered(t) ==
    /\ task[t].pc \in {"peer", "proxy"}
    /\ LET s == Waited(t)
       IN  \/ /\ task[s].pc = "done" /\ task[t].pc = "peer"
              /\ cached' = cached \cup {task[t].at} /\ Ended(t, "done")
           \/ /\ task[s].pc = "failed" /\ task[t].pc = "peer"
              /\ \/ \E pc \in {"pick", "origin"} :
                    /\ task' = [To(t, pc) EXCEPT ![t].tried = IF pc = "pick" THEN @ ELSE {}]
                    /\ UNCHANGED flight
                 \/ Ended(t, "failed")
              /\ UNCHANGED cached
           \/ /\ task[s].pc \in {"done", "failed"} /\ task[t].pc = "proxy"
              /\ Ended(t, task[s].pc) /\ UNCHANGED cached
    /\ UNCHANGED <<mode, fallback, view, flaps, calm>>

\* Mutant: only a refused connection, not a silent peer, ends the exchange.
OnlyRefused(t) == task[t].pc \in {"peer", "proxy"} /\ task[Waited(t)].pc = "route"

\* An exchange that fails before its headers: refused, cut, or ResponseHeaderTimeout.
ExchangeFails(t) == task[t].pc \in {"peer", "proxy"} /\ Live(Waited(t))

\* The pool fails over to another peer and then the chain to the origin; a proxied
\* request is served here.
PeerFailed(t) ==
    /\ ExchangeFails(t)
    /\ task' = To(t, IF task[t].pc = "peer" THEN "pick" ELSE "lookup")
    /\ calm' = FALSE
    /\ UNCHANGED <<mode, fallback, view, flaps, flight, cached>>

\* A request whose caller went away: its context is done and it ends unanswered.
Abandoned(t) ==
    LET p == task[t].parent
    IN  /\ p # 0 /\ Live(t)
        /\ task[p].pc \notin {"peer", "proxy"} \/ Waited(p) # t
        /\ Ended(t, "failed")
        /\ UNCHANGED <<mode, fallback, view, flaps, cached, calm>>

\* The real origin answers: an object, which is stored, or an error.
OriginAnswers(t, ok) ==
    /\ task[t].pc = "origin"
    /\ cached' = IF ok THEN cached \cup {task[t].at} ELSE cached
    /\ Ended(t, IF ok THEN "done" ELSE "failed")
    /\ UNCHANGED <<mode, fallback, view, flaps, calm>>

\* Probes and passive health change what one node thinks of one peer.
Flap(n, p) ==
    /\ flaps < MaxFlaps /\ flaps' = flaps + 1 /\ calm' = FALSE
    /\ view' = [view EXCEPT ![n] = IF p \in @ THEN @ \ {p} ELSE @ \cup {p}]
    /\ UNCHANGED <<mode, fallback, task, flight, cached>>

\* What the node that holds the task does with it.
Step(t) ==
    \/ Route(t) \/ Lookup(t) \/ Woken(t) \/ PeerGuard(t) \/ PeerPick(t)
    \/ PeerAnswered(t) \/ Abandoned(t)
    \/ \E ok \in BOOLEAN : OriginAnswers(t, ok)

Next ==
    \/ \E n \in Nodes : Arrive(n)
    \/ \E t \in Tasks : Step(t) \/ PeerFailed(t)
    \/ \E n, p \in Nodes : Flap(n, p)

Spec == Init /\ [][Next]_vars

\* The task copies an answer to its own client, at the client's pace: the server sets no
\* write deadline.
Copying(t) == \/ task[t].pc = "origin"
              \/ task[t].pc \in {"peer", "proxy"} /\ ~Live(Waited(t))

\* Handlers run, so every other step of a task is taken; and ResponseHeaderTimeout ends
\* an exchange that stays silent.
FairSpec == Spec /\ \A t \in Tasks : WF_vars(Step(t) /\ ~Copying(t)) /\ WF_vars(PeerFailed(t))

\* Assumption: every client reads its answer or goes away.
ClientsRead == \A t \in Tasks : []<>~Copying(t)
-----------------------------------------------------------------------------
(* Properties.                                                                *)

\* A key hops at most once, and never to the node it is at: clusterRoute's hop
\* guard, PeerOrigin's loop guard and WithExcludeBaseURL, whatever the views of the
\* nodes are and however they change between PeerOrigin's guard and the pool's pick.
ForwardedOnce ==
    \A t \in Tasks : task[t].parent # 0 =>
        LET p == task[task[t].parent] IN p.parent = 0 /\ p.at # task[t].at

\* Cached once per region: in owner mode, as long as no view changed and no exchange
\* between nodes failed, only the key's owner stores the object.
OwnerOnlyStores == (mode = "owner" /\ calm) => cached \subseteq {IntendedOwner}

\* Two nodes whose flights wait for each other (each thinks the other owns the key)
\* do not wait for ever: once the clients stop, every one of them is answered, as long as
\* the clients whose requests lead a flight take their own answers.
EveryClientAnswered == ClientsRead => <>[](\A t \in Tasks : task[t].pc \in {Unused.pc, "done", "failed"})
=============================================================================
