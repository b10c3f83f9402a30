------------------------------ MODULE MCLookup ------------------------------
(***************************************************************************)
(* What a lookup goes through before and after the store: the freshness     *)
(* tracker with its sweeper, and the coalescing of fetches.  A behaviour is *)
(* one of a single part; the other part rests in its initial state.         *)
(***************************************************************************)
EXTENDS Coalesce, Freshness

CONSTANT k1

VARIABLE part

MCShardOf == [k \in Keys |-> k]

\* With and without grace and max_stale; the widest spans three instants.
MCWindows == {[ttl |-> 1, grace |-> 0, maxStale |-> 0], [ttl |-> 1, grace |-> 1, maxStale |-> 1]}

\* What the theorems about the tracker take the constants to be.
ASSUME TrackerAssumptions == FreshnessAssumptions

\* The calls are alike and each is made once: they are made in order.
TrackerNext ==
    Next /\ \A c \in Calls : (pc[c] = "idle" /\ pc'[c] # "idle") => \A d \in Calls : d < c => pc[d] # "idle"

allVars == <<part, coalescerVars, vars>>

Coalescing(A) == part = "coalesce" /\ A /\ UNCHANGED <<part, vars>>
Tracking(A) == part = "tracker" /\ A /\ UNCHANGED <<part, coalescerVars>>

MCInit ==
    /\ CoalesceInit /\ Init
    /\ \/ part = "coalesce"
       \/ part = "tracker" /\ key = [r \in Requests |-> k1]
MCNext == Coalescing(CoalesceNext) \/ Tracking(TrackerNext)

\* Goroutines go on; a fetch ends when its client lets it.  The sweeper's ticker keeps
\* firing, time passes and calls end; nobody needs to call.
MCSpec ==
    /\ MCInit /\ [][MCNext]_allVars
    /\ \A r \in Requests : WF_allVars(Coalescing(Progress(r)))
    /\ WF_allVars(Tracking(Tick))
    /\ WF_allVars(Tracking(Sweep))
    /\ \A c \in Calls : WF_allVars(Tracking(Locked(c)))
=============================================================================
