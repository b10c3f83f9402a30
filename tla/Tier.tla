-------------------------------- MODULE Tier --------------------------------
(* What one cache tier promises its users (interface Tier and TierWriter of   *)
(* internal/cache/cache.go), with no word on shards, budgets or eviction      *)
(* order: a lookup of a key answers the object last installed under it, or    *)
(* nothing.  An object is installed at most once; a copy that was replaced,   *)
(* evicted or deleted never comes back.                                       *)
CONSTANTS Keys, Objects, None

VARIABLES contents,   \* what Get answers for each key: an object or None
          unborn      \* the objects no writer has committed or given up yet

vars == <<contents, unborn>>

Init ==
    /\ contents = [k \in Keys |-> None]
    /\ unborn = Objects

\* A commit that installed its object.
Install(k, o) ==
    /\ o \in unborn
    /\ contents' = [contents EXCEPT ![k] = o]
    /\ unborn' = unborn \ {o}

\* A write that was refused (too large, over budget), or aborted.
Discard(o) ==
    /\ o \in unborn
    /\ unborn' = unborn \ {o}
    /\ UNCHANGED contents

\* Eviction, Delete, Reset: any set of keys stops being resident.
Drop(S) ==
    /\ contents' = [k \in Keys |-> IF k \in S THEN None ELSE contents[k]]
    /\ UNCHANGED unborn

Next ==
    \/ \E o \in Objects : Discard(o) \/ \E k \in Keys : Install(k, o)
    \/ \E S \in SUBSET Keys : Drop(S)

Spec == Init /\ [][Next]_vars
=============================================================================
