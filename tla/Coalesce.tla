------------------------------ MODULE Coalesce ------------------------------
(* The two single-flights of the handler (internal/server/coalesce.go and     *)
(* their use in serveMiss and triggerBgFetch, internal/server/handler.go):    *)
(* one origin fetch per key in the foreground, with waiters; one background   *)
(* revalidation per key, and at most BgCap of them in the process.            *)
(*                                                                            *)
(* A fetchCall is created by the request that wins, so it is named by it.     *)
(* A request enters the coalescer at most once and starts at most one         *)
(* background revalidation.  What the fetch does is left to Serve.            *)
EXTENDS Integers, FiniteSets

CONSTANTS Requests, FetchKeys, NoCall,
          BgCap         \* maxConcurrentBgRevalidations

ASSUME CoalesceAssumptions ==
    /\ NoCall \notin Requests /\ IsFiniteSet(Requests)
    /\ BgCap \in Nat \ {0}

VARIABLES
    calls,      \* fetchCoalescer.calls: the call in flight for each key, or NoCall
    closed,     \* the calls whose done channel is closed
    succeeded,  \* the calls whose succeeded flag is set
    role,       \* what each request is to the coalescer
    key, call,  \* the key it entered with and the call it got
    inFlight,   \* singleFlight.inFlight
    sem,        \* tokens in bgSem
    bg          \* where each request's background revalidation is

fetchVars == <<calls, closed, succeeded, role, key, call>>
bgVars == <<inFlight, sem, bg>>
coalescerVars == <<calls, closed, succeeded, role, key, call, inFlight, sem, bg>>

CoalesceInit ==
    /\ calls = [k \in FetchKeys |-> NoCall]
    /\ closed = {} /\ succeeded = {}
    /\ role = [r \in Requests |-> "out"]
    /\ key \in [Requests -> FetchKeys]
    /\ call = [r \in Requests |-> NoCall]
    /\ inFlight = {} /\ sem = 0
    /\ bg = [r \in Requests |-> "none"]
-----------------------------------------------------------------------------
(* The foreground fetch.                                                      *)

\* enter: the first request for the key wins, the others wait for its call.
Enter(r) ==
    LET k == key[r]
    IN  /\ role[r] = "out"
        /\ \/ /\ calls[k] # NoCall
              /\ role' = [role EXCEPT ![r] = "waiter"]
              /\ call' = [call EXCEPT ![r] = calls[k]]
              /\ UNCHANGED calls
           \/ /\ calls[k] = NoCall
              /\ role' = [role EXCEPT ![r] = "winner"]
              /\ call' = [call EXCEPT ![r] = r]
              /\ calls' = [calls EXCEPT ![k] = r]
        /\ UNCHANGED <<closed, succeeded, key, bgVars>>

\* Mutant: a fetch that failed leaves its entry.
ForgetEntry(r, ok) == IF ok THEN [calls EXCEPT ![key[r]] = NoCall] ELSE calls

\* finish, under the lock: the key's entry goes if it is still this call.
Unregistered(r, ok) == IF calls[key[r]] = r THEN [calls EXCEPT ![key[r]] = NoCall] ELSE calls

\* The winner's deferred finish, after a fetch that returned ok or panicked.
Unregister(r, ok) ==
    /\ role[r] = "winner"
    /\ calls' = Unregistered(r, ok)
    /\ role' = [role EXCEPT ![r] = IF ok THEN "finishing" ELSE "failing"]
    /\ UNCHANGED <<closed, succeeded, key, call, bgVars>>

\* Mutant: only a successful winner wakes its waiters.
ClosedOnSuccess(r) == IF role[r] = "finishing" THEN closed \cup {r} ELSE closed

Closed(r) == closed \cup {r}

\* Mutant: a fetch that failed never gets to its close.
CloseOnSuccess(r) ==
    /\ role[r] = "finishing"
    /\ succeeded' = succeeded \cup {r}
    /\ closed' = Closed(r)
    /\ role' = [role EXCEPT ![r] = "left"]
    /\ UNCHANGED <<calls, key, call, bgVars>>

\* finish, after the lock: the verdict, then close(done).
Close(r) ==
    /\ role[r] \in {"finishing", "failing"}
    /\ succeeded' = IF role[r] = "finishing" THEN succeeded \cup {r} ELSE succeeded
    /\ closed' = Closed(r)
    /\ role' = [role EXCEPT ![r] = "left"]
    /\ UNCHANGED <<calls, key, call, bgVars>>

\* A waiter sees done closed and reads the verdict.
Wake(r) ==
    /\ role[r] = "waiter" /\ call[r] \in closed
    /\ role' = [role EXCEPT ![r] = IF call[r] \in succeeded THEN "reader" ELSE "alone"]
    /\ UNCHANGED <<calls, closed, succeeded, key, call, bgVars>>

\* A waiter's client goes away.
Cancel(r) ==
    /\ role[r] = "waiter"
    /\ role' = [role EXCEPT ![r] = "left"]
    /\ UNCHANGED <<calls, closed, succeeded, key, call, bgVars>>

\* The woken waiter: its object is not in the cache after all.
FallThrough(r) ==
    /\ role[r] = "reader"
    /\ role' = [role EXCEPT ![r] = "alone"]
    /\ UNCHANGED <<calls, closed, succeeded, key, call, bgVars>>

\* A woken waiter served from the cache, or its own fetch over.
Leave(r) ==
    /\ role[r] \in {"reader", "alone"}
    /\ role' = [role EXCEPT ![r] = "left"]
    /\ UNCHANGED <<calls, closed, succeeded, key, call, bgVars>>
-----------------------------------------------------------------------------
(* The background revalidation.                                               *)

\* triggerBgFetch: begin; a caller that finds the key in flight does nothing.
Begin(r) ==
    /\ bg[r] = "none"
    /\ IF key[r] \in inFlight
         THEN bg' = [bg EXCEPT ![r] = "over"] /\ UNCHANGED inFlight
         ELSE bg' = [bg EXCEPT ![r] = "begun"] /\ inFlight' = inFlight \cup {key[r]}
    /\ UNCHANGED <<fetchVars, sem>>

\* Mutant: the send blocks nobody because nothing is counted.
NoCap == BgCap + 1

SlotLimit == BgCap

\* The non-blocking send to bgSem.
Admit(r) ==
    /\ bg[r] = "begun"
    /\ IF sem < SlotLimit
         THEN bg' = [bg EXCEPT ![r] = "running"] /\ sem' = sem + 1
         ELSE bg' = [bg EXCEPT ![r] = "refused"] /\ UNCHANGED sem
    /\ UNCHANGED <<fetchVars, inFlight>>

\* revalidate returns.
Revalidated(r) ==
    /\ bg[r] = "running"
    /\ bg' = [bg EXCEPT ![r] = "revalidated"]
    /\ UNCHANGED <<fetchVars, inFlight, sem>>

\* Mutant: a refused revalidation keeps its key.
EndUnlessRefused(r) == IF bg[r] = "refused" THEN inFlight ELSE inFlight \ {key[r]}

Ended(r) == inFlight \ {key[r]}

\* Mutant: a refused caller returns without end.
EndOnlyRevalidated(r) ==
    /\ bg[r] = "revalidated"
    /\ inFlight' = Ended(r)
    /\ bg' = [bg EXCEPT ![r] = "ended"]
    /\ UNCHANGED <<fetchVars, sem>>

\* end, by the caller that was refused or by the goroutine's first defer.
End(r) ==
    /\ bg[r] \in {"refused", "revalidated"}
    /\ inFlight' = Ended(r)
    /\ bg' = [bg EXCEPT ![r] = IF bg[r] = "refused" THEN "over" ELSE "ended"]
    /\ UNCHANGED <<fetchVars, sem>>

\* The goroutine's last defer gives the token back.
Release(r) ==
    /\ bg[r] = "ended"
    /\ sem' = sem - 1
    /\ bg' = [bg EXCEPT ![r] = "over"]
    /\ UNCHANGED <<fetchVars, inFlight>>
-----------------------------------------------------------------------------
\* The end of a fetch, which sends its body to the request's own client on the way.
FetchOver(r) == Leave(r) \/ \E ok \in BOOLEAN : Unregister(r, ok)

Progress(r) ==
    \/ Close(r) \/ Wake(r) \/ FallThrough(r)
    \/ Admit(r) \/ Revalidated(r) \/ End(r) \/ Release(r)

CoalesceNext == \E r \in Requests : Enter(r) \/ Cancel(r) \/ Begin(r) \/ FetchOver(r) \/ Progress(r)

CoalesceSpec == CoalesceInit /\ [][CoalesceNext]_coalescerVars

\* A goroutine that can run does, and a revalidation, which has a deadline and no
\* client, ends.  Requests need not come, clients need not leave, and a fetch need
\* not end: its client may stop reading, and there is no write deadline.
FairCoalesce == CoalesceSpec /\ \A r \in Requests : WF_coalescerVars(Progress(r))
-----------------------------------------------------------------------------
(* Properties.                                                                *)

Roles == {"out", "winner", "finishing", "failing", "waiter", "reader", "alone", "left"}
Stages == {"none", "begun", "refused", "running", "revalidated", "ended", "over"}

\* Every variable has the type its declaration gives it.
CoalesceTypeOK ==
    /\ calls \in [FetchKeys -> Requests \cup {NoCall}]
    /\ closed \in SUBSET Requests /\ succeeded \in SUBSET Requests
    /\ role \in [Requests -> Roles] /\ key \in [Requests -> FetchKeys]
    /\ call \in [Requests -> Requests \cup {NoCall}]
    /\ inFlight \in SUBSET FetchKeys /\ sem \in 0..BgCap
    /\ bg \in [Requests -> Stages]

\* The map and the winners agree: a registered call is being fetched, for that
\* key, and whoever fetches as a winner is registered.  So a key never has two
\* winners, and a panicking winner leaves no entry behind that would make every
\* later request for the key wait for nobody.
CallsAreFetches ==
    \A k \in FetchKeys, r \in Requests : calls[k] = r <=> (role[r] = "winner" /\ key[r] = k)

\* A waiter waits for a call that is in flight, about to be closed or closed,
\* never for one nobody will close.
WaitersHaveAWinner ==
    \A r \in Requests : role[r] = "waiter" =>
        /\ call[r] # NoCall /\ key[call[r]] = key[r]
        /\ \/ role[call[r]] \in {"winner", "finishing", "failing"}
           \/ call[r] \in closed

\* Holding the key, and holding a token.
Holding == {r \in Requests : bg[r] \in {"begun", "refused", "running", "revalidated"}}
Admitted == {r \in Requests : bg[r] \in {"running", "revalidated", "ended"}}

\* Background work is accounted exactly: a key is marked in flight iff one
\* revalidation holds it, and the tokens taken are the goroutines alive, at
\* most BgCap; so no key is locked out for ever and no token leaks.
BackgroundBalanced ==
    /\ inFlight = {key[r] : r \in Holding}
    /\ \A r, q \in Holding : key[r] = key[q] => r = q
    /\ sem = Cardinality(Admitted) /\ sem <= BgCap

\* A key has one winner and its waiters wait for it, and background work holds
\* exactly the keys and tokens of the goroutines alive (fetchCoalescer,
\* singleFlight, triggerBgFetch).
SingleFlight == CoalesceTypeOK /\ CallsAreFetches /\ WaitersHaveAWinner /\ BackgroundBalanced

\* The fetch of every winner ends: its origin answers or fails, and its client reads
\* the body or leaves.
FetchesEnd == \A r \in Requests : []<>(role[r] # "winner")

\* However a winner's fetch ends, in the end nobody waits for it, although others may
\* have won the key since; and once the requests stop the background drains, whether
\* or not fetches end: no key stays in flight and all tokens are back.
CallsEnd ==
    /\ <>[](inFlight = {} /\ sem = 0)
    /\ FetchesEnd => <>[](\A r \in Requests : role[r] # "waiter")
=============================================================================
