---------------------------- MODULE IdleSweeper ----------------------------
(***************************************************************************)
(* The stall watchdog of streamed bodies (internal/server idlereader.go):   *)
(* readers register with one sweeper goroutine, which scans them on a timer *)
(* whose period follows the smallest active timeout.                        *)
(*                                                                          *)
(* Time is counted in units of minSweepInterval.  The goroutines are        *)
(* prompt: time passes only when the loop is in its select with nothing to  *)
(* receive and no caller stands between its unlock and its signal.  The     *)
(* streams are slots that a later request uses again.                       *)
(***************************************************************************)
EXTENDS Integers, FiniteSets

CONSTANTS Readers, Timeout, GlobalIdle, MaxTime

VARIABLES
    now,
    reader,     \* reader -> [st: "none", "open", "stalled"; last: progress stamp]
    active,     \* the registered readers
    counts,     \* timeout value -> number of registered readers that have it
    interval,   \* the desired scan period
    signalling, \* callers that changed the interval and have not signalled yet
    wake,       \* the one-slot wake channel holds a token
    loop        \* [pc, deadline, read]: the run goroutine and its timer
vars == <<now, reader, active, counts, interval, signalling, wake, loop>>

MinSweep == 1
Timeouts == {Timeout[r] : r \in Readers}

SweepIntervalForTimeout(t) == IF t \div 2 < MinSweep THEN MinSweep ELSE t \div 2

Base == SweepIntervalForTimeout(GlobalIdle)

\* recomputeIntervalLocked: the period for the smallest counted timeout.
Wanted(cs) ==
    LET live == {t \in Timeouts : cs[t] > 0}
        m    == CHOOSE t \in live : \A u \in live : t <= u
    IN  IF live = {} \/ SweepIntervalForTimeout(m) >= Base THEN Base
        ELSE SweepIntervalForTimeout(m)

AddLocked(r)    == [counts EXCEPT ![Timeout[r]] = IF r \in active THEN @ ELSE @ + 1]
RemoveLocked(r) == [counts EXCEPT ![Timeout[r]] = IF r \in active THEN @ - 1 ELSE @]

\* Mutant: only a longer period wakes the loop.
ChangedUp(old, new) == new > old
\* The caller signals after its unlock when the period changed.
Changed(old, new) == new # old

Recompute(cs, r) ==
    /\ counts' = cs
    /\ interval' = Wanted(cs)
    /\ signalling' = IF Changed(interval, Wanted(cs)) THEN signalling \cup {r} ELSE signalling

----------------------------------------------------------------------------
\* newIdleTimeoutReader: stamp the clock and register; the first registration
\* starts the loop.
Register(r) ==
    /\ reader[r].st = "none" /\ r \notin signalling
    /\ reader' = [reader EXCEPT ![r] = [st |-> "open", last |-> now]]
    /\ active' = active \cup {r}
    /\ Recompute(AddLocked(r), r)
    /\ loop' = IF loop.pc = "none" THEN [loop EXCEPT !.pc = "start"] ELSE loop
    /\ UNCHANGED <<now, wake>>

\* A Read that returns bytes.
Progress(r) ==
    /\ reader[r].st = "open" /\ reader[r].last < now
    /\ reader' = [reader EXCEPT ![r].last = now]
    /\ UNCHANGED <<now, active, counts, interval, signalling, wake, loop>>

\* A terminal Read error or Close: deregister and close the body.
Finish(r) ==
    /\ reader[r].st # "none" /\ r \notin signalling
    /\ reader' = [reader EXCEPT ![r].st = "none"]
    /\ active' = active \ {r}
    /\ Recompute(RemoveLocked(r), r)
    /\ UNCHANGED <<now, wake, loop>>

\* signalWake, after the unlock.
SignalWake(r) ==
    /\ r \in signalling
    /\ signalling' = signalling \ {r}
    /\ wake' = TRUE
    /\ UNCHANGED <<now, reader, active, counts, interval, loop>>

\* The loop arms its timer in two steps: curInterval under the lock, Reset.
ReadInterval ==
    /\ loop.pc \in {"start", "woken", "swept"}
    /\ loop' = [loop EXCEPT !.pc = "arm", !.read = interval]
    /\ UNCHANGED <<now, reader, active, counts, interval, signalling, wake>>
Arm ==
    /\ loop.pc = "arm"
    /\ loop' = [loop EXCEPT !.pc = "select", !.deadline = now + loop.read]
    /\ UNCHANGED <<now, reader, active, counts, interval, signalling, wake>>

TakeWake ==
    /\ loop.pc = "select" /\ wake
    /\ wake' = FALSE
    /\ loop' = [loop EXCEPT !.pc = "woken"]
    /\ UNCHANGED <<now, reader, active, counts, interval, signalling>>

Stale == {r \in active : now - reader[r].last > Timeout[r]}

\* The timer fired: collectStale takes the stalled readers out of the set, and
\* each is reaped (its body closed, which ends its Read).
Sweep ==
    /\ loop.pc = "select" /\ loop.deadline <= now
    /\ active' = active \ Stale
    /\ counts' = [t \in Timeouts |-> counts[t] - Cardinality({r \in Stale : Timeout[r] = t})]
    /\ reader' = [r \in Readers |-> IF r \in Stale THEN [reader[r] EXCEPT !.st = "stalled"] ELSE reader[r]]
    /\ loop' = [loop EXCEPT !.pc = "swept"]
    /\ UNCHANGED <<now, interval, signalling, wake>>

Quiet == /\ signalling = {} /\ ~wake
         /\ loop.pc = "none" \/ (loop.pc = "select" /\ now < loop.deadline)

Tick ==
    /\ Quiet /\ now < MaxTime
    /\ now' = now + 1
    /\ UNCHANGED <<reader, active, counts, interval, signalling, wake, loop>>

----------------------------------------------------------------------------
Init ==
    /\ now = 0
    /\ reader = [r \in Readers |-> [st |-> "none", last |-> 0]]
    /\ active = {}
    /\ counts = [t \in Timeouts |-> 0]
    /\ interval = Base
    /\ signalling = {}
    /\ wake = FALSE
    /\ loop = [pc |-> "none", deadline |-> 0, read |-> 0]

Next ==
    \/ \E r \in Readers : Register(r) \/ Progress(r) \/ Finish(r) \/ SignalWake(r)
    \/ ReadInterval \/ Arm \/ TakeWake \/ Sweep \/ Tick

Spec == Init /\ [][Next]_vars

----------------------------------------------------------------------------
\* Whenever the loop waits with nothing in flight, its timer fires no later
\* than half the smallest timeout of a registered reader from now, and the
\* counts it is derived from are those of the registered readers: no change of
\* the period is lost between the unlock, the signal and the re-arm
\* (idlereader.go register, deregister, collectStale, run).
ScanInTime ==
    /\ \A t \in Timeouts : counts[t] = Cardinality({r \in active : Timeout[r] = t})
    /\ Quiet /\ loop.pc = "select" =>
          \A r \in active : loop.deadline - now <= SweepIntervalForTimeout(Timeout[r])

\* A stalled body is found within its timeout and half of the largest timeout,
\* plus one unit for the strict comparison (idlereader.go
\* sweepIntervalForTimeout).
StallBound == \A r \in active : now - reader[r].last <= Timeout[r] + Base + 1
=============================================================================
