------------------------------ MODULE Tunnel ------------------------------
(***************************************************************************)
(* Connection-upgrade tunnels (internal/server/upgrade.go): the refusals     *)
(* before the upstream switches protocol, and, after it, the wrapped         *)
(* connection with its idle timer, its two copy directions and its one-time  *)
(* teardown, which the active-tunnel gauge counts.                           *)
(*                                                                          *)
(* httputil.ReverseProxy (external) owns the handshake relay, the two copy  *)
(* goroutines and the teardown when a copy ends or the client's request is  *)
(* cancelled.                                                               *)
(***************************************************************************)
EXTENDS Integers, FiniteSets

CONSTANTS Tunnels, MaxBytes

VARIABLES
    t,      \* tunnel -> its record, see Fresh
    gauge   \* metrics.upgradesActive
vars == <<t, gauge>>

\* The goroutines that may call Close: the two copies' teardown (one call) and
\* the timer's AfterFunc.
Closers == {"proxy", "timer"}

Fresh == [pc |-> "idle",        \* idle, resolved, open, refused
          status |-> 0,
          timer |-> "none",     \* none, armed, fired, stopped
          closed |-> FALSE,     \* idleTunnelConn.closed, under mu
          conn |-> "none",      \* the upstream connection: none, open, closed
          once |-> "no",        \* closeOnce: no, running, done
          closer |-> [c \in Closers |-> "no"],  \* no, calling, marked, shut, returned
          bytes |-> 0]

Refuse(x, s) == t' = [t EXCEPT ![x].pc = "refused", ![x].status = s]

\* serveUpgrade: resolve the routed upstream.
ResolveUpgrade(x) ==
    /\ t[x].pc = "idle"
    /\ \/ Refuse(x, 502)     \* the origin hosts no tunnel, or another failure
       \/ Refuse(x, 503)     \* ErrNoUpgradeBackend
       \/ t' = [t EXCEPT ![x].pc = "resolved"]
    /\ UNCHANGED gauge

\* upgradeTransport.RoundTrip fails: the dial, or a 101 to another protocol,
\* whose body is closed before it is counted.
HandshakeFails(x) ==
    /\ t[x].pc = "resolved"
    /\ \E c \in {"none", "closed"} :
          t' = [t EXCEPT ![x].pc = "refused", ![x].status = 502, ![x].conn = c]
    /\ UNCHANGED gauge

\* The upstream answers with an ordinary response, which is relayed.
NotSwitched(x) ==
    /\ t[x].pc = "resolved"
    /\ t' = [t EXCEPT ![x].pc = "refused", ![x].status = 200]
    /\ UNCHANGED gauge

\* Mutant: a non-positive idle leaves the tunnel without a timer.
NoFloor(idle) == IF idle > 0 THEN "armed" ELSE "none"
\* newIdleTunnelConn floors the idle (minTunnelIdle), so the timer is always armed: also
\* for the idle of 0 of which the type's comment says that it disables the watchdog.
TimerFor(idle) == "armed"

\* A matching 101: count it and wrap the connection.
Switch(x) ==
    /\ t[x].pc = "resolved"
    /\ gauge' = gauge + 1
    /\ \E idle \in {0, 1} :
          t' = [t EXCEPT ![x].pc = "open", ![x].status = 101, ![x].conn = "open",
                         ![x].timer = TimerFor(idle)]

----------------------------------------------------------------------------
\* Read or Write moved bytes, then reset extends the timer unless closed.  Both
\* copies do it, so two calls may be in flight: a reset is atomic under mu.
Transfer(x) ==
    /\ t[x].pc = "open" /\ t[x].conn = "open" /\ t[x].bytes < MaxBytes
    /\ t' = [t EXCEPT ![x].bytes = @ + 1,
                      ![x].timer = IF ~t[x].closed /\ @ # "none" THEN "armed" ELSE @]
    /\ UNCHANGED gauge

\* A peer closed, a copy failed, or the client's request ended.
ProxyClose(x) ==
    /\ t[x].pc = "open" /\ t[x].closer["proxy"] = "no"
    /\ t' = [t EXCEPT ![x].closer["proxy"] = "calling"]
    /\ UNCHANGED gauge

\* The idle timer fires and runs Close in its own goroutine.
TimerFires(x) ==
    /\ t[x].timer = "armed" /\ t[x].closer["timer"] = "no"
    /\ t' = [t EXCEPT ![x].timer = "fired", ![x].closer["timer"] = "calling"]
    /\ UNCHANGED gauge

\* Mutant: Close is not run under closeOnce.
Always(x) == TRUE
FirstClose(x) == t[x].once = "no"

\* Close: the winner of closeOnce marks the tunnel and stops the timer ...
CloseMark(x, c) ==
    /\ t[x].closer[c] = "calling" /\ FirstClose(x)
    /\ t' = [t EXCEPT ![x].closer[c] = "marked", ![x].once = "running",
                      ![x].closed = TRUE, ![x].timer = "stopped"]
    /\ UNCHANGED gauge
\* ... closes the connection ...
CloseConn(x, c) ==
    /\ t[x].closer[c] = "marked"
    /\ t' = [t EXCEPT ![x].closer[c] = "shut", ![x].conn = "closed"]
    /\ UNCHANGED gauge
\* ... and counts it out.
CloseCount(x, c) ==
    /\ t[x].closer[c] = "shut"
    /\ t' = [t EXCEPT ![x].closer[c] = "returned", ![x].once = "done"]
    /\ gauge' = gauge - 1
\* The other caller waits for the first and returns.
CloseAgain(x, c) ==
    /\ t[x].closer[c] = "calling" /\ t[x].once = "done"
    /\ t' = [t EXCEPT ![x].closer[c] = "returned"]
    /\ UNCHANGED gauge

----------------------------------------------------------------------------
Init == t = [x \in Tunnels |-> Fresh] /\ gauge = 0

Handshake(x) == ResolveUpgrade(x) \/ HandshakeFails(x) \/ NotSwitched(x) \/ Switch(x)
Close(x, c) == CloseMark(x, c) \/ CloseConn(x, c) \/ CloseCount(x, c) \/ CloseAgain(x, c)

Next == \E x \in Tunnels :
            \/ Handshake(x) \/ Transfer(x) \/ ProxyClose(x) \/ TimerFires(x)
            \/ \E c \in Closers : Close(x, c)

Spec == Init /\ [][Next]_vars

\* Timers fire and goroutines run; a peer need not ever close or send.
Fairness == \A x \in Tunnels :
    /\ WF_vars(TimerFires(x))
    /\ \A c \in Closers : WF_vars(Close(x, c))

FairSpec == Spec /\ Fairness

----------------------------------------------------------------------------
\* The gauge counts exactly the established tunnels whose teardown has not
\* completed, through the races of the copies' teardown, the idle timer and a
\* late byte, and an established tunnel's connection is closed by the time it
\* leaves the gauge (upgrade.go RoundTrip, Close, reset).
GaugeExact ==
    /\ gauge = Cardinality({x \in Tunnels : t[x].pc = "open" /\ t[x].once # "done"})
    /\ \A x \in Tunnels : t[x].once = "done" => t[x].conn = "closed" /\ t[x].timer = "stopped"

\* Every established tunnel is torn down even when neither peer ever closes:
\* the idle floor gives each of them a timer, and no byte that arrives during
\* the teardown re-arms it into a tunnel that stays (upgrade.go
\* newIdleTunnelConn, reset).  The reference promises the opposite for the default idle
\* of 0, a tunnel that lasts until a side closes.
TunnelsEnd == <>[](\A x \in Tunnels : t[x].pc = "open" => t[x].once = "done")
=============================================================================
