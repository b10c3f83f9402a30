------------------------------- MODULE Sinks -------------------------------
(***************************************************************************)
(* The two best-effort sinks of the request path (internal/server):         *)
(*   - the security audit log (auditlog.go): one bounded queue, one writer  *)
(*     goroutine, closed once at shutdown;                                  *)
(*   - the access hub (accesshub.go, accesssocket.go, accesslog.go): a      *)
(*     fan-out to the attached consumers, gated by a lock-free count.       *)
(* A record is its number.  Requests publish to the hub and record to the   *)
(* log concurrently with the writer, the consumers and the shutdown.        *)
(***************************************************************************)
EXTENDS Integers, Sequences, FiniteSets

CONSTANTS Buf, MaxRecords, Consumers

VARIABLES
    audit,   \* [queue, hand, written, dropped, refused, closed, file, next]
    hub,     \* [subs, count, published]
    sub,     \* consumer -> [pc, ch, dropped, got, from]
    gated    \* number of requests that saw a non-zero count, not yet published
avars == audit
hvars == <<hub, sub, gated>>
vars == <<audit, hub, sub, gated>>

None == 0

----------------------------------------------------------------------------
\* Record: a non-blocking send under the read lock; a closed log ignores it.
Record ==
    /\ audit.next <= MaxRecords
    /\ audit' = [audit EXCEPT !.next = @ + 1,
          !.refused = IF audit.closed THEN @ \cup {audit.next} ELSE @,
          !.queue = IF ~audit.closed /\ Len(@) < Buf THEN Append(@, audit.next) ELSE @,
          !.dropped = IF ~audit.closed /\ Len(audit.queue) = Buf THEN @ \cup {audit.next} ELSE @]
    /\ UNCHANGED hvars

\* run: receive one record.
Receive ==
    /\ audit.hand = None /\ audit.queue # <<>>
    /\ audit' = [audit EXCEPT !.hand = Head(audit.queue), !.queue = Tail(@)]
    /\ UNCHANGED hvars

\* run: the write, which fails or not, and always on a closed file.
Write ==
    /\ audit.hand # None
    /\ \E ok \in BOOLEAN :
          /\ ok => audit.file = "open"
          /\ audit' = [audit EXCEPT !.hand = None,
                !.written = IF ok THEN Append(@, audit.hand) ELSE @,
                !.dropped = IF ok THEN @ ELSE @ \cup {audit.hand}]
    /\ UNCHANGED hvars

\* Close: refuse further records and close the channel ...
CloseAudit ==
    /\ ~audit.closed
    /\ audit' = [audit EXCEPT !.closed = TRUE]
    /\ UNCHANGED hvars

\* Mutant: Close does not wait for the writer goroutine.
NoWait == TRUE
\* The writer goroutine has returned: its range over the closed channel ended.
WriterDone == audit.queue = <<>> /\ audit.hand = None

\* ... then wait for the writer and close the file.
CloseFile ==
    /\ audit.closed /\ audit.file = "open" /\ WriterDone
    /\ audit' = [audit EXCEPT !.file = "closed"]
    /\ UNCHANGED hvars

----------------------------------------------------------------------------
Subscribe(c) ==
    /\ sub[c].pc = "off"
    /\ sub' = [sub EXCEPT ![c] = [pc |-> "recv", ch |-> <<>>, dropped |-> 0, got |-> 0, from |-> hub.published]]
    /\ hub' = [hub EXCEPT !.subs = @ \cup {c}, !.count = Cardinality(hub.subs \cup {c})]
    /\ UNCHANGED <<audit, gated>>

\* logRequest: the lock-free probe.
Gate ==
    /\ hub.published + gated < MaxRecords
    /\ hub.count > 0
    /\ gated' = gated + 1
    /\ UNCHANGED <<audit, hub, sub>>

\* publish: a non-blocking send to every consumer, under the lock.
Publish ==
    /\ gated > 0
    /\ gated' = gated - 1
    /\ hub' = [hub EXCEPT !.published = @ + 1]
    /\ sub' = [c \in Consumers |->
          IF c \notin hub.subs THEN sub[c]
          ELSE IF Len(sub[c].ch) < Buf THEN [sub[c] EXCEPT !.ch = Append(@, hub.published + 1)]
          ELSE [sub[c] EXCEPT !.dropped = @ + 1]]
    /\ UNCHANGED audit

\* serveConn: receive and write one line; a failed write ends the consumer.
Stream(c) ==
    /\ sub[c].pc = "recv" /\ sub[c].ch # <<>>
    /\ sub' = [sub EXCEPT ![c].ch = Tail(@), ![c].got = @ + 1]
    /\ UNCHANGED <<audit, hub, gated>>

\* serveConn: the client went away, or the server stops.
Leave(c) ==
    /\ sub[c].pc = "recv"
    /\ sub' = [sub EXCEPT ![c].pc = "leaving"]
    /\ UNCHANGED <<audit, hub, gated>>

\* Mutant: unsubscribe keeps the count.
KeepCount(c) == hub.count
CountWithout(c) == Cardinality(hub.subs \ {c})

Unsubscribe(c) ==
    /\ sub[c].pc = "leaving"
    /\ sub' = [sub EXCEPT ![c].pc = "off"]
    /\ hub' = [hub EXCEPT !.subs = @ \ {c}, !.count = CountWithout(c)]
    /\ UNCHANGED <<audit, gated>>

----------------------------------------------------------------------------
Init ==
    /\ audit = [queue |-> <<>>, hand |-> None, written |-> <<>>, dropped |-> {}, refused |-> {},
                closed |-> FALSE, file |-> "open", next |-> 1]
    /\ hub = [subs |-> {}, count |-> 0, published |-> 0]
    /\ sub = [c \in Consumers |-> [pc |-> "off", ch |-> <<>>, dropped |-> 0, got |-> 0, from |-> 0]]
    /\ gated = 0

AuditNext == Record \/ Receive \/ Write \/ CloseAudit \/ CloseFile
HubNext ==
    \/ Gate \/ Publish
    \/ \E c \in Consumers : Subscribe(c) \/ Stream(c) \/ Leave(c) \/ Unsubscribe(c)

Next == AuditNext \/ HubNext

Spec == Init /\ [][Next]_vars

----------------------------------------------------------------------------
ToSet(s) == {s[i] : i \in 1..Len(s)}

\* Every audit record handed over before Close is written once, in order, or
\* counted as dropped, and by the time the file is closed none is left behind:
\* the queue, the writer goroutine and the shutdown lose nothing silently
\* (auditlog.go Record, run, Close).
AuditAccounted ==
    LET held == ToSet(audit.queue) \cup ({audit.hand} \ {None})
    IN  /\ ToSet(audit.written) \cup audit.dropped \cup audit.refused \cup held = 1..(audit.next - 1)
        /\ \A i, j \in 1..Len(audit.written) : i < j => audit.written[i] < audit.written[j]
        /\ audit.file = "closed" => held = {}

\* The lock-free count that gates the hot path is the number of attached
\* consumers, and an attached consumer has received, queued or counted as lost
\* every record published since it attached (accesshub.go, accesssocket.go).
HubAccounted ==
    /\ hub.count = Cardinality(hub.subs)
    /\ \A c \in hub.subs :
          sub[c].got + Len(sub[c].ch) + sub[c].dropped = hub.published - sub[c].from
=============================================================================
