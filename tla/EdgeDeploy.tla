----------------------------- MODULE EdgeDeploy -----------------------------
(***************************************************************************)
(* `cadish edge deploy / enable / disable`: the management client drives   *)
(* the provider's API one call at a time, and any call may fail before it  *)
(* has taken effect or after (the answer is lost).  Several operators may  *)
(* run commands at once, other parties own routes and namespaces of their  *)
(* own, and a command that failed half way is simply run again.            *)
(*                                                                         *)
(* A route is a record [id, pattern, script]; a script of "" runs no       *)
(* worker (an exclusion).  A namespace is its title at its place in the    *)
(* list, which the client reads a page at a time.                          *)
(***************************************************************************)
EXTENDS Naturals, Sequences, FiniteSets, SequencesExt

CONSTANTS Operators,     \* concurrent command lines
          Commands,      \* the commands each of them runs
          Worker,        \* the worker's name
          Routes,        \* cfg.Routes: the worker's patterns, in order
          Projected,     \* the exclusions `enable` creates, in order
          Excludable,    \* the exclusions `disable` removes
          Title,         \* the KV namespace's title
          PerPage,       \* kvPerPage
          Foreign,       \* the routes others may add: records [pattern, script]
          MaxCalls,      \* bound: effective API calls
          MaxNamespaces  \* bound: namespaces of the account

VARIABLES routes, namespaces, bound, cli, foreign, calls
vars == <<routes, namespaces, bound, cli, foreign, calls>>

\* clean: no other party has changed anything since the command began.
Idle == [cmd |-> "none", pc |-> "idle", page |-> 0, todo |-> <<>>, clean |-> TRUE, ok |-> FALSE]

Init ==
    /\ routes = {} /\ foreign = {} /\ calls = 0 /\ bound = 0
    /\ namespaces \in {<<>>, <<"other">>, <<"other", Title>>}
    /\ cli = [o \in Operators |-> Idle]

\* Everyone else in the middle of a command has been interfered with.
Disturb(o) == [p \in Operators |-> IF p = o \/ cli[p].pc \in {"idle", "done"} THEN cli[p] ELSE [cli[p] EXCEPT !.clean = FALSE]]
At(o, pc) == cli[o].pc = pc
Step(o, c, rec) == cli' = [c EXCEPT ![o] = rec]
Finish(o, c, ok) == cli' = [c EXCEPT ![o].pc = "done", ![o].ok = ok]
Effect == calls < MaxCalls /\ calls' = calls + 1

Begin(o, cmd) ==
    /\ cli[o].pc \in {"idle", "done"}
    /\ Step(o, cli, [Idle EXCEPT !.cmd = cmd, !.pc = IF cmd = "deploy" THEN "page" ELSE "list", !.page = 1])
    /\ UNCHANGED <<routes, namespaces, bound, foreign, calls>>

\* c.do returns an error before the call took effect: the command ends there.
CallFails(o) ==
    /\ cli[o].pc \notin {"idle", "done"}
    /\ Finish(o, cli, FALSE)
    /\ UNCHANGED <<routes, namespaces, bound, foreign, calls>>

(***************************************************************************)
(* deploy: find or create the namespace, then upload the script.           *)
(***************************************************************************)
Batch(page) == SubSeq(namespaces, (page - 1) * PerPage + 1, IF page * PerPage < Len(namespaces) THEN page * PerPage ELSE Len(namespaces))
IdOf(page) == (page - 1) * PerPage + SelectInSeq(Batch(page), LAMBDA t : t = Title)

\* Mutant: only the first page is looked at.
FirstPageOnly(batch) == FALSE
\* A full page means that there may be another.
MorePages(batch) == Len(batch) >= PerPage
ReadPage(o) ==
    /\ At(o, "page")
    /\ LET batch == Batch(cli[o].page)
       IN  Step(o, cli, IF \E i \in DOMAIN batch : batch[i] = Title
                        THEN [cli[o] EXCEPT !.pc = "upload", !.page = IdOf(cli[o].page)]
                        ELSE IF MorePages(batch) THEN [cli[o] EXCEPT !.page = @ + 1]
                        ELSE [cli[o] EXCEPT !.pc = "create"])
    /\ UNCHANGED <<routes, namespaces, bound, foreign, calls>>

\* The answer of a call that took effect arrives or is lost.
CreateNamespace(o) ==
    /\ At(o, "create") /\ Effect /\ Len(namespaces) < MaxNamespaces
    /\ namespaces' = Append(namespaces, Title)
    /\ \/ Step(o, Disturb(o), [cli[o] EXCEPT !.pc = "upload", !.page = Len(namespaces) + 1])
       \/ Finish(o, Disturb(o), FALSE)
    /\ UNCHANGED <<routes, bound, foreign>>

Upload(o) ==
    /\ At(o, "upload") /\ Effect
    /\ bound' = cli[o].page
    /\ \E ok \in BOOLEAN : Finish(o, cli, ok)
    /\ UNCHANGED <<routes, namespaces, foreign>>

(***************************************************************************)
(* enable and disable: list the routes, then one call per difference.      *)
(***************************************************************************)
Post(pattern, script) == [call |-> "post", pattern |-> pattern, script |-> script, id |-> 0]
Delete(r) == [call |-> "delete", pattern |-> r.pattern, script |-> r.script, id |-> r.id]

\* Mutant: a pattern counts as attached whichever script it runs.
AnyScript(script) == {r.pattern : r \in routes}
Having(script) == {r.pattern : r \in {x \in routes : x.script = script}}
Missing(patterns, script) ==
    LET rest == SelectSeq(patterns, LAMBDA p : p \notin Having(script))
    IN  [i \in DOMAIN rest |-> Post(rest[i], script)]
EnableCalls == Missing(Routes, Worker) \o Missing(Projected, "")

\* Mutant: every route that runs no worker is taken for an exclusion of ours.
AnyExclusion(r) == r.script \in {Worker, ""}
Ours(r) == r.script = Worker \/ (r.script = "" /\ r.pattern \in Excludable)
DisableCalls == LET s == SetToSeq({r \in routes : Ours(r)}) IN [i \in DOMAIN s |-> Delete(s[i])]

ListRoutes(o) ==
    /\ At(o, "list")
    /\ LET todo == IF cli[o].cmd = "enable" THEN EnableCalls ELSE DisableCalls
       IN  Step(o, cli, [cli[o] EXCEPT !.pc = IF todo = <<>> THEN "done" ELSE "apply", !.ok = (todo = <<>>), !.todo = todo])
    /\ UNCHANGED <<routes, namespaces, bound, foreign, calls>>

NewId == calls + 1

\* External: the API refuses a second route of one pattern and the deletion of
\* a route that is gone.
Accepted(c) == IF c.call = "post" THEN \A r \in routes : r.pattern # c.pattern
               ELSE \E r \in routes : r.id = c.id
Apply(o) ==
    /\ At(o, "apply") /\ Effect
    /\ LET c == Head(cli[o].todo)
           rest == Tail(cli[o].todo)
       IN  /\ Accepted(c)
           /\ routes' = IF c.call = "post" THEN routes \cup {[id |-> NewId, pattern |-> c.pattern, script |-> c.script]}
                        ELSE {r \in routes : r.id # c.id}
           /\ \/ Step(o, Disturb(o), [cli[o] EXCEPT !.todo = rest, !.pc = IF rest = <<>> THEN "done" ELSE "apply", !.ok = (rest = <<>>)])
              \/ Finish(o, Disturb(o), FALSE)
    /\ UNCHANGED <<namespaces, bound, foreign>>

\* Another party adds a route of its own, or withdraws it; or adds a namespace.
OtherParty ==
    /\ Effect /\ cli' = Disturb("nobody")
    /\ \/ \E f \in Foreign :
            /\ \A r \in routes : r.pattern # f.pattern
            /\ LET r == [id |-> NewId, pattern |-> f.pattern, script |-> f.script]
               IN  routes' = routes \cup {r} /\ foreign' = foreign \cup {r}
            /\ UNCHANGED namespaces
       \/ \E r \in foreign : routes' = routes \ {r} /\ foreign' = foreign \ {r} /\ UNCHANGED namespaces
       \/ /\ Len(namespaces) < MaxNamespaces /\ namespaces' = Append(namespaces, "other")
          /\ UNCHANGED <<routes, foreign>>
    /\ UNCHANGED bound

Next ==
    \/ OtherParty
    \/ \E o \in Operators :
        \/ \E cmd \in Commands[o] : Begin(o, cmd)
        \/ CallFails(o) \/ ReadPage(o) \/ CreateNamespace(o) \/ Upload(o) \/ ListRoutes(o) \/ Apply(o)

Spec == Init /\ [][Next]_vars

-----------------------------------------------------------------------------
Succeeded(o, cmd) == cli[o].cmd = cmd /\ cli[o].pc = "done" /\ cli[o].ok /\ cli[o].clean

\* Whatever calls were lost and however often commands were run again: no command takes
\* away a route of another party that runs a worker, or that runs none on a pattern
\* outside the site's exclusions.  Disable knows its exclusions by their pattern only,
\* so that another party's on an excludable pattern goes with them.
OthersKept == \A r \in foreign \ routes : r.script = "" /\ r.pattern \in Excludable

\* A namespace is created at most once when nobody raced for it, and the uploaded
\* worker is bound to it.
OneNamespace ==
    Cardinality({o \in Operators : "deploy" \in Commands[o]}) <= 1 =>
        /\ Cardinality({i \in DOMAIN namespaces : namespaces[i] = Title}) <= 1
        /\ bound # 0 => namespaces[bound] = Title

\* A command that reports success, undisturbed, has done what it says even when
\* earlier ones stopped half way: after the last call of `enable` every pattern
\* runs the worker and every exclusion none, after that of `disable` (the kill
\* switch) nothing of ours is left.
LeavesNothing == \A r \in routes : r.script # Worker /\ ~(r.script = "" /\ r.pattern \in Excludable)
Attached ==
    /\ \A i \in DOMAIN Routes : \E r \in routes : r.pattern = Routes[i] /\ r.script = Worker
    /\ \A i \in DOMAIN Projected : \E r \in routes : r.pattern = Projected[i] /\ r.script = ""
Reported ==
    \A o \in Operators :
        /\ Succeeded(o, "disable")' /\ cli[o].pc # "done" => LeavesNothing'
        /\ Succeeded(o, "enable")' /\ cli[o].pc # "done" => Attached'
=============================================================================
