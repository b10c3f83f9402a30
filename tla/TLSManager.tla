------------------------------ MODULE TLSManager ------------------------------
(***************************************************************************)
(* Certificates (internal/tlsacme): the host state a reload publishes, the *)
(* dynamic set the controllers publish behind a gate, on-demand ACME with  *)
(* its new-order budget, TLS handshakes that read those one after another  *)
(* without a lock, and the port-80 handler that redirects a host only when *)
(* it has a certificate.                                                   *)
(*                                                                         *)
(* A source is the sequence of its keypairs, [hosts, id], in the order     *)
(* they were added; "*" is the wildcard over every name, "" no SNI.        *)
(***************************************************************************)
EXTENDS Integers, Sequences

CONSTANTS
    Names,          \* server names clients ask for
    States,         \* host states: [acme |-> patterns, static |-> source]
    DynamicSets,    \* sources the controllers publish
    Forced,         \* patterns under cadi.sh/ssl-redirect
    Burst,          \* newCertBurst
    Handshakes,     \* concurrent handshakes and port-80 requests
    MaxTicks, MaxChanges

VARIABLES
    acme,           \* the manager has an ACME source
    gated,          \* redirectGated
    state,          \* m.state
    dynamic, gate,  \* m.dynamic, m.hasDynamic
    want,           \* the set the last SetDynamicCerts was given
    storing,        \* SetDynamicCerts has stored the set and not yet the gate
    issued, disk,   \* names memoized; names with a certificate in the ACME cache
    tokens, orders, \* the issuance limiter, and the orders sent to the CA
    h,              \* one record per handshake or port-80 request
    ticks, changed

vars == <<acme, gated, state, dynamic, gate, want, storing, issued, disk, tokens, orders, h, ticks, changed>>

None == 0
Idle == [kind |-> "tls", name |-> "", pc |-> "idle", st |-> [acme |-> {}, static |-> <<>>],
         cert |-> None, plain |-> FALSE, throughout |-> FALSE, had |-> FALSE]

------------------------------------------------------------------------------
(* source.go, host.go *)

Matches(patterns, name) == name # "" /\ (name \in patterns \/ "*" \in patterns)

HostsOf(src) == UNION {src[i].hosts : i \in DOMAIN src}

\* addCert overwrites an earlier registration of the same host.
LatestFor(src, host) ==
    LET at == {i \in DOMAIN src : host \in src[i].hosts}
    IN  IF at = {} THEN None ELSE src[CHOOSE i \in at : \A j \in at : j <= i].id

Lookup(src, name) ==
    IF LatestFor(src, name) # None \/ name = "" THEN LatestFor(src, name) ELSE LatestFor(src, "*")

Has(src) == src # <<>>
Fallback(src) == src[1].id

------------------------------------------------------------------------------
(* What a name has, at one moment *)

ByStatic(st, name) == Lookup(st.static, name) # None
ByDynamic(d, g, name) == g /\ Lookup(d, name) # None

\* Every request in flight notes whether its name kept being served by the dynamic set,
\* and whether it ever had a certificate: static, published or issued.
Observe(hs, st, d, g, dk) ==
    [k \in DOMAIN hs |->
        [hs[k] EXCEPT
            !.throughout = @ /\ ByDynamic(d, g, hs[k].name),
            !.had = @ \/ ByStatic(st, hs[k].name) \/ Lookup(d, hs[k].name) # None
                      \/ (acme /\ hs[k].name \in dk)]]

Init ==
    /\ acme \in BOOLEAN /\ gated \in BOOLEAN
    /\ state \in States
    /\ dynamic = <<>> /\ want = <<>> /\ gate = FALSE /\ storing = FALSE
    /\ disk \in SUBSET Names
    /\ issued = disk                    \* warmIssued
    /\ tokens = Burst /\ orders = 0
    /\ h = [k \in Handshakes |-> Idle]
    /\ ticks = 0 /\ changed = 0

------------------------------------------------------------------------------
(* Reloads and reconciles *)

\* PrepareReload, then Commit.
Commit ==
    /\ changed < MaxChanges
    /\ changed' = changed + 1
    /\ state' \in States \ {state}
    /\ h' = Observe(h, state', want, gate, disk)
    /\ UNCHANGED <<acme, gated, dynamic, gate, want, storing, issued, disk, tokens, orders, ticks>>

\* Mutant: the published set is cleared and filled in place.
Cleared(new) == <<>>

\* The fresh source holds every keypair before the pointer is stored.
Built(new) == new

\* SetDynamicCerts: parse everything, store the pointer, then the gate. A bad PEM
\* returns before either.
StoreSet ==
    /\ ~storing /\ changed < MaxChanges
    /\ changed' = changed + 1
    /\ storing' = TRUE
    /\ want' \in DynamicSets \ {want}
    /\ dynamic' = Built(want')
    /\ h' = Observe(h, state, want', gate, disk)
    /\ UNCHANGED <<acme, gated, state, gate, issued, disk, tokens, orders, ticks>>

StoreGate ==
    /\ storing
    /\ storing' = FALSE
    /\ dynamic' = want
    /\ gate' = Has(want)
    /\ h' = Observe(h, state, want, gate', disk)
    /\ UNCHANGED <<acme, gated, state, want, issued, disk, tokens, orders, ticks, changed>>

\* The limiter accrues one order; a finer clock would only split this step.
Tick ==
    /\ ticks < MaxTicks
    /\ ticks' = ticks + 1
    /\ tokens' = IF tokens < Burst THEN tokens + 1 ELSE Burst
    /\ UNCHANGED <<acme, gated, state, dynamic, gate, want, storing, issued, disk, orders, h, changed>>

------------------------------------------------------------------------------
(* getCertificate and redirectOrServe *)

others == <<acme, gated, state, dynamic, gate, want, storing, ticks, changed>>
caStays == <<issued, disk, tokens, orders>>

Goto(k, pc) == h' = [h EXCEPT ![k].pc = pc]
Done(k, cert) == h' = [h EXCEPT ![k].pc = "done", ![k].cert = cert]

Start(k) ==
    /\ h[k].pc = "idle"
    /\ \E kind \in {"tls", "plain"}, name \in Names \union {""} :
          /\ kind = "plain" => name # ""
          /\ h' = Observe([h EXCEPT ![k] =
                              [Idle EXCEPT !.kind = kind, !.name = name, !.pc = "state",
                                           !.throughout = TRUE]],
                          state, want, gate, disk)
    /\ UNCHANGED <<others, caStays>>

\* The readiness probe, a path of http_redirect_except, and a request a trusted proxy
\* received over HTTPS are served plainly whatever the host has.
ServePlain(k) ==
    /\ h[k].pc = "idle"
    /\ \E name \in Names :
          h' = [h EXCEPT ![k] = [Idle EXCEPT !.kind = "plain", !.name = name,
                                             !.pc = "done", !.plain = TRUE]]
    /\ UNCHANGED <<others, caStays>>

ReadState(k) ==
    /\ h[k].pc = "state"
    /\ h' = [h EXCEPT ![k].st = state,
                      ![k].cert = Lookup(state.static, h[k].name),
                      ![k].pc = IF \/ h[k].kind = "plain" /\ ~gated
                                   \/ Matches(HostsOf(state.static), h[k].name)
                                THEN "done" ELSE "gate",
                      ![k].plain = FALSE]
    /\ UNCHANGED <<others, caStays>>

ReadGate(k) ==
    /\ h[k].pc = "gate"
    /\ Goto(k, IF gate THEN "dynamic" ELSE "fall")
    /\ UNCHANGED <<others, caStays>>

ReadDynamic(k) ==
    /\ h[k].pc = "dynamic"
    /\ LET c == Lookup(dynamic, h[k].name)
       IN  IF c # None THEN Done(k, c) ELSE Goto(k, "fall")
    /\ UNCHANGED <<others, caStays>>

\* Mutant: ACME eligibility counts as a certificate.
Eligible(name, st) == Matches(st.acme, name)

\* HasIssuedCert.
HasIssuedCert(name, st) == name \in disk

\* hostHasTLS's last question, then forceRedirect.
Redirects(k) == (acme /\ HasIssuedCert(h[k].name, h[k].st)) \/ Matches(Forced, h[k].name)

FallPlain(k) ==
    /\ h[k].pc = "fall" /\ h[k].kind = "plain"
    /\ h' = [h EXCEPT ![k].pc = "done", ![k].plain = ~Redirects(k)]
    /\ UNCHANGED <<others, caStays>>

\* No SNI takes the static fallback; otherwise ACME, if there is one.
FallTLS(k) ==
    /\ h[k].pc = "fall" /\ h[k].kind = "tls"
    /\ IF h[k].name = "" /\ Has(h[k].st.static)
       THEN Done(k, Fallback(h[k].st.static))
       ELSE IF acme /\ h[k].name # "" THEN Goto(k, "memo") ELSE Done(k, None)
    /\ UNCHANGED <<others, caStays>>

------------------------------------------------------------------------------
(* autocertSource.GetCertificate *)

\* The identity of every certificate ACME issues.
AcmeCert == 100

Memo(k) ==
    /\ h[k].pc = "memo"
    /\ IF h[k].name \in issued THEN Done(k, AcmeCert) ELSE Goto(k, "peek")
    /\ UNCHANGED <<others, caStays>>

Peek(k) ==
    /\ h[k].pc = "peek"
    /\ IF tokens >= 1 THEN Goto(k, "probe") ELSE Done(k, None)
    /\ UNCHANGED <<others, caStays>>

Probe(k) ==
    /\ h[k].pc = "probe"
    /\ IF h[k].name \in disk
       THEN Done(k, AcmeCert) /\ issued' = issued \union {h[k].name}
       ELSE Goto(k, "allow") /\ UNCHANGED issued
    /\ UNCHANGED <<others, disk, tokens, orders>>

\* Mutant: the peek is taken for the token.
PeekIsEnough == [granted |-> TRUE, left |-> tokens]

\* allow: take a token under the lock, or fail.
Take == [granted |-> tokens >= 1, left |-> IF tokens >= 1 THEN tokens - 1 ELSE tokens]

Allow(k) ==
    /\ h[k].pc = "allow"
    /\ IF Take.granted THEN Goto(k, "order") ELSE Done(k, None)
    /\ tokens' = Take.left
    /\ UNCHANGED <<others, issued, disk, orders>>

\* autocert (external): a cached certificate, a refusal of its HostPolicy, or an order
\* the CA may refuse.
Order(k) ==
    /\ h[k].pc = "order"
    /\ \/ /\ h[k].name \in disk
          /\ Goto(k, "store")
          /\ UNCHANGED <<disk, orders>>
       \/ /\ h[k].name \notin disk
          /\ ~Matches(state.acme, h[k].name)
          /\ Done(k, None)
          /\ UNCHANGED <<disk, orders>>
       \/ /\ h[k].name \notin disk
          /\ Matches(state.acme, h[k].name)
          /\ orders' = orders + 1
          /\ \/ Done(k, None) /\ UNCHANGED disk
             \/ /\ disk' = disk \union {h[k].name}
                /\ h' = Observe([h EXCEPT ![k].pc = "store"], state, want, gate, disk')
    /\ UNCHANGED <<others, issued, tokens>>

Memoize(k) ==
    /\ h[k].pc = "store"
    /\ issued' = issued \union {h[k].name}
    /\ Done(k, AcmeCert)
    /\ UNCHANGED <<others, disk, tokens, orders>>

Next ==
    \/ Commit \/ StoreSet \/ StoreGate \/ Tick
    \/ \E k \in Handshakes :
          \/ Start(k) \/ ServePlain(k) \/ ReadState(k) \/ ReadGate(k) \/ ReadDynamic(k) \/ FallPlain(k) \/ FallTLS(k)
          \/ Memo(k) \/ Peek(k) \/ Probe(k) \/ Allow(k) \/ Order(k) \/ Memoize(k)

Spec == Init /\ [][Next]_vars

------------------------------------------------------------------------------
\* A handshake whose name the dynamic set covers from its first read to its answer gets
\* a certificate, whatever was published in between ("no partial swap").
SwapsAreWhole ==
    \A k \in Handshakes :
        h[k].kind = "tls" /\ h[k].pc = "done" /\ h[k].throughout => h[k].cert # None

\* Handshakes that race for the last tokens never send the CA more new orders than the
\* burst and the refill allow.
OrdersBudgeted == orders <= Burst + ticks

\* The gated port-80 handler redirects a host that was not opted in only if the host
\* had a certificate while the request was being decided, not because ACME might issue one.
RedirectHasTLS ==
    \A k \in Handshakes :
        (h[k].kind = "plain" /\ h[k].pc = "done" /\ gated /\ ~h[k].plain
         /\ ~Matches(Forced, h[k].name))
            => h[k].had

===============================================================================
