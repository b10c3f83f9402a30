----------------------------- MODULE Variants -----------------------------
(***************************************************************************)
(* How a HIT is delivered (internal/server handler.go serveFromCache,       *)
(* encode.go, encode_variant.go, transform.go, range.go): conditional and   *)
(* range requests, body replacement, negotiated compression, and the stored *)
(* compressed variants, which live beside the identity object under a key   *)
(* of their own and are validated by a fingerprint.                         *)
(*                                                                          *)
(* The origin publishes versions 1, 2, ... of one object.  A version's ETag *)
(* and Last-Modified, when it has them, are its number, so a validator is   *)
(* as trustworthy as the code assumes.  A client keeps its last full        *)
(* response and builds its conditional and range requests from it.          *)
(***************************************************************************)
EXTENDS Integers, Sequences

CONSTANTS Codecs,      \* the policy's codecs, in order of preference
          Accepts,     \* the Accept-Encoding values of clients, see Accepted
          Clients, MaxVersion, MaxRequests

VARIABLES
    policy,    \* [encode, replace]: the site's `encode` and `replace` rules
    identity,  \* the stored identity object
    variant,   \* codec -> the stored variant blob or NoBlob
    client,    \* client -> [pc, q, reader, copy, prior, resp]
    asked,     \* requests made
    version    \* versions published
vars == <<policy, identity, variant, client, asked, version>>

CodecSet == {Codecs[i] : i \in 1..Len(Codecs)}
Sizes == {1, 2, 3}     \* under the policy's minimum length, ordinary, over the cap
MinLength == 2
MaxTransformBody == 2

Objects(v) == [of : {v}, etag : {0, v}, lm : {0, v}, size : Sizes]
NoBlob == [fp |-> <<>>, of |-> 0]

----------------------------------------------------------------------------
\* clientAccepts: the coding's own weight, else the wildcard's, else no.
Accepted(acc, c) ==
    IF c \in DOMAIN acc.named THEN acc.named[c] ELSE acc.star = "yes"

\* negotiateEncoding: the first configured codec the client accepts.
NegotiateEncoding(acc) ==
    LET ok == {i \in 1..Len(Codecs) : Accepted(acc, Codecs[i])}
    IN  IF ~policy.encode \/ ok = {} THEN ""
        ELSE Codecs[CHOOSE i \in ok : \A j \in ok : i <= j]

\* encodeApplies, for an included content type stored without an encoding.
EncodeApplies(q, o) ==
    /\ policy.encode /\ NegotiateEncoding(q.accept) # ""
    /\ q.range = "none" /\ ~q.head
    /\ o.size >= MinLength

\* transformsApply.
TransformsApply(head) == policy.replace /\ ~head

Any == -1   \* If-None-Match: *

\* conditionalNotModified: If-None-Match decides alone when it is present; a date after
\* the server's own counts for nothing.
ConditionalNotModified(q, o, now) ==
    \/ q.inm = Any
    \/ q.inm # 0 /\ o.etag # 0 /\ q.inm = o.etag
    \/ q.inm = 0 /\ q.ims # 0 /\ o.lm # 0 /\ o.lm <= q.ims /\ q.ims <= now

\* ifRangeAllowsRange: no If-Range, the strong comparison of an entity tag, or the very
\* date of Last-Modified.
IfRangeAllowsRange(q, o) ==
    \/ q.ifRange = 0 /\ q.ifDate = 0
    \/ q.ifRange # 0 /\ o.etag # 0 /\ q.ifRange = o.etag
    \/ q.ifRange = 0 /\ o.lm # 0 /\ q.ifDate = o.lm

\* sourceFingerprint and whether the identity has a validator at all.
Fingerprint(o) == <<o.etag, o.lm, o.size>>
\* Mutant: a size alone validates a variant.
AnySize(o) == TRUE
CanCacheVariant(o) == o.etag # 0 \/ o.lm # 0

\* lookupVariant.
LookupVariant(codec, o) == variant[codec] # NoBlob /\ variant[codec].fp = Fingerprint(o)

\* Mutant: a compressed representation keeps its strong entity tag.
KeepStrong(codec) == FALSE
\* applyEncodeHeaders weakens the entity tag of a compressed representation.
WeakenETag(codec) == codec # ""

----------------------------------------------------------------------------
\* A response: the version its bytes come from, their coding, whether they were
\* replaced, and the headers that describe them.
Response(s, v, codec, repl, o, part) ==
    [status |-> s, of |-> v, coding |-> codec, replaced |-> repl, part |-> part,
     ce |-> codec, lm |-> o.lm,
     etag |-> IF repl THEN 0 ELSE o.etag, weak |-> WeakenETag(codec)]

NoResponse == [status |-> 0, of |-> 0, coding |-> "", replaced |-> FALSE, part |-> "",
               ce |-> "", lm |-> 0, etag |-> 0, weak |-> FALSE]

\* The requests a client can make: a plain one, one conditional on its copy or on
\* there being any, or a range of it guarded by its strong entity tag or its date.
Plain(acc, head) ==
    [accept |-> acc, head |-> head, inm |-> 0, ims |-> 0, range |-> "none", ifRange |-> 0, ifDate |-> 0]
RequestsOf(c) ==
    LET k == client[c].copy
        either == CHOOSE a \in Accepts : TRUE IN   \* nothing is compressed for a HEAD or a range
    {Plain(acc, FALSE) : acc \in Accepts} \cup {Plain(either, TRUE)}
    \cup {[Plain(acc, FALSE) EXCEPT !.inm = k.etag, !.ims = k.lm] :
             acc \in {a \in Accepts : k.etag # 0 \/ k.lm # 0}}
    \cup {[Plain(either, FALSE) EXCEPT !.range = rg, !.ifRange = k.etag] :
             rg \in {x \in {"valid", "unsat", "invalid"} : k.etag # 0 /\ ~k.weak}}
    \cup {[Plain(either, FALSE) EXCEPT !.range = rg, !.ifDate = k.lm] : rg \in {x \in {"valid"} : k.lm # 0}}
    \cup {[Plain(either, FALSE) EXCEPT !.inm = Any]}

Respond(c, r) ==
    client' = [client EXCEPT ![c].pc = "idle", ![c].resp = r, ![c].q = client[c].q,
        ![c].prior = client[c].copy,
        ![c].copy = IF r.status = 200 /\ r.part = "whole" THEN r ELSE @]

\* serveFromCache up to its compression: the entry's reader is a snapshot.
Open(c) ==
    /\ client[c].pc = "idle" /\ asked < MaxRequests
    /\ asked' = asked + 1
    /\ \E q \in RequestsOf(c) :
          client' = [client EXCEPT ![c].pc = "reading", ![c].q = q, ![c].reader = identity,
                                   ![c].resp = NoResponse]
    /\ UNCHANGED <<policy, identity, variant, version>>

Body(c, r) == IF client[c].q.head THEN [r EXCEPT !.part = "none"] ELSE r

\* The 304, range, replacement and plain outcomes; now is the server's clock, before
\* every date or after.
Deliver(c, now) ==
    LET q == client[c].q
        o == client[c].reader
        ranged == q.range # "none" /\ IfRangeAllowsRange(q, o)
    IN  /\ client[c].pc = "reading"
        /\ IF ~TransformsApply(q.head) /\ ConditionalNotModified(q, o, now)
             THEN Respond(c, Response(304, 0, "", FALSE, o, "none"))
           ELSE IF ranged /\ q.range = "valid"
             THEN Respond(c, Response(206, o.of, "", FALSE, o, "slice"))
           ELSE IF ranged /\ q.range = "unsat"
             THEN Respond(c, Response(416, 0, "", FALSE, o, "none"))
           ELSE IF TransformsApply(q.head) /\ o.size <= MaxTransformBody
             THEN Respond(c, Response(200, o.of,
                      IF EncodeApplies(q, o) THEN NegotiateEncoding(q.accept) ELSE "", TRUE, o, "whole"))
           ELSE IF ~EncodeApplies(q, o)
             THEN Respond(c, Body(c, Response(200, o.of, "", FALSE, o, "whole")))
           ELSE client' = [client EXCEPT ![c].pc = "encode"]
        /\ UNCHANGED <<policy, identity, variant, asked, version>>

\* A stored, current variant is served as it is.
ServeVariant(c) ==
    LET o == client[c].reader
        codec == NegotiateEncoding(client[c].q.accept)
    IN  /\ client[c].pc = "encode"
        /\ CanCacheVariant(o) /\ LookupVariant(codec, o)
        /\ Respond(c, Response(200, variant[codec].of, codec, FALSE, o, "whole"))
        /\ UNCHANGED <<policy, identity, variant, asked, version>>

\* None: compress the identity; the store of the variant is a later step.
Compress(c) ==
    LET o == client[c].reader
        codec == NegotiateEncoding(client[c].q.accept)
    IN  /\ client[c].pc = "encode"
        /\ ~(CanCacheVariant(o) /\ LookupVariant(codec, o))
        /\ client' = [client EXCEPT ![c].pc = "compressed"]
        /\ UNCHANGED <<policy, identity, variant, asked, version>>

\* storeVariant (best effort, for a body within the cap) and the response.
StoreVariant(c) ==
    LET o == client[c].reader
        codec == NegotiateEncoding(client[c].q.accept)
    IN  /\ client[c].pc = "compressed"
        /\ \/ /\ o.size <= MaxTransformBody /\ CanCacheVariant(o)
              /\ variant' = [variant EXCEPT ![codec] = [fp |-> Fingerprint(o), of |-> o.of]]
           \/ variant' = variant
        /\ Respond(c, Response(200, o.of, codec, FALSE, o, "whole"))
        /\ UNCHANGED <<policy, identity, asked, version>>

\* The object is fetched again and stored under the same key.
Restore ==
    /\ version < MaxVersion
    /\ version' = version + 1
    /\ identity' \in Objects(version + 1)
    /\ UNCHANGED <<policy, variant, client, asked>>

\* A tier evicts a variant blob.
EvictVariant(codec) ==
    /\ variant[codec] # NoBlob
    /\ variant' = [variant EXCEPT ![codec] = NoBlob]
    /\ UNCHANGED <<policy, identity, client, asked, version>>

----------------------------------------------------------------------------
Init ==
    /\ policy \in [encode : BOOLEAN, replace : BOOLEAN]
    /\ version = 1 /\ asked = 0
    /\ identity \in Objects(1)
    /\ variant = [c \in CodecSet |-> NoBlob]
    /\ client = [c \in Clients |->
          [pc |-> "idle", q |-> Plain(CHOOSE a \in Accepts : TRUE, FALSE), reader |-> identity,
           copy |-> NoResponse, prior |-> NoResponse, resp |-> NoResponse]]

Next ==
    \/ \E c \in Clients : Open(c) \/ (\E now \in {0, MaxVersion} : Deliver(c, now)) \/ ServeVariant(c) \/ Compress(c) \/ StoreVariant(c)
    \/ Restore
    \/ \E codec \in CodecSet : EvictVariant(codec)

Spec == Init /\ [][Next]_vars

----------------------------------------------------------------------------
\* A whole response carries the version of the entry it was opened on, in the
\* coding it names: no stored variant of an older version outlives a re-fetch,
\* whatever hits and stores interleave (encode_variant.go lookupVariant,
\* storeVariant, sourceFingerprint).
VariantIsCurrent == \A c \in Clients :
    LET r == client[c].resp IN
    r.status = 200 => r.of = client[c].reader.of /\ r.coding = r.ce

\* What a client assembles is one representation: a 304 to its own validator confirms a
\* copy of the version the entry holds now, a range that its entity tag guarded extends
\* an uncompressed and unreplaced copy of the same version, and one that the date guarded
\* a copy of the same version at least: compressed and replaced responses keep the
\* Last-Modified (handler.go conditionalNotModified, ifRangeAllowsRange; encode.go
\* weakenETag; `replace` drops the entity tag).
ValidatorsHonest == \A c \in Clients :
    LET r == client[c].resp
        k == client[c].prior
        q == client[c].q
    IN  /\ r.status = 304 /\ q.inm # Any => k.of = client[c].reader.of
        /\ r.status = 206 => k.of = r.of
        /\ r.status = 206 /\ q.ifRange # 0 => k.coding = "" /\ ~k.replaced
=============================================================================
