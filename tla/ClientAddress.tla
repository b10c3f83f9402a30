---------------------------- MODULE ClientAddress ----------------------------
(***************************************************************************)
(* Who a request is from.  A request travels from its client through       *)
(* layer-4 balancers, layer-7 proxies and one or more cadish nodes to the  *)
(* origin.  Each cadish node learns its peer from the PROXY-protocol       *)
(* listener (internal/proxyproto), resolves the client with the            *)
(* trusted-proxy walk (internal/geo/clientip.go) and rewrites the          *)
(* X-Forwarded-* family for the next hop (internal/server/handler.go).     *)
(*                                                                         *)
(* An address is <<ip, mapped>>: mapped tells the IPv4-in-IPv6 spelling of *)
(* the same host.  The wire spelling of an address adds a port, and an     *)
(* X-Forwarded-For element may be no address at all.  The proxies and      *)
(* balancers between the client and cadish are external: they append, or   *)
(* announce, the address they saw, in any of the spellings.                *)
(***************************************************************************)
EXTENDS Naturals, SequencesExt

CONSTANTS
    Routes,        \* the hops between client and origin: sequences of [kind, ip]
    Clients,       \* ips of clients (of no proxy)
    Claims,        \* X-Forwarded-For lines a client may send of its own accord
    Trusted,       \* trust_proxy: ips of the layer-7 hops the sites trust
    Balancers,     \* the listener's trust set: ips allowed to send PROXY headers
    BadHeaders     \* PROXY headers that carry no usable source

VARIABLES
    route,    \* the hops still ahead
    path,     \* the hops passed, nearest last: who really sent what (history)
    wire,     \* the connection to the next hop: socket peer, PROXY header, request
    conn,     \* the next cadish hop's connection: "none", "accepted", "open", "closed"
    remote,   \* the address that connection reports
    client    \* the address the last cadish hop resolved

vars == <<route, path, wire, conn, remote, client>>

NoAddr == <<"", FALSE>>
NoHeader == [form |-> "absent", src |-> NoAddr]
Junk == [addr |-> NoAddr, port |-> FALSE]

\* netip.Addr.Unmap
Unmap(a) == <<a[1], FALSE>>

\* The spellings of one host's address.
Spellings(ip) == {[addr |-> <<ip, m>>, port |-> p] : m \in BOOLEAN, p \in BOOLEAN}

------------------------------------------------------------------------------
(* internal/geo/clientip.go *)

\* Mutant: the address is compared as it is spelt.
KeepMapped(e) == e.addr

\* parseHostAddr: the port is dropped and the address unmapped; no address otherwise.
ParseHostAddr(e) == IF e.addr = NoAddr THEN NoAddr ELSE Unmap(e.addr)

\* Prefixes are of bare addresses, which contain no mapped one.
InAny(a, ips) == ~a[2] /\ a[1] \in ips

\* forwardedFor: every line's elements in order, those that do not parse left out.
ForwardedFor(lines) ==
    LET all == FlattenSeq(lines)
    IN  SelectSeq([i \in DOMAIN all |-> ParseHostAddr(all[i])], LAMBDA a : a # NoAddr)

PeerTrusted(sock) ==
    /\ Trusted # {}
    /\ ParseHostAddr(sock) # NoAddr
    /\ InAny(ParseHostAddr(sock), Trusted)

\* Mutant: the walk goes from the original client's end.
Leftmost(I) == CHOOSE i \in I : \A j \in I : i <= j

\* The walk from the nearest proxy: the last index.
Nearest(I) == CHOOSE i \in I : \A j \in I : j <= i

\* ClientIP: the peer, unless it is a trusted proxy that forwarded for someone else.
ClientIP(sock, lines) ==
    LET peer == ParseHostAddr(sock)
        ips == ForwardedFor(lines)
        strangers == {i \in DOMAIN ips : ~InAny(ips[i], Trusted)}
    IN  IF ~PeerTrusted(sock) \/ strangers = {} THEN peer ELSE ips[Nearest(strangers)]

------------------------------------------------------------------------------
(* internal/proxyproto *)

\* ReadHeader: a v1 or v2 header that names a source is unmapped to it, a LOCAL command,
\* UNKNOWN protocol or non-IP family names nobody, anything else is an error.
\* A bare-IPv4 source comes as TCP4/AF_INET, a mapped one as TCP6/AF_INET6.
ReadHeader(h) ==
    CASE h.form \in {"v1", "v2"} -> [err |-> FALSE, local |-> FALSE, src |-> Unmap(h.src)]
      [] h.form = "local"        -> [err |-> FALSE, local |-> TRUE, src |-> NoAddr]
      [] OTHER                   -> [err |-> TRUE, local |-> FALSE, src |-> NoAddr]

\* conn.handshake: the recovered source, or the raw peer for a header without one.
Recovered(sock, h) ==
    IF ReadHeader(h).local \/ ReadHeader(h).src = NoAddr
    THEN sock ELSE [addr |-> ReadHeader(h).src, port |-> TRUE]

------------------------------------------------------------------------------
(* internal/server/handler.go: applyForwardedHeaders *)

Plain(a) == [addr |-> a, port |-> FALSE]

\* X-Forwarded-For on the origin request.  The upgrade path drops or keeps the inbound
\* value and lets the reverse proxy append the socket peer: the same lines either way.
ForwardedChain(sock, lines) ==
    IF PeerTrusted(sock)
    THEN <<FlattenSeq(lines) \o <<Plain(ParseHostAddr(sock))>> >>
    ELSE IF ParseHostAddr(sock) = NoAddr THEN <<>> ELSE <<<<Plain(ParseHostAddr(sock))>>>>

\* X-Forwarded-Proto and -Host, by who set the value: a trusted peer's is kept.
ForwardedScheme(sock, set) == IF PeerTrusted(sock) /\ set # "none" THEN set ELSE "cadish"

\* Forwarded (RFC 7239) is dropped from an untrusted peer.
ForwardedRFC(sock, set) == IF PeerTrusted(sock) THEN set ELSE "none"

------------------------------------------------------------------------------
Hop == Head(route)
RequestOf(lines, scheme, rfc) == [xff |-> lines, real |-> NoAddr, scheme |-> scheme, rfc |-> rfc]

\* The client opens its connection: it may send forwarded headers of its own.
Init ==
    /\ route \in Routes
    /\ \E ip \in Clients, s \in {"client", "none"}, lines \in Claims :
          /\ path = <<[kind |-> "client", ip |-> ip]>>
          /\ \E e \in Spellings(ip) :
                wire = [peer |-> [e EXCEPT !.port = TRUE], header |-> NoHeader,
                        req |-> RequestOf(lines, s, s)]
    /\ conn = "none"
    /\ remote = Junk
    /\ client = NoAddr

\* What the hop ahead is to the next: the socket peer, in one of the two spellings.
PassTo(as, header, req) ==
    /\ path' = Append(path, [Hop EXCEPT !.kind = as])
    /\ route' = Tail(route)
    /\ \E m \in BOOLEAN :
          wire' = [peer |-> [addr |-> <<Hop.ip, m>>, port |-> TRUE],
                   header |-> header, req |-> req]
    /\ conn' = "none"

\* External: a layer-7 proxy appends the peer it saw, on the last line or a new one, and
\* states the scheme and host it was asked with.
Relay ==
    /\ route # <<>> /\ Hop.kind = "proxy"
    /\ \E e \in Spellings(wire.peer.addr[1]), join \in BOOLEAN :
          LET lines == wire.req.xff
              grown == IF join /\ lines # <<>>
                       THEN [lines EXCEPT ![Len(lines)] = Append(@, e)]
                       ELSE Append(lines, <<e>>)
          IN  PassTo("proxy", NoHeader, [wire.req EXCEPT !.xff = grown, !.scheme = "proxy",
                                                        !.rfc = "none"])
    /\ UNCHANGED <<remote, client>>

\* External: a layer-4 balancer announces the peer it saw in a PROXY header.
Balance ==
    /\ route # <<>> /\ Hop.kind = "balancer"
    /\ \/ \E f \in {"v1", "v2"}, m \in BOOLEAN :
             PassTo("balancer", [form |-> f, src |-> <<wire.peer.addr[1], m>>], wire.req)
       \/ \E h \in BadHeaders : PassTo(h.form, h, wire.req)
    /\ UNCHANGED <<remote, client>>

AtNode == route # <<>> /\ Hop.kind \in {"cadish", "cadish_pp"}

\* Listener.Accept (or the bare listener, which takes every peer): an untrusted peer's
\* connection is closed before a byte of it is read.
Accept ==
    /\ AtNode /\ conn = "none"
    /\ conn' = IF Hop.kind = "cadish_pp" /\ ~InAny(Unmap(wire.peer.addr), Balancers)
               THEN "closed" ELSE "accepted"
    /\ remote' = IF Hop.kind = "cadish" THEN wire.peer ELSE Junk
    /\ UNCHANGED <<route, path, wire, client>>

\* conn.handshake on first use, with the read deadline: an error (or the deadline) fails
\* the connection, it never falls back to the raw stream.
Handshake ==
    /\ AtNode /\ conn = "accepted"
    /\ IF Hop.kind = "cadish" THEN conn' = "open" /\ remote' = remote
       ELSE \/ /\ conn' = IF ReadHeader(wire.header).err THEN "closed" ELSE "open"
               /\ remote' = IF ReadHeader(wire.header).err
                            THEN wire.peer ELSE Recovered(wire.peer, wire.header)
            \/ conn' = "closed" /\ remote' = wire.peer
    /\ UNCHANGED <<route, path, wire, client>>

\* ServeHTTP resolves the client and dials the next hop with buildOriginHeader.
Serve ==
    /\ AtNode /\ conn = "open"
    /\ client' = ClientIP(remote, wire.req.xff)
    /\ PassTo(Hop.kind, NoHeader,
                        [xff |-> ForwardedChain(remote, wire.req.xff),
                         real |-> ClientIP(remote, wire.req.xff),
                         scheme |-> ForwardedScheme(remote, wire.req.scheme),
                         rfc |-> ForwardedRFC(remote, wire.req.rfc)])
    /\ UNCHANGED remote

Next == Relay \/ Balance \/ Accept \/ Handshake \/ Serve

Spec == Init /\ [][Next]_vars

------------------------------------------------------------------------------
\* The hops that vouch for who they heard from: trusted proxies (cadish nodes among
\* them), and balancers heard through the PROXY listener.
Vouches(i) ==
    \/ path[i].kind # "client" /\ path[i].ip \in Trusted
    \/ /\ path[i].kind = "balancer" /\ i < Len(path)
       /\ path[i + 1].kind = "cadish_pp" /\ path[i].ip \in Balancers

\* The nearest hop before position n that nobody vouches for.
Attested(n) == path[Nearest({i \in 1 .. n : i = 1 \/ ~Vouches(i)})].ip

LastIsCadish == path[Len(path)].kind \in {"cadish", "cadish_pp"}

\* However many proxies, balancers and cadish nodes a request came through, and whatever
\* forwarded headers its client sent, the address a cadish node resolves (ClientIP, used by
\* the ip ACL, rate limits, {client_ip} and {sticky}) is the nearest sender its trusted hops
\* vouch for; that is what X-Real-IP tells the origin, and the scheme and host it is told
\* are never the untrusted sender's.  Behind the PROXY listener only a balancer of the
\* trust set that sent a valid header is served at all.
AddressAttested ==
    LastIsCadish =>
        /\ client = <<Attested(Len(path) - 1), FALSE>>
        /\ wire.req.real = client
        /\ wire.req.scheme \in {"proxy", "cadish"}
        /\ path[Len(path)].kind = "cadish_pp" =>
              /\ path[Len(path) - 1].ip \in Balancers
              /\ path[Len(path) - 1].kind \in {"balancer", "local"}
==============================================================================
