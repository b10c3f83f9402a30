---------------------------- MODULE ProxyHeader ----------------------------
(***************************************************************************)
(* The PROXY protocol header a layer-4 balancer puts before the client's   *)
(* bytes (internal/proxyproto/proxyproto.go).  The stream is read once: a  *)
(* byte too many belongs to the request, a byte too few turns the rest of  *)
(* the header into the start of the request.                               *)
(*                                                                         *)
(* A stream is a sequence of units.  In a v1 line a unit is a field (the   *)
(* single space between fields is implied) or a line end, "CRLF" or a bare *)
(* "LF"; in a v2 header it is the signature, the version and command, the  *)
(* family, the length, or one address or TLV of the address block.         *)
(* Addresses: "4" is IPv4, "6" is IPv6, "m" an IPv4-mapped IPv6.           *)
(***************************************************************************)
EXTENDS Integers, SequencesExt

CONSTANT MaxV1Line      \* maxV1Line, in units

Failed(rest) == [ok |-> FALSE, local |-> FALSE, src |-> "", dst |-> "", rest |-> rest]
Local(rest) == [ok |-> TRUE, local |-> TRUE, src |-> "", dst |-> "", rest |-> rest]
Tuple(src, dst, rest) == [ok |-> TRUE, local |-> FALSE, src |-> src, dst |-> dst, rest |-> rest]

Take(s, n) == SubSeq(s, 1, n)
Rest(s, n) == SubSeq(s, n + 1, Len(s))

-----------------------------------------------------------------------------
(* Version 1 *)

\* Mutant: an address keeps the form it was written in.
AsWritten(a) == a

\* netip.Addr.Unmap.
Unmap(a) == IF a = "m" THEN "4" ELSE a

\* parseV1AddrPort: the announced family, a decimal port of 16 bits; "" is the error.
ParseV1AddrPort(ip, port, wantV4) ==
  IF ip \in (IF wantV4 THEN {"4"} ELSE {"6", "m"}) /\ port = "port" THEN Unmap(ip) ELSE ""

\* readV1Line: the units up to the first line end, 0 when the bound or the end of
\* the stream comes first.
ReadV1Line(s) ==
  LET ends == {i \in 1..Len(s) : i <= MaxV1Line /\ s[i] \in {"CRLF", "LF"}}
  IN IF ends = {} THEN 0 ELSE CHOOSE i \in ends : \A j \in ends : i <= j

ReadV1(s) ==
  LET n == ReadV1Line(s)
      rest == Rest(s, n)
      fields == Take(s, n - 1)
      wantV4 == fields[2] = "TCP4"
      src == ParseV1AddrPort(fields[3], fields[5], wantV4)
      dst == ParseV1AddrPort(fields[4], fields[6], wantV4)
  IN IF n = 0 THEN Failed(<< >>)
     ELSE IF s[n] # "CRLF" \/ n - 1 < 2 THEN Failed(rest)
     ELSE IF fields[2] = "UNKNOWN" THEN Local(rest)
     ELSE IF fields[2] \notin {"TCP4", "TCP6"} \/ n - 1 # 6 THEN Failed(rest)
     ELSE IF src = "" \/ dst = "" THEN Failed(rest)
     ELSE Tuple(src, dst, rest)

-----------------------------------------------------------------------------
(* Version 2 *)

Lengths == [x \in {"len0", "len2", "len3", "len4"} |->
              CASE x = "len0" -> 0 [] x = "len2" -> 2 [] x = "len3" -> 3 [] x = "len4" -> 4]
\* Units an address block must have: two addresses; IPv6 ones are longer.
Needed(fam) == IF fam = "INET" THEN 2 ELSE 3

\* Mutant: only the addresses are read, TLVs are left in the stream.
AddressesOnly(fam, n) == IF fam = "INET" THEN 2 ELSE IF fam = "INET6" THEN 3 ELSE n

\* How much of the stream the address block takes: the declared length.
BlockLen(fam, n) == n

\* readV2: the fixed block, then the declared block, whatever the command.
ReadV2(s) ==
  LET n == BlockLen(s[3], Lengths[s[4]])
      addr == Rest(Take(s, 4 + n), 4)
      rest == Rest(s, 4 + n)
  IN IF Len(s) < 4 \/ s[2] \notin {"v2local", "v2proxy"} THEN Failed(Rest(s, 4))
     ELSE IF s[4] \notin DOMAIN Lengths THEN Failed(Rest(s, 4))
     ELSE IF Len(s) < 4 + n THEN Failed(<< >>)
     ELSE IF s[2] = "v2local" \/ s[3] \in {"UNSPEC", "UNIX"} THEN Local(rest)
     ELSE IF s[3] \notin {"INET", "INET6"} \/ n < Needed(s[3]) THEN Failed(rest)
     ELSE Tuple(Unmap(addr[1]), Unmap(addr[2]), rest)

\* ReadHeader: the signature, else the text prefix, else an error.
ReadHeader(s) ==
  IF s # << >> /\ s[1] = "SIG" THEN ReadV2(s)
  ELSE IF s # << >> /\ s[1] = "PROXY" THEN ReadV1(s)
  ELSE Failed(s)

-----------------------------------------------------------------------------
(* Reference: the headers of the protocol, as the texts a balancer writes. *)

Bare(a) == IF a = "m" THEN "4" ELSE a

\* s starts with the first n units of a v1 header that names src and dst.
IsV1(s, n) ==
  /\ n \in 1..Len(s) /\ n <= MaxV1Line /\ s[1] = "PROXY" /\ s[n] = "CRLF"
  /\ \A i \in 1..(n - 1) : s[i] \notin {"CRLF", "LF"}
  /\ \/ n >= 3 /\ s[2] = "UNKNOWN"
     \/ n = 7 /\ s[2] = "TCP4" /\ s[3] = "4" /\ s[4] = "4" /\ s[5] = "port" /\ s[6] = "port"
     \/ n = 7 /\ s[2] = "TCP6" /\ {s[3], s[4]} \subseteq {"6", "m"} /\ s[5] = "port" /\ s[6] = "port"

IsV2(s, n) ==
  /\ n \in 4..Len(s) /\ s[1] = "SIG" /\ s[2] \in {"v2local", "v2proxy"}
  /\ s[4] \in DOMAIN Lengths /\ n = 4 + Lengths[s[4]]
  /\ \/ s[2] = "v2local" \/ s[3] \in {"UNSPEC", "UNIX"}
     \/ s[3] = "INET" /\ n >= 6
     \/ s[3] = "INET6" /\ n >= 7

Names(s) ==
  IF s[1] = "PROXY" THEN IF s[2] = "UNKNOWN" THEN <<"", "">> ELSE <<Bare(s[3]), Bare(s[4])>>
  ELSE IF s[2] = "v2local" \/ s[3] \in {"UNSPEC", "UNIX"} THEN <<"", "">> ELSE <<Bare(s[5]), Bare(s[6])>>

\* A stream is accepted exactly when it starts with a whole header of either version;
\* then the client's address is the one the header names, in the same form for both
\* versions, nobody for a health check or an unknown family, and what is left is
\* exactly what the client sent: no TLV, field or line end of the header remains and
\* nothing of the request is swallowed (ReadHeader, readV1, readV2).
HeaderExact(s) ==
  LET ns == {n \in 1..Len(s) : IsV1(s, n) \/ IsV2(s, n)}
      r == ReadHeader(s)
  IN /\ r.ok = (ns # {})
     /\ \A n \in ns : /\ r.rest = Rest(s, n)
                      /\ <<r.src, r.dst>> = Names(s)
                      /\ r.local = (Names(s) = <<"", "">>)
=============================================================================
