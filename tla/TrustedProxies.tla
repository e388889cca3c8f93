--------------------------- MODULE TrustedProxies ---------------------------
(***************************************************************************)
(* The client IP of a request that came through reverse proxies:           *)
(* sources/Core/TrustedProxies.cpp.                                        *)
(*                                                                         *)
(* Addresses keep their arithmetic, with Width4 bits for the 32 of IPv4    *)
(* and Width6 for the 128 of IPv6; an IPv6 address whose leading bits are  *)
(* Mapped is an IPv4-mapped one.  A text is the address it denotes, or     *)
(* NoAddress: quotes, brackets, blanks and ports, which parseAddress()     *)
(* strips, are left out.                                                   *)
(***************************************************************************)
EXTENDS Integers, Sequences, FiniteSets, SequencesExt

CONSTANTS
    Width4, Width6,
    Mapped,
    NoAddress       \* a text that is no address

ASSUME WidthAssumption ==
    /\ Width4 \in Nat /\ Width6 \in Nat /\ Width4 < Width6
    /\ Mapped \in 0 .. 2 ^ (Width6 - Width4) - 1

Address4 == [v : {4}, bits : 0 .. 2 ^ Width4 - 1]
Address6 == [v : {6}, bits : 0 .. 2 ^ Width6 - 1]
Address == Address4 \cup Address6
Text == Address \cup {NoAddress}

NoPrefix == -1      \* a CIDR without a slash

width(v) == IF v = 4 THEN Width4 ELSE Width6

\* normalize(): IPv4-mapped addresses are IPv4
normalize(a) ==
    IF a.v = 6 /\ a.bits \div 2 ^ Width4 = Mapped
    THEN [v |-> 4, bits |-> a.bits % 2 ^ Width4]
    ELSE a

ASSUME NoAddressAssumption ==
    NoAddress \notin Address \cup {normalize(a) : a \in Address}

parseAddress(text) == IF text = NoAddress THEN NoAddress ELSE normalize(text)

\* network_v4::canonical(), network_v6::canonical(): the host bits are cleared
canonical(a, prefix) ==
    LET hosts == 2 ^ (width(a.v) - prefix)
    IN  [v |-> a.v, bits |-> (a.bits \div hosts) * hosts, prefix |-> prefix]

\* add(): the prefix is checked against the address it is for once normalized
validCidr(cidr) ==
    LET a == parseAddress(cidr.text)
    IN  a # NoAddress /\ (cidr.prefix = NoPrefix \/ cidr.prefix <= width(a.v))

network(cidr) ==
    LET a == parseAddress(cidr.text)
    IN  canonical(a, IF cidr.prefix = NoPrefix THEN width(a.v) ELSE cidr.prefix)

\* contains()
contains(list, a) ==
    LET ip == normalize(a)
    IN  \E n \in list : n.v = ip.v /\ canonical(ip, n.prefix) = n

\* resolve(): the hops that end the walk from right to left, an address we do not
\* trust or no address at all
stops(list, hops) ==
    {i \in 1 .. Len(hops) :
        \/ parseAddress(hops[i]) = NoAddress
        \/ ~contains(list, parseAddress(hops[i]))}

\* resolve(): the walk
walk(list, peer, hops) ==
    LET last == CHOOSE i \in stops(list, hops) \cup {0} :
                    \A j \in stops(list, hops) : j <= i
    IN  IF last > 0 /\ parseAddress(hops[last]) # NoAddress THEN parseAddress(hops[last])
        ELSE IF last = Len(hops) THEN peer
        ELSE parseAddress(hops[last + 1])

\* resolve(), with the lists of all X-Forwarded-For headers in forwarded
resolve(list, peer, forwarded, real_ip) ==
    LET p == parseAddress(peer)
    IN  IF p = NoAddress \/ list = {} \/ ~contains(list, p) THEN p
        ELSE IF forwarded # <<>> THEN walk(list, p, forwarded)
        ELSE IF parseAddress(real_ip) # NoAddress THEN parseAddress(real_ip)
        ELSE p

(***************************************************************************)
(* What resolve() is for.  A request of the client came[1] passed the      *)
(* proxies came[2], ..., each of which appended the address it got the     *)
(* request from; the last one is our peer.  Whatever the client wrote      *)
(* itself, forged, the client IP is the address nearest to us that is not  *)
(* one of our proxies.                                                     *)
(***************************************************************************)
appended(forged, came) == forged \o Front(came)

nearestUntrusted(list, came) ==
    LET outside == {i \in 1 .. Len(came) : ~contains(list, came[i])}
    IN  normalize(came[CHOOSE i \in outside : \A j \in outside : j <= i])

=============================================================================
