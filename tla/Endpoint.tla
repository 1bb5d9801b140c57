------------------------------ MODULE Endpoint ------------------------------
(***************************************************************************)
(* Where an action's request goes (steps 2, 3 and 9 of execute_action in   *)
(* src/src/action/mod.rs): the endpoint attribute is resolved, the         *)
(* addresses of its host are looked at, and its origin is what the budget  *)
(* counts.  A reference, as written in a document, has a kind: absolute,   *)
(* rooted, path, network ("//host") or bad; `url` holds what it gives.     *)
(***************************************************************************)
EXTENDS Configuration

\* A host is a set of at most one; mailto: has none.  A path is a sequence of segments.
Url(scheme, host, port, path) ==
    [scheme |-> scheme, host |-> host, port |-> port, path |-> path]

Reference ==
    [kind : {"absolute", "rooted", "path", "network", "bad"},
     url : [scheme : STRING, host : SUBSET STRING, port : SUBSET Nat, path : Seq(STRING)]]

\* external: Url::parse takes absolute references only ...
ParseUrl(ref) == IF ref.kind = "absolute" THEN {ref.url} ELSE {}

\* ... and Url::join resolves the others, a path in place of the base's last segment.
Join(base, ref) ==
    CASE ref.kind = "rooted" -> {[base EXCEPT !.path = ref.url.path]}
      [] ref.kind = "path" ->
            {[base EXCEPT !.path = (IF @ = << >> THEN @ ELSE Front(@)) \o ref.url.path]}
      [] ref.kind = "network" ->
            {[base EXCEPT !.host = ref.url.host, !.port = ref.url.port, !.path = ref.url.path]}
      [] OTHER -> {}

\* xml:base goes before the document's origin, even where it cannot be parsed itself.
BaseOf(x) == CHOOSE ref \in (IF x.xml_base # {} THEN x.xml_base ELSE {x.origin}) : TRUE

ResolveEndpoint(x) ==
    IF ParseUrl(x.endpoint) # {} THEN ParseUrl(x.endpoint)
    ELSE UNION {Join(base, x.endpoint) : base \in ParseUrl(BaseOf(x))}

OriginOf(url) ==
    [scheme |-> url.scheme, host |-> url.host,
     port |-> IF url.scheme \in DOMAIN StandardPort THEN NamedPort(url) ELSE url.port]

-----------------------------------------------------------------------------
(* The addresses of a host: a sequence of 4 octets, or of 16.               *)

Address == [1..4 -> 0..255] \cup [1..16 -> 0..255]

\* An octet without its bits below `unit`: the masks 0xF0 and 0xFE.
Masked(octet, unit) == octet - (octet % unit)

FaultyIsPrivateIp(ip) ==
    IF Len(ip) = 4
    THEN \/ ip[1] \in {127, 10}
         \/ ip[1] = 172 /\ ip[2] = 16
         \/ ip[1] = 192 /\ ip[2] = 168
         \/ ip = <<0, 0, 0, 0>>
    ELSE \/ (\A i \in 1..15 : ip[i] = 0) /\ ip[16] \in {0, 1}
         \/ Masked(ip[1], 2) = 252

\* is_private_ip: loopback, private networks, and the unspecified address.
IsPrivateIp(ip) ==
    IF Len(ip) = 4
    THEN \/ ip[1] \in {127, 10}
         \/ ip[1] = 172 /\ Masked(ip[2], 16) = 16
         \/ ip[1] = 192 /\ ip[2] = 168
         \/ ip = <<0, 0, 0, 0>>
    ELSE \/ (\A i \in 1..15 : ip[i] = 0) /\ ip[16] \in {0, 1}
         \/ Masked(ip[1], 2) = 252

\* check_ssrf: one private address is enough; a lookup that fails yields none, and the
\* host passes.  `addresses` is what the lookup says, or the address the host spells.
CheckSsrf(url, addresses) ==
    IF url.host = {} THEN "malformed"
    ELSE IF \E host \in url.host : \E ip \in addresses[host] : IsPrivateIp(ip) THEN "blocked"
    ELSE "ok"

\* The steps that direct a request.
Direct(x) ==
    IF ResolveEndpoint(x) = {} THEN [outcome |-> "malformed"]
    ELSE LET url == CHOOSE u \in ResolveEndpoint(x) : TRUE
             verdict == CheckSsrf(url, x.addresses)
         IN  IF verdict # "ok" THEN [outcome |-> verdict]
             ELSE [outcome |-> "ok", url |-> url, origin |-> OriginOf(url)]

-----------------------------------------------------------------------------
(* The networks the documentation lists, by their leading bits.             *)

Zeros(n) == [i \in 1..n |-> 0]

ReservedNetworks ==
    {[address |-> <<127, 0, 0, 0>>, bits |-> 8], [address |-> <<10, 0, 0, 0>>, bits |-> 8],
     [address |-> <<172, 16, 0, 0>>, bits |-> 12],
     [address |-> <<192, 168, 0, 0>>, bits |-> 16], [address |-> Zeros(4), bits |-> 32],
     [address |-> Append(Zeros(15), 1), bits |-> 128], [address |-> Zeros(16), bits |-> 128],
     [address |-> <<252>> \o Zeros(15), bits |-> 7]}

\* The k-th bit of an address, from the left.
Bit(ip, k) == (ip[(k - 1) \div 8 + 1] \div 2 ^ (7 - ((k - 1) % 8))) % 2

Reserved(ip) ==
    \E net \in ReservedNetworks :
        /\ Len(net.address) = Len(ip)
        /\ \A k \in 1..net.bits : Bit(ip, k) = Bit(net.address, k)
=============================================================================
