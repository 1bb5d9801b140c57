-------------------------- MODULE AlgorithmsProofs --------------------------
(***************************************************************************)
(* Theorems about the functions that Algorithms calls, for every input.    *)
(* The invariants they rest on are defined in AlgorithmsInvariants.        *)
(***************************************************************************)
EXTENDS AlgorithmsInvariants, WellFoundedInduction, FiniteSetTheorems, TLAPS

-----------------------------------------------------------------------------
(* What a call returned is what its function computes.                      *)

\* Every call is answered by its own function, and once.
LEMMA AnsweredAlways == Spec => []Answered
<1>1. Init => Answered
  BY DEF Init, Answered, Returned
<1>2. Answered /\ [Next]_vars => Answered'
  BY DEF Answered, Next, vars, Returned, Calling, ResolvesRule, ExecutesRequest,
         DirectsRequest, AttemptsFetch, Discovers, VerifiesMedia, BuildsClient,
         ValidatesValue
<1> QED
  BY <1>1, <1>2, PTL DEF Spec

-----------------------------------------------------------------------------
(* Least and largest elements.                                              *)

\* A nonempty set of naturals has a least element.
LEMMA SmallestNat ==
    ASSUME NEW S \in SUBSET Nat, S # {}
    PROVE  \E i \in S : \A j \in S : i <= j
<1>1. \A x, y \in Nat : <<y, x>> \in LessThan <=> y < x
  BY DEF LessThan
<1>2. IsWellFoundedOn(LessThan, Nat)
  BY NatLessThanWellFounded DEF OpToRel, LessThan
<1>3. PICK x \in S : \A y \in S : ~ (<<y, x>> \in LessThan)
  BY <1>2, WFMin
<1>4. ASSUME NEW y \in S PROVE x <= y
  <2>1. x \in Nat /\ y \in Nat
    BY <1>3
  <2>2. ~ (y < x)
    BY <1>1, <1>3, <2>1, Zenon
  <2> QED
    BY <2>1, <2>2
<1> QED
  BY <1>4

\* One that is bounded has a largest.
LEMMA LargestNat ==
    ASSUME NEW n \in Nat, NEW S \in SUBSET (0..n), S # {}
    PROVE  \E i \in S : \A j \in S : j <= i
<1> DEFINE mirrored == {n - i : i \in S}
<1>1. mirrored \in SUBSET Nat /\ mirrored # {}
  <2>1. \A i \in S : n - i \in Nat
    OBVIOUS
  <2>2. mirrored \subseteq Nat
    BY <2>1
  <2>3. PICK i \in S : TRUE
    OBVIOUS
  <2>4. n - i \in mirrored
    BY <2>3
  <2> QED
    BY <2>2, <2>4
<1>2. PICK k \in mirrored : \A j \in mirrored : k <= j
  <2> HIDE DEF mirrored
  <2> QED
    BY <1>1, SmallestNat
<1>3. PICK i \in S : k = n - i
  BY <1>2
<1>4. ASSUME NEW j \in S PROVE j <= i
  <2>1. n - j \in mirrored
    OBVIOUS
  <2>2. n - i <= n - j
    BY <1>2, <1>3, <2>1
  <2> QED
    BY <2>2
<1> QED
  BY <1>4

-----------------------------------------------------------------------------
(* Integrity.                                                               *)

LEMMA Strengths ==
    /\ Strength("sha256") = 1 /\ Strength("sha384") = 2 /\ Strength("sha512") = 3
  BY DEF Strength, Algorithms

\* Among the tokens that are kept, one is the last of the strongest.
LEMMA StrongestExists ==
    ASSUME NEW attr, IsList(attr), ParseIntegrityAttr(attr) # {}
    PROVE  \E i \in ParseIntegrityAttr(attr) :
              \A j \in ParseIntegrityAttr(attr) :
                  \/ Strength(attr[j].algorithm) < Strength(attr[i].algorithm)
                  \/ /\ Strength(attr[j].algorithm) = Strength(attr[i].algorithm)
                     /\ j <= i
<1> DEFINE kept == ParseIntegrityAttr(attr)
           strength(i) == Strength(attr[i].algorithm)
           level(k) == {i \in kept : strength(i) = k}
<1>1. kept \in SUBSET (0..Len(attr)) /\ Len(attr) \in Nat
  BY DEF ParseIntegrityAttr, IsList
<1>2. \A i \in kept : strength(i) \in {1, 2, 3}
  BY Strengths DEF ParseIntegrityAttr, Algorithms
<1> HIDE DEF kept, strength
<1>3. ASSUME NEW k \in {1, 2, 3}, level(k) # {}, \A j \in kept : strength(j) <= k
      PROVE  \E i \in kept : \A j \in kept :
                  strength(j) < strength(i) \/ (strength(j) = strength(i) /\ j <= i)
  <2>1. PICK i \in level(k) : \A j \in level(k) : j <= i
    <3>1. level(k) \in SUBSET (0..Len(attr))
      BY <1>1
    <3> QED
      BY <1>1, <1>3, <3>1, LargestNat
  <2>2. ASSUME NEW j \in kept
        PROVE  strength(j) < strength(i) \/ (strength(j) = strength(i) /\ j <= i)
    BY <1>2, <1>3, <2>1
  <2> QED
    BY <2>1, <2>2
<1>4. \E k \in {1, 2, 3} : level(k) # {} /\ \A j \in kept : strength(j) <= k
  <2>1. CASE level(3) # {}
    BY <1>2, <2>1
  <2>2. CASE level(3) = {} /\ level(2) # {}
    BY <1>2, <2>2
  <2>3. CASE level(3) = {} /\ level(2) = {}
    <3>1. kept # {}
      BY DEF kept
    <3>2. \A j \in kept : strength(j) = 1
      BY <1>2, <2>3
    <3> QED
      BY <3>1, <3>2
  <2> QED
    BY <2>1, <2>2, <2>3
<1> QED
  BY <1>3, <1>4 DEF kept, strength

\* Bytes that pass are those a strongest token names, and if all strongest tokens name
\* the bytes they pass, for attributes of any length.
THEOREM StrongestTokenDecides == Spec => []StrongestDecides
<1>1. Answered => StrongestDecides
  <2> SUFFICES ASSUME Answered, Returned("media"), call.integrity # {}
               PROVE  StrongestDecides
    BY DEF StrongestDecides
  <2> DEFINE attr == Only(call.integrity)
             kept == ParseIntegrityAttr(attr)
             known == {i \in DOMAIN attr : attr[i].algorithm \in Range(Algorithms)}
             strength(i) == Strength(attr[i].algorithm)
             strongest == {i \in known : \A j \in known : strength(j) <= strength(i)}
             names(i) == attr[i].digest = DigestOf(attr[i].algorithm, call.bytes)
             best == CHOOSE i \in kept :
                        \A j \in kept : \/ strength(j) < strength(i)
                                        \/ strength(j) = strength(i) /\ j <= i
  <2>1. IsList(attr) /\ result = VerifyIntegrity(call.bytes, attr)
    BY MediaAssumption DEF Answered, Only, Returned
  <2>2. known = kept
    BY DEF ParseIntegrityAttr, Range
  <2>3. \A i \in kept : strength(i) \in {1, 2, 3}
    BY Strengths DEF ParseIntegrityAttr, Algorithms
  <2>4. kept # {} => /\ best \in kept
                     /\ \A j \in kept : \/ strength(j) < strength(best)
                                        \/ strength(j) = strength(best) /\ j <= best
    <3> HIDE DEF attr
    <3> QED
      BY <2>1, StrongestExists
  <2>5. kept # {} => best \in strongest
    <3> HIDE DEF kept, strength, best, known
    <3> QED
      BY <2>2, <2>3, <2>4
  <2>6. SelectStrongest(attr) = attr[best]
    BY DEF SelectStrongest
  <2>7. strongest # {} => kept # {}
    BY <2>2
  <2>8. result = "ok" <=> kept # {} /\ names(best)
    <3> HIDE DEF best, attr
    <3> QED
      BY <2>1, <2>6 DEF VerifyIntegrity
  <2> HIDE DEF kept, best, names, strongest
  <2>9. /\ result = "ok" => \E i \in strongest : names(i)
        /\ (strongest # {} /\ \A i \in strongest : names(i)) => result = "ok"
    BY <2>5, <2>7, <2>8
  <2> QED
    BY <2>9 DEF StrongestDecides, strongest, names
<1> QED
  BY <1>1, AnsweredAlways, PTL

-----------------------------------------------------------------------------
(* The endpoint of an action.                                               *)

\* Clearing the bits below 16 leaves the high four, below 2 the high seven.
LEMMA MaskedNibble ==
    ASSUME NEW o \in 0..255
    PROVE  /\ Masked(o, 16) = 16 <=> /\ (o \div 128) % 2 = 0 /\ (o \div 64) % 2 = 0
                                     /\ (o \div 32) % 2 = 0 /\ (o \div 16) % 2 = 1
           /\ Masked(o, 2) = 252 <=> /\ (o \div 128) % 2 = 1 /\ (o \div 64) % 2 = 1
                                     /\ (o \div 32) % 2 = 1 /\ (o \div 16) % 2 = 1
                                     /\ (o \div 8) % 2 = 1 /\ (o \div 4) % 2 = 1
                                     /\ (o \div 2) % 2 = 0
  BY DEF Masked

LEMMA Powers ==
    /\ 2 ^ 0 = 1 /\ 2 ^ 1 = 2 /\ 2 ^ 2 = 4 /\ 2 ^ 3 = 8
    /\ 2 ^ 4 = 16 /\ 2 ^ 5 = 32 /\ 2 ^ 6 = 64 /\ 2 ^ 7 = 128
  OBVIOUS

\* The m-th bit of the j-th octet.
LEMMA BitOfOctet ==
    ASSUME NEW ip, NEW j \in Nat \ {0}, NEW m \in 1..8
    PROVE  Bit(ip, 8 * (j - 1) + m) = (ip[j] \div 2 ^ (8 - m)) % 2
<1>1. /\ (8 * (j - 1) + m - 1) \div 8 + 1 = j
      /\ (8 * (j - 1) + m - 1) % 8 = m - 1
  OBVIOUS
<1>2. 7 - (m - 1) = 8 - m
  OBVIOUS
<1> QED
  BY <1>1, <1>2 DEF Bit

LEMMA BitsOfOctet ==
    ASSUME NEW ip, NEW j \in Nat \ {0}
    PROVE  /\ Bit(ip, 8 * (j - 1) + 1) = (ip[j] \div 128) % 2
           /\ Bit(ip, 8 * (j - 1) + 2) = (ip[j] \div 64) % 2
           /\ Bit(ip, 8 * (j - 1) + 3) = (ip[j] \div 32) % 2
           /\ Bit(ip, 8 * (j - 1) + 4) = (ip[j] \div 16) % 2
           /\ Bit(ip, 8 * (j - 1) + 5) = (ip[j] \div 8) % 2
           /\ Bit(ip, 8 * (j - 1) + 6) = (ip[j] \div 4) % 2
           /\ Bit(ip, 8 * (j - 1) + 7) = (ip[j] \div 2) % 2
           /\ Bit(ip, 8 * (j - 1) + 8) = (ip[j] \div 1) % 2
<1>1. \A m \in 1..8 : Bit(ip, 8 * (j - 1) + m) = (ip[j] \div 2 ^ (8 - m)) % 2
  BY BitOfOctet
<1>2. /\ 2 ^ (8 - 1) = 128 /\ 2 ^ (8 - 2) = 64 /\ 2 ^ (8 - 3) = 32 /\ 2 ^ (8 - 4) = 16
      /\ 2 ^ (8 - 5) = 8 /\ 2 ^ (8 - 6) = 4 /\ 2 ^ (8 - 7) = 2 /\ 2 ^ (8 - 8) = 1
  BY Powers
<1> QED
  BY <1>1, <1>2

\* Octets with the same bits are the same.
LEMMA OctetOfBits ==
    ASSUME NEW a \in 0..255, NEW b \in 0..255,
           (a \div 128) % 2 = (b \div 128) % 2, (a \div 64) % 2 = (b \div 64) % 2,
           (a \div 32) % 2 = (b \div 32) % 2, (a \div 16) % 2 = (b \div 16) % 2,
           (a \div 8) % 2 = (b \div 8) % 2, (a \div 4) % 2 = (b \div 4) % 2,
           (a \div 2) % 2 = (b \div 2) % 2, (a \div 1) % 2 = (b \div 1) % 2
    PROVE  a = b
<1>1. a \div 128 = b \div 128
  <2>1. a \div 128 \in 0..1 /\ b \div 128 \in 0..1
    OBVIOUS
  <2> QED
    BY <2>1
<1>2. a \div 64 = b \div 64
  BY <1>1
<1>3. a \div 32 = b \div 32
  BY <1>2, SMTT(60)
<1>4. a \div 16 = b \div 16
  BY <1>3, SMTT(60)
<1>5. a \div 8 = b \div 8
  BY <1>4, SMTT(60)
<1>6. a \div 4 = b \div 4
  BY <1>5
<1>7. a \div 2 = b \div 2
  BY <1>6
<1>8. a \div 1 = b \div 1
  BY <1>7
<1> QED
  BY <1>8

\* Two addresses agree in the bits of their first octets iff in the octets.
LEMMA SameOctets ==
    ASSUME NEW n \in Nat, NEW ip, NEW net,
           \A j \in 1..n : ip[j] \in 0..255 /\ net[j] \in 0..255
    PROVE  SameBits(ip, net, 8 * n) <=> \A j \in 1..n : ip[j] = net[j]
<1>1. ASSUME SameBits(ip, net, 8 * n), NEW j \in 1..n
      PROVE  ip[j] = net[j]
  <2>1. \A m \in 1..8 : 8 * (j - 1) + m \in 1..(8 * n)
    OBVIOUS
  <2>2. \A m \in 1..8 : Bit(ip, 8 * (j - 1) + m) = Bit(net, 8 * (j - 1) + m)
    BY <1>1, <2>1 DEF SameBits
  <2>3. j \in Nat \ {0} /\ ip[j] \in 0..255 /\ net[j] \in 0..255
    OBVIOUS
  <2>4. /\ (ip[j] \div 128) % 2 = (net[j] \div 128) % 2
        /\ (ip[j] \div 64) % 2 = (net[j] \div 64) % 2
        /\ (ip[j] \div 32) % 2 = (net[j] \div 32) % 2
        /\ (ip[j] \div 16) % 2 = (net[j] \div 16) % 2
        /\ (ip[j] \div 8) % 2 = (net[j] \div 8) % 2
        /\ (ip[j] \div 4) % 2 = (net[j] \div 4) % 2
        /\ (ip[j] \div 2) % 2 = (net[j] \div 2) % 2
        /\ (ip[j] \div 1) % 2 = (net[j] \div 1) % 2
    BY <2>2, <2>3, BitsOfOctet
  <2> QED
    BY <2>3, <2>4, OctetOfBits, ZenonT(40)
<1>2. ASSUME \A j \in 1..n : ip[j] = net[j], NEW k \in 1..(8 * n)
      PROVE  Bit(ip, k) = Bit(net, k)
  <2>1. (k - 1) \div 8 + 1 \in 1..n
    OBVIOUS
  <2> QED
    BY <1>2, <2>1 DEF Bit
<1> QED
  BY <1>1, <1>2 DEF SameBits

LEMMA AppendEffect ==
    ASSUME NEW S, NEW s \in Seq(S), NEW e
    PROVE  /\ Len(Append(s, e)) = Len(s) + 1
           /\ Append(s, e)[Len(s) + 1] = e
           /\ \A j \in 1..Len(s) : Append(s, e)[j] = s[j]
  OBVIOUS

LEMMA ConcatEffect ==
    ASSUME NEW S, NEW s \in Seq(S), NEW t \in Seq(S)
    PROVE  /\ s \o t \in Seq(S)
           /\ Len(s \o t) = Len(s) + Len(t)
           /\ \A j \in 1..Len(s) : (s \o t)[j] = s[j]
           /\ \A j \in 1..Len(t) : (s \o t)[Len(s) + j] = t[j]
  OBVIOUS

\* The lengths and the octets of the networks' addresses.
LEMMA NetworkOctets ==
    /\ Len(Zeros(4)) = 4 /\ \A j \in 1..4 : Zeros(4)[j] = 0
    /\ Len(Zeros(16)) = 16 /\ \A j \in 1..16 : Zeros(16)[j] = 0
    /\ Len(Loopback6) = 16 /\ Loopback6[16] = 1 /\ \A j \in 1..15 : Loopback6[j] = 0
    /\ Len(UniqueLocal6) = 16 /\ UniqueLocal6[1] = 252
<1>1. \A n \in Nat : /\ Zeros(n) \in Seq(Nat) /\ Len(Zeros(n)) = n
                     /\ \A j \in 1..n : Zeros(n)[j] = 0
  BY DEF Zeros
<1>2. /\ Zeros(15) \in Seq(Nat) /\ Len(Zeros(15)) = 15
      /\ \A j \in 1..15 : Zeros(15)[j] = 0
  BY <1>1
<1> DEFINE z == Zeros(15)
           first == <<252>>
<1>3. /\ z \in Seq(Nat) /\ first \in Seq(Nat)
      /\ Loopback6 = Append(z, 1) /\ UniqueLocal6 = first \o z
  BY <1>2 DEF Loopback6, UniqueLocal6
<1>4. /\ Len(z) = 15 /\ \A j \in 1..15 : z[j] = 0
      /\ Len(first) = 1 /\ first[1] = 252
  BY <1>2
<1> HIDE DEF z, first
<1>5. /\ Len(Loopback6) = Len(z) + 1
      /\ Loopback6[Len(z) + 1] = 1
      /\ \A j \in 1..Len(z) : Loopback6[j] = z[j]
  BY <1>3, AppendEffect
<1>6. /\ Len(UniqueLocal6) = Len(first) + Len(z)
      /\ \A j \in 1..Len(first) : UniqueLocal6[j] = first[j]
  BY <1>3, ConcatEffect
<1>7. /\ Len(Zeros(4)) = 4 /\ \A j \in 1..4 : Zeros(4)[j] = 0
      /\ Len(Zeros(16)) = 16 /\ \A j \in 1..16 : Zeros(16)[j] = 0
  BY <1>1
<1>8. Len(Loopback6) = 16 /\ Loopback6[16] = 1 /\ \A j \in 1..15 : Loopback6[j] = 0
  BY <1>4, <1>5
<1>9. Len(UniqueLocal6) = 16 /\ UniqueLocal6[1] = 252
  <2>1. UniqueLocal6[1] = first[1]
    BY <1>4, <1>6
  <2> QED
    BY <1>4, <1>6, <2>1
<1> QED
  BY <1>7, <1>8, <1>9

LEMMA ReservedCases ==
    ASSUME NEW ip
    PROVE  Reserved(ip) <=> \/ InNetwork(ip, <<127, 0, 0, 0>>, 8)
                            \/ InNetwork(ip, <<10, 0, 0, 0>>, 8)
                            \/ InNetwork(ip, <<172, 16, 0, 0>>, 12)
                            \/ InNetwork(ip, <<192, 168, 0, 0>>, 16)
                            \/ InNetwork(ip, Zeros(4), 32)
                            \/ InNetwork(ip, Loopback6, 128)
                            \/ InNetwork(ip, Zeros(16), 128)
                            \/ InNetwork(ip, UniqueLocal6, 7)
<1>1. Reserved(ip) <=> \E net \in ReservedNetworks : InNetwork(ip, net.address, net.bits)
  BY DEF Reserved, InNetwork, SameBits
<1>2. ReservedNetworks =
        {[address |-> <<127, 0, 0, 0>>, bits |-> 8], [address |-> <<10, 0, 0, 0>>, bits |-> 8],
         [address |-> <<172, 16, 0, 0>>, bits |-> 12],
         [address |-> <<192, 168, 0, 0>>, bits |-> 16], [address |-> Zeros(4), bits |-> 32],
         [address |-> Loopback6, bits |-> 128], [address |-> Zeros(16), bits |-> 128],
         [address |-> UniqueLocal6, bits |-> 7]}
  BY Zenon DEF ReservedNetworks, Loopback6, UniqueLocal6
<1>3. \A a, b : [address |-> a, bits |-> b].address = a /\ [address |-> a, bits |-> b].bits = b
  OBVIOUS
<1> QED
  BY <1>1, <1>2, <1>3, SMT

\* An octet, a part of the second one, and the first seven bits.
LEMMA LeadingBits ==
    ASSUME NEW ip, NEW net, ip[1] \in 0..255, ip[2] \in 0..255
    PROVE  /\ net[1] = 172 /\ net[2] = 16 =>
                (SameBits(ip, net, 12) <=> ip[1] = 172 /\ Masked(ip[2], 16) = 16)
           /\ net[1] = 252 => (SameBits(ip, net, 7) <=> Masked(ip[1], 2) = 252)
<1>1. ASSUME net[1] = 172, net[2] = 16
      PROVE  SameBits(ip, net, 12) <=> ip[1] = 172 /\ Masked(ip[2], 16) = 16
  <2>1. SameBits(ip, net, 12) <=> /\ SameBits(ip, net, 8 * 1)
                                  /\ Bit(ip, 9) = Bit(net, 9) /\ Bit(ip, 10) = Bit(net, 10)
                                  /\ Bit(ip, 11) = Bit(net, 11) /\ Bit(ip, 12) = Bit(net, 12)
    <3>1. 1..12 = (1..(8 * 1)) \cup {9, 10, 11, 12}
      OBVIOUS
    <3> QED
      BY <3>1 DEF SameBits
  <2>2. SameBits(ip, net, 8 * 1) <=> ip[1] = 172
    <3>1. \A j \in 1..1 : ip[j] \in 0..255 /\ net[j] \in 0..255
      BY <1>1
    <3>2. SameBits(ip, net, 8 * 1) <=> \A j \in 1..1 : ip[j] = net[j]
      BY <3>1, SameOctets
    <3> QED
      BY <1>1, <3>2
  <2>3. \A a : /\ Bit(a, 9) = (a[2] \div 128) % 2 /\ Bit(a, 10) = (a[2] \div 64) % 2
               /\ Bit(a, 11) = (a[2] \div 32) % 2 /\ Bit(a, 12) = (a[2] \div 16) % 2
    <3>1. 2 \in Nat \ {0} /\ 8 * (2 - 1) + 1 = 9 /\ 8 * (2 - 1) + 2 = 10
          /\ 8 * (2 - 1) + 3 = 11 /\ 8 * (2 - 1) + 4 = 12
      OBVIOUS
    <3>2. \A a : /\ Bit(a, 8 * (2 - 1) + 1) = (a[2] \div 128) % 2
                 /\ Bit(a, 8 * (2 - 1) + 2) = (a[2] \div 64) % 2
                 /\ Bit(a, 8 * (2 - 1) + 3) = (a[2] \div 32) % 2
                 /\ Bit(a, 8 * (2 - 1) + 4) = (a[2] \div 16) % 2
      BY <3>1, BitsOfOctet
    <3> QED
      BY <3>1, <3>2
  <2>4. /\ Bit(net, 9) = 0 /\ Bit(net, 10) = 0 /\ Bit(net, 11) = 0 /\ Bit(net, 12) = 1
    BY <1>1, <2>3
  <2> QED
    BY <2>1, <2>2, <2>3, <2>4, MaskedNibble
<1>2. ASSUME net[1] = 252
      PROVE  SameBits(ip, net, 7) <=> Masked(ip[1], 2) = 252
  <2>1. 1..7 = {1, 2, 3, 4, 5, 6, 7}
    OBVIOUS
  <2>2. \A a : /\ Bit(a, 1) = (a[1] \div 128) % 2 /\ Bit(a, 2) = (a[1] \div 64) % 2
               /\ Bit(a, 3) = (a[1] \div 32) % 2 /\ Bit(a, 4) = (a[1] \div 16) % 2
               /\ Bit(a, 5) = (a[1] \div 8) % 2 /\ Bit(a, 6) = (a[1] \div 4) % 2
               /\ Bit(a, 7) = (a[1] \div 2) % 2
    <3>1. 1 \in Nat \ {0} /\ \A m \in 1..7 : 8 * (1 - 1) + m = m
      OBVIOUS
    <3>2. \A a : /\ Bit(a, 8 * (1 - 1) + 1) = (a[1] \div 128) % 2
                 /\ Bit(a, 8 * (1 - 1) + 2) = (a[1] \div 64) % 2
                 /\ Bit(a, 8 * (1 - 1) + 3) = (a[1] \div 32) % 2
                 /\ Bit(a, 8 * (1 - 1) + 4) = (a[1] \div 16) % 2
                 /\ Bit(a, 8 * (1 - 1) + 5) = (a[1] \div 8) % 2
                 /\ Bit(a, 8 * (1 - 1) + 6) = (a[1] \div 4) % 2
                 /\ Bit(a, 8 * (1 - 1) + 7) = (a[1] \div 2) % 2
      BY <3>1, BitsOfOctet
    <3> QED
      BY <3>1, <3>2
  <2>3. /\ Bit(net, 1) = 1 /\ Bit(net, 2) = 1 /\ Bit(net, 3) = 1 /\ Bit(net, 4) = 1
        /\ Bit(net, 5) = 1 /\ Bit(net, 6) = 1 /\ Bit(net, 7) = 0
    BY <1>2, <2>2
  <2>4. SameBits(ip, net, 7) <=>
            /\ Bit(ip, 1) = Bit(net, 1) /\ Bit(ip, 2) = Bit(net, 2)
            /\ Bit(ip, 3) = Bit(net, 3) /\ Bit(ip, 4) = Bit(net, 4)
            /\ Bit(ip, 5) = Bit(net, 5) /\ Bit(ip, 6) = Bit(net, 6)
            /\ Bit(ip, 7) = Bit(net, 7)
    BY <2>1 DEF SameBits
  <2> QED
    BY <2>2, <2>3, <2>4, MaskedNibble
<1> QED
  BY <1>1, <1>2

\* is_private_ip refuses exactly the addresses of the networks the documentation
\* lists: its masks and comparisons cut where the prefixes end.
THEOREM PrivateIsReserved ==
    ASSUME NEW ip \in Address
    PROVE  IsPrivateIp(ip) <=> Reserved(ip)
<1>1. CASE ip \in [1..4 -> 0..255]
  <2>1. Len(ip) = 4 /\ \A j \in 1..4 : ip[j] \in 0..255
    BY <1>1
  <2>2. Reserved(ip) <=> \/ SameBits(ip, <<127, 0, 0, 0>>, 8)
                         \/ SameBits(ip, <<10, 0, 0, 0>>, 8)
                         \/ SameBits(ip, <<172, 16, 0, 0>>, 12)
                         \/ SameBits(ip, <<192, 168, 0, 0>>, 16)
                         \/ SameBits(ip, Zeros(4), 32)
    <3>1. \A address, bits :
            InNetwork(ip, address, bits) <=> Len(address) = 4 /\ SameBits(ip, address, bits)
      BY <2>1 DEF InNetwork
    <3>2. /\ Len(<<127, 0, 0, 0>>) = 4 /\ Len(<<10, 0, 0, 0>>) = 4
          /\ Len(<<172, 16, 0, 0>>) = 4 /\ Len(<<192, 168, 0, 0>>) = 4
      OBVIOUS
    <3>3. /\ Len(Zeros(4)) = 4 /\ Len(Zeros(16)) = 16
          /\ Len(Loopback6) = 16 /\ Len(UniqueLocal6) = 16
      BY NetworkOctets
    <3>4. /\ InNetwork(ip, <<127, 0, 0, 0>>, 8) <=> SameBits(ip, <<127, 0, 0, 0>>, 8)
          /\ InNetwork(ip, <<10, 0, 0, 0>>, 8) <=> SameBits(ip, <<10, 0, 0, 0>>, 8)
          /\ InNetwork(ip, <<172, 16, 0, 0>>, 12) <=> SameBits(ip, <<172, 16, 0, 0>>, 12)
          /\ InNetwork(ip, <<192, 168, 0, 0>>, 16) <=> SameBits(ip, <<192, 168, 0, 0>>, 16)
          /\ InNetwork(ip, Zeros(4), 32) <=> SameBits(ip, Zeros(4), 32)
      BY <3>1, <3>2, <3>3
    <3>5. /\ ~InNetwork(ip, Loopback6, 128)
          /\ ~InNetwork(ip, Zeros(16), 128)
          /\ ~InNetwork(ip, UniqueLocal6, 7)
      BY <3>1, <3>2, <3>3
    <3> QED
      BY <3>4, <3>5, ReservedCases
  <2>3. ASSUME NEW net, NEW n \in {1, 2, 4}, \A j \in 1..4 : net[j] \in 0..255
        PROVE  SameBits(ip, net, 8 * n) <=> \A j \in 1..n : ip[j] = net[j]
    <3>1. \A j \in 1..n : ip[j] \in 0..255 /\ net[j] \in 0..255
      BY <2>1, <2>3
    <3>2. n \in Nat
      OBVIOUS
    <3> QED
      BY <3>1, <3>2, SameOctets, SMTT(60)
  <2>4. SameBits(ip, <<127, 0, 0, 0>>, 8) <=> ip[1] = 127
    <3>1. \A j \in 1..4 : <<127, 0, 0, 0>>[j] \in 0..255
      OBVIOUS
    <3>2. SameBits(ip, <<127, 0, 0, 0>>, 8 * 1) <=> \A j \in 1..1 : ip[j] = <<127, 0, 0, 0>>[j]
      BY <2>3, <3>1
    <3> QED
      BY <3>2
  <2>5. SameBits(ip, <<10, 0, 0, 0>>, 8) <=> ip[1] = 10
    <3>1. \A j \in 1..4 : <<10, 0, 0, 0>>[j] \in 0..255
      OBVIOUS
    <3>2. SameBits(ip, <<10, 0, 0, 0>>, 8 * 1) <=> \A j \in 1..1 : ip[j] = <<10, 0, 0, 0>>[j]
      BY <2>3, <3>1
    <3> QED
      BY <3>2
  <2>6. SameBits(ip, <<172, 16, 0, 0>>, 12) <=> ip[1] = 172 /\ Masked(ip[2], 16) = 16
    <3>1. <<172, 16, 0, 0>>[1] = 172 /\ <<172, 16, 0, 0>>[2] = 16
      OBVIOUS
    <3> QED
      BY <2>1, <3>1, LeadingBits
  <2>7. SameBits(ip, <<192, 168, 0, 0>>, 16) <=> ip[1] = 192 /\ ip[2] = 168
    <3>1. \A j \in 1..4 : <<192, 168, 0, 0>>[j] \in 0..255
      OBVIOUS
    <3>2. SameBits(ip, <<192, 168, 0, 0>>, 8 * 2)
            <=> \A j \in 1..2 : ip[j] = <<192, 168, 0, 0>>[j]
      BY <2>3, <3>1
    <3> QED
      BY <3>2
  <2>8. SameBits(ip, Zeros(4), 32) <=> ip = <<0, 0, 0, 0>>
    <3>1. \A j \in 1..4 : Zeros(4)[j] \in 0..255
      BY NetworkOctets
    <3>2. SameBits(ip, Zeros(4), 8 * 4) <=> \A j \in 1..4 : ip[j] = Zeros(4)[j]
      BY <2>3, <3>1
    <3>3. SameBits(ip, Zeros(4), 32) <=> \A j \in 1..4 : ip[j] = 0
      BY <3>2, NetworkOctets
    <3>4. (\A j \in 1..4 : ip[j] = 0) <=> ip = <<0, 0, 0, 0>>
      BY <1>1
    <3> QED
      BY <3>3, <3>4
  <2> QED
    BY <2>1, <2>2, <2>4, <2>5, <2>6, <2>7, <2>8 DEF IsPrivateIp
<1>2. CASE ip \in [1..16 -> 0..255]
  <2>1. Len(ip) = 16 /\ \A j \in 1..16 : ip[j] \in 0..255
    BY <1>2
  <2>2. Reserved(ip) <=> \/ SameBits(ip, Loopback6, 128)
                         \/ SameBits(ip, Zeros(16), 128)
                         \/ SameBits(ip, UniqueLocal6, 7)
    <3>1. \A address, bits :
            InNetwork(ip, address, bits) <=> Len(address) = 16 /\ SameBits(ip, address, bits)
      BY <2>1 DEF InNetwork
    <3>2. /\ Len(<<127, 0, 0, 0>>) = 4 /\ Len(<<10, 0, 0, 0>>) = 4
          /\ Len(<<172, 16, 0, 0>>) = 4 /\ Len(<<192, 168, 0, 0>>) = 4
      OBVIOUS
    <3>3. /\ Len(Zeros(4)) = 4 /\ Len(Zeros(16)) = 16
          /\ Len(Loopback6) = 16 /\ Len(UniqueLocal6) = 16
      BY NetworkOctets
    <3>4. /\ InNetwork(ip, Loopback6, 128) <=> SameBits(ip, Loopback6, 128)
          /\ InNetwork(ip, Zeros(16), 128) <=> SameBits(ip, Zeros(16), 128)
          /\ InNetwork(ip, UniqueLocal6, 7) <=> SameBits(ip, UniqueLocal6, 7)
      BY <3>1, <3>2, <3>3
    <3>5. /\ ~InNetwork(ip, <<127, 0, 0, 0>>, 8)
          /\ ~InNetwork(ip, <<10, 0, 0, 0>>, 8)
          /\ ~InNetwork(ip, <<172, 16, 0, 0>>, 12)
          /\ ~InNetwork(ip, <<192, 168, 0, 0>>, 16)
          /\ ~InNetwork(ip, Zeros(4), 32)
      BY <3>1, <3>2, <3>3
    <3> QED
      BY <3>4, <3>5, ReservedCases
  <2>3. ASSUME NEW net, \A j \in 1..15 : net[j] = 0, net[16] \in {0, 1}
        PROVE  SameBits(ip, net, 128) <=> (\A j \in 1..15 : ip[j] = 0) /\ ip[16] = net[16]
    <3>1. \A j \in 1..16 : ip[j] \in 0..255 /\ net[j] \in 0..255
      BY <2>1, <2>3
    <3>2. SameBits(ip, net, 128) <=> \A j \in 1..16 : ip[j] = net[j]
      <4>1. ASSUME NEW n \in Nat, n = 16
            PROVE  SameBits(ip, net, 8 * n) <=> \A j \in 1..n : ip[j] = net[j]
        <5>1. \A j \in 1..n : ip[j] \in 0..255 /\ net[j] \in 0..255
          BY <3>1, <4>1
        <5> QED
          BY <5>1, SameOctets
      <4>2. 8 * 16 = 128
        OBVIOUS
      <4> QED
        BY <4>1, <4>2
    <3>3. (\A j \in 1..16 : ip[j] = net[j]) <=> (\A j \in 1..15 : ip[j] = 0) /\ ip[16] = net[16]
      <4>1. 1..16 = (1..15) \cup {16}
        OBVIOUS
      <4> QED
        BY <2>3, <4>1
    <3> QED
      BY <3>2, <3>3
  <2>4. SameBits(ip, Loopback6, 128) <=> (\A j \in 1..15 : ip[j] = 0) /\ ip[16] = 1
    BY <2>3, NetworkOctets
  <2>5. SameBits(ip, Zeros(16), 128) <=> (\A j \in 1..15 : ip[j] = 0) /\ ip[16] = 0
    BY <2>3, NetworkOctets
  <2>6. SameBits(ip, UniqueLocal6, 7) <=> Masked(ip[1], 2) = 252
    BY <2>1, LeadingBits, NetworkOctets
  <2> QED
    BY <2>1, <2>2, <2>4, <2>5, <2>6 DEF IsPrivateIp
<1> QED
  BY <1>1, <1>2 DEF Address

\* A sequence is a suffix of itself, and of anything put before it.
LEMMA SuffixOfConcat ==
    ASSUME NEW S, NEW s \in Seq(S), NEW t \in Seq(S)
    PROVE  IsSuffix(t, t) /\ IsSuffix(t, s \o t)
<1>1. /\ s \o t \in Seq(S) /\ Len(s \o t) = Len(s) + Len(t)
      /\ \A j \in 1..Len(t) : (s \o t)[Len(s) + j] = t[j]
  BY ConcatEffect
<1> DEFINE u == s \o t
<1> HIDE DEF u
<1>2. /\ Reverse(t) \in Seq(S) /\ Len(Reverse(t)) = Len(t)
      /\ \A i \in 1..Len(t) : Reverse(t)[i] = t[(Len(t) - i) + 1]
  BY DEF Reverse
<1>3. /\ Reverse(u) \in Seq(S) /\ Len(Reverse(u)) = Len(u)
      /\ \A i \in 1..Len(u) : Reverse(u)[i] = u[(Len(u) - i) + 1]
  BY <1>1 DEF Reverse, u
<1>4. \A i \in 1..Len(t) : Reverse(u)[i] = Reverse(t)[i]
  BY <1>1, <1>2, <1>3 DEF u
<1>5. IsPrefix(Reverse(t), Reverse(u))
  BY <1>1, <1>2, <1>3, <1>4 DEF IsPrefix, u
<1>6. IsPrefix(Reverse(t), Reverse(t))
  BY <1>2 DEF IsPrefix
<1> QED
  BY <1>5, <1>6 DEF IsSuffix, u

\* What a reference resolves to.
LEMMA JoinEffect ==
    ASSUME NEW base \in Reference, NEW ref \in Reference,
           ref.kind \in {"rooted", "path", "network"}
    PROVE  \E url : /\ Join(base.url, ref) = {url}
                    /\ url.scheme = base.url.scheme
                    /\ url.host = IF ref.kind = "network" THEN ref.url.host ELSE base.url.host
                    /\ ref.kind # "network" => url.port = base.url.port
                    /\ IsSuffix(ref.url.path, url.path)
<1> DEFINE b == base.url
<1>1. /\ b \in [scheme : STRING, host : SUBSET STRING, port : SUBSET Nat, path : Seq(STRING)]
      /\ ref.url.path \in Seq(STRING)
      /\ IsSuffix(ref.url.path, ref.url.path)
  <2>1. /\ b \in [scheme : STRING, host : SUBSET STRING, port : SUBSET Nat, path : Seq(STRING)]
        /\ ref.url.path \in Seq(STRING)
    BY DEF Reference
  <2> QED
    BY <2>1, SuffixOfConcat
<1> HIDE DEF b
<1>2. Join(base.url, ref) = Join(b, ref) /\ base.url = b
  BY DEF b
<1>3. CASE ref.kind = "rooted"
  <2>1. Join(b, ref) = {[b EXCEPT !.path = ref.url.path]}
    BY <1>3 DEF Join
  <2> DEFINE url == [b EXCEPT !.path = ref.url.path]
  <2>2. /\ url.scheme = b.scheme /\ url.host = b.host /\ url.port = b.port
        /\ url.path = ref.url.path
    BY <1>1
  <2> HIDE DEF url
  <2> QED
    BY <1>1, <1>2, <1>3, <2>1, <2>2 DEF url
<1>4. CASE ref.kind = "path"
  <2> DEFINE dir == IF b.path = << >> THEN b.path ELSE Front(b.path)
  <2>1. Join(b, ref) = {[b EXCEPT !.path = dir \o ref.url.path]}
    BY <1>4 DEF Join
  <2>2. dir \in Seq(STRING)
    <3>1. CASE b.path = << >>
      BY <3>1
    <3>2. CASE b.path # << >>
      <4>1. b.path \in Seq(STRING) /\ Len(b.path) \in Nat /\ Len(b.path) # 0
        BY <1>1, <3>2
      <4>2. SubSeq(b.path, 1, Len(b.path) - 1) \in Seq(STRING)
        BY <4>1
      <4> QED
        BY <3>2, <4>2 DEF Front
    <3> QED
      BY <3>1, <3>2
  <2> HIDE DEF dir
  <2>3. IsSuffix(ref.url.path, dir \o ref.url.path)
    BY <1>1, <2>2, SuffixOfConcat
  <2> DEFINE url == [b EXCEPT !.path = dir \o ref.url.path]
  <2>4. /\ url.scheme = b.scheme /\ url.host = b.host /\ url.port = b.port
        /\ url.path = dir \o ref.url.path
    BY <1>1
  <2>5. Join(b, ref) = {url}
    BY <2>1
  <2> HIDE DEF url
  <2> QED
    BY <1>2, <1>4, <2>3, <2>4, <2>5
<1>5. CASE ref.kind = "network"
  <2>1. Join(b, ref) = {[b EXCEPT !.host = ref.url.host, !.port = ref.url.port,
                                  !.path = ref.url.path]}
    BY <1>5 DEF Join
  <2> DEFINE url == [b EXCEPT !.host = ref.url.host, !.port = ref.url.port,
                              !.path = ref.url.path]
  <2>2. url.scheme = b.scheme /\ url.host = ref.url.host /\ url.path = ref.url.path
    BY <1>1
  <2>3. Join(b, ref) = {url}
    BY <2>1
  <2> HIDE DEF url
  <2> QED
    BY <1>1, <1>2, <1>5, <2>2, <2>3
<1> QED
  BY <1>3, <1>4, <1>5

\* A request that is sent goes where its endpoint says, relative to xml:base or else
\* to the origin, and not to a host with a reserved address; any other is refused.
THEOREM RequestsDirected == Spec => []DirectedAsWritten
<1>1. Answered => DirectedAsWritten
  <2> SUFFICES ASSUME Answered, Returned("endpoint")
               PROVE  DirectedAsWritten
    BY DEF DirectedAsWritten
  <2> DEFINE x == call.endpoint
             ref == x.endpoint
             base == IF x.xml_base # {} THEN Only(x.xml_base) ELSE x.origin
             host == IF ref.kind \in {"absolute", "network"} THEN ref.url.host
                     ELSE base.url.host
             url == result.url
             barred == \E ip \in UNION {x.addresses[h] : h \in host} : Reserved(ip)
  <2>1. /\ result = Direct(x)
        /\ ref \in Reference /\ base \in Reference
        /\ ref.url.host \subseteq DOMAIN x.addresses
        /\ base.url.host \subseteq DOMAIN x.addresses
        /\ \A h \in DOMAIN x.addresses : x.addresses[h] \subseteq Address
    <3>1. call \in Calls /\ call.kind = "endpoint"
      BY DEF Answered, Returned
    <3>2. base \in {x.origin} \cup x.xml_base
      BY DEF Only
    <3> QED
      BY <3>1, <3>2, EndpointAssumption DEF Answered
  <2>2. BaseOf(x) = base
    <3>1. base \in {x.origin} => x.xml_base = {} \/ base = x.origin
      OBVIOUS
    <3>2. CASE x.xml_base # {}
      BY <3>2 DEF BaseOf, Only
    <3>3. CASE x.xml_base = {}
      BY <3>3 DEF BaseOf
    <3> QED
      BY <3>2, <3>3
  <2>3. ref.kind \in {"absolute", "rooted", "path", "network", "bad"}
    BY <2>1 DEF Reference
  <2>4. ASSUME NEW u, ResolveEndpoint(x) = {u}, u.host = host
        PROVE  IF host = {} THEN result.outcome = "malformed"
               ELSE IF barred THEN result.outcome = "blocked"
               ELSE /\ result.outcome = "ok" /\ url = u
                    /\ result.origin.scheme = u.scheme /\ result.origin.host = host
                    /\ result.origin.port \subseteq u.port
    <3>1. (CHOOSE v \in ResolveEndpoint(x) : TRUE) = u /\ ResolveEndpoint(x) # {}
      BY <2>4
    <3>2. result = IF CheckSsrf(u, x.addresses) # "ok"
                   THEN [outcome |-> CheckSsrf(u, x.addresses)]
                   ELSE [outcome |-> "ok", url |-> u, origin |-> OriginOf(u)]
      BY <2>1, <3>1 DEF Direct
    <3>3. host \subseteq DOMAIN x.addresses
      BY <2>1
    <3>4. barred <=> \E h \in host : \E ip \in x.addresses[h] : IsPrivateIp(ip)
      BY <2>1, <3>3, PrivateIsReserved
    <3> HIDE DEF host, barred
    <3>5. CheckSsrf(u, x.addresses) = IF host = {} THEN "malformed"
                                      ELSE IF barred THEN "blocked" ELSE "ok"
      BY <2>4, <3>4 DEF CheckSsrf
    <3>6. /\ OriginOf(u).scheme = u.scheme /\ OriginOf(u).host = u.host
          /\ OriginOf(u).port \subseteq u.port
      BY DEF OriginOf, NamedPort
    <3> QED
      BY <2>4, <3>2, <3>5, <3>6
  <2>5. ASSUME ResolveEndpoint(x) = {}
        PROVE  result.outcome = "malformed"
    BY <2>1, <2>5 DEF Direct
  <2> HIDE DEF barred
  <2>6. CASE ref.kind = "absolute"
    <3>1. ResolveEndpoint(x) = {ref.url} /\ ref.url.host = host
      BY <2>6 DEF ResolveEndpoint, ParseUrl
    <3>2. IsSuffix(ref.url.path, ref.url.path)
      BY <2>1, SuffixOfConcat DEF Reference
    <3> HIDE DEF x
    <3> QED
      BY <2>4, <2>6, <3>1, <3>2 DEF DirectedAsWritten, x, barred
  <2>7. CASE ref.kind = "bad" \/ (ref.kind # "absolute" /\ base.kind # "absolute")
    <3>1. ResolveEndpoint(x) = {}
      <4>1. ref.kind # "absolute"
        BY <2>7
      <4>2. ResolveEndpoint(x) = UNION {Join(b, ref) : b \in ParseUrl(base)}
        BY <2>2, <4>1 DEF ResolveEndpoint, ParseUrl
      <4>3. ref.kind = "bad" => \A b : Join(b, ref) = {}
        BY DEF Join
      <4>4. base.kind # "absolute" => ParseUrl(base) = {}
        BY DEF ParseUrl
      <4> HIDE DEF base, ref
      <4> QED
        BY <2>7, <4>2, <4>3, <4>4
    <3>2. result.outcome = "malformed"
      BY <2>5, <3>1, SMTT(30)
    <3> QED
      BY <2>7, <3>2 DEF DirectedAsWritten
  <2>8. CASE ref.kind \in {"rooted", "path", "network"} /\ base.kind = "absolute"
    <3>1. PICK u : /\ Join(base.url, ref) = {u}
                   /\ u.scheme = base.url.scheme
                   /\ u.host = IF ref.kind = "network" THEN ref.url.host ELSE base.url.host
                   /\ ref.kind # "network" => u.port = base.url.port
                   /\ IsSuffix(ref.url.path, u.path)
      BY <2>1, <2>8, JoinEffect
    <3>2. ResolveEndpoint(x) = {u}
      <4>1. ParseUrl(ref) = {} /\ ParseUrl(base) = {base.url}
        BY <2>8 DEF ParseUrl
      <4>2. ResolveEndpoint(x) = UNION {Join(b, ref) : b \in ParseUrl(base)}
        BY <2>2, <4>1 DEF ResolveEndpoint
      <4> HIDE DEF base, ref
      <4> QED
        BY <3>1, <4>1, <4>2
    <3>3. u.host = host
      BY <2>8, <3>1
    <3>4. IF host = {} THEN result.outcome = "malformed"
          ELSE IF barred THEN result.outcome = "blocked"
          ELSE /\ result.outcome = "ok" /\ url = u
               /\ result.origin.scheme = u.scheme /\ result.origin.host = host
               /\ result.origin.port \subseteq u.port
      BY <2>4, <3>2, <3>3
    <3> HIDE DEF x
    <3> QED
      BY <2>8, <3>1, <3>3, <3>4 DEF DirectedAsWritten, x, barred
  <2> QED
    BY <2>3, <2>6, <2>7, <2>8
<1> QED
  BY <1>1, AnsweredAlways, PTL

-----------------------------------------------------------------------------
(* One attempt of a fetch.                                                  *)

\* A set of naturals that holds 0 and the successor of each of its members holds
\* every natural.
LEMMA SetInduction ==
    ASSUME NEW S \in SUBSET Nat, 0 \in S, \A n \in S : n + 1 \in S
    PROVE  S = Nat
<1> SUFFICES ASSUME Nat \ S # {} PROVE FALSE
  OBVIOUS
<1>1. PICK i \in Nat \ S : \A j \in Nat \ S : i <= j
  BY SmallestNat
<1>2. i # 0 /\ i - 1 \in Nat
  BY <1>1
<1>3. i - 1 \in S
  BY <1>1, <1>2
<1> QED
  BY <1>1, <1>2, <1>3

LEMMA FlattenEffect ==
    ASSUME NEW m \in Nat \ {0}, NEW seqs, NEW S, NEW onion \in Seq(S), NEW made,
           Layered(m, seqs, onion, made)
    PROVE  FlattenSeq(seqs) = SubSeq(onion, 1, made[m])
<1> USE DEF Layered
<1> DEFINE g == [i \in 1..m |-> SubSeq(onion, 1, made[i])]
           F == CHOOSE f : f = [i \in 1..m |-> IF i = 1 THEN seqs[i] ELSE f[i - 1] \o seqs[i]]
<1>1. ASSUME NEW k \in 0..(Len(onion) - 1)
      PROVE  /\ SubSeq(onion, 1, k) \o << >> = SubSeq(onion, 1, k)
             /\ SubSeq(onion, 1, k) \o <<onion[k + 1]>> = SubSeq(onion, 1, k + 1)
  OBVIOUS
<1>2. SubSeq(onion, 1, Len(onion)) \o << >> = SubSeq(onion, 1, Len(onion))
  OBVIOUS
<1>3. ASSUME NEW i \in 1..m
      PROVE  g[i] = IF i = 1 THEN seqs[i] ELSE g[i - 1] \o seqs[i]
  <2>1. /\ i - 1 \in 0..m /\ i \in 0..m
        /\ made[i] \in 0..Len(onion) /\ made[i - 1] \in 0..Len(onion)
    OBVIOUS
  <2>2. g[i] = SubSeq(onion, 1, made[i])
    OBVIOUS
  <2>3. i # 1 => g[i - 1] = SubSeq(onion, 1, made[i - 1])
    OBVIOUS
  <2>4. SubSeq(onion, 1, made[i]) = SubSeq(onion, 1, made[i - 1]) \o seqs[i]
    <3>1. CASE made[i] = made[i - 1] /\ seqs[i] = << >>
      BY <1>1, <1>2, <2>1, <3>1
    <3>2. CASE made[i] = made[i - 1] + 1 /\ seqs[i] = <<onion[made[i]]>>
      <4>1. made[i - 1] \in 0..(Len(onion) - 1)
        BY <2>1, <3>2
      <4>2. SubSeq(onion, 1, made[i - 1]) \o <<onion[made[i - 1] + 1]>>
              = SubSeq(onion, 1, made[i - 1] + 1)
        BY <1>1, <4>1
      <4> QED
        BY <3>2, <4>2, Zenon
    <3> QED
      BY <3>1, <3>2
  <2>5. i = 1 => SubSeq(onion, 1, made[i]) = seqs[i]
    <3> SUFFICES ASSUME i = 1 PROVE SubSeq(onion, 1, made[i]) = seqs[i]
      OBVIOUS
    <3>1. made[i - 1] = 0
      OBVIOUS
    <3>2. CASE made[i] = made[i - 1] /\ seqs[i] = << >>
      BY <3>1, <3>2
    <3>3. CASE made[i] = made[i - 1] + 1 /\ seqs[i] = <<onion[made[i]]>>
      <4>1. made[i] = 1 /\ 1 \in 1..Len(onion)
        BY <2>1, <3>1, <3>3
      <4>2. SubSeq(onion, 1, 1) = <<onion[1]>>
        <5> DEFINE t == SubSeq(onion, 1, 1)
        <5>1. t = [j \in 1..1 |-> onion[j]]
          BY <4>1
        <5>2. [j \in 1..1 |-> onion[j]] = <<onion[1]>>
          OBVIOUS
        <5> QED
          BY <5>1, <5>2, Zenon
      <4> QED
        BY <3>3, <4>1, <4>2, Zenon
    <3> QED
      BY <3>2, <3>3
  <2> QED
    BY <2>2, <2>3, <2>4, <2>5
<1>4. g = [i \in 1..m |-> IF i = 1 THEN seqs[i] ELSE g[i - 1] \o seqs[i]]
  BY <1>3
<1> HIDE DEF g
<1>5. F = [i \in 1..m |-> IF i = 1 THEN seqs[i] ELSE F[i - 1] \o seqs[i]]
  <2>1. \E f : f = [i \in 1..m |-> IF i = 1 THEN seqs[i] ELSE f[i - 1] \o seqs[i]]
    BY <1>4, Zenon
  <2> QED
    BY <2>1, Zenon
<1>6. FlattenSeq(seqs) = F[m]
  BY DEF FlattenSeq
<1> HIDE DEF F
<1>7. \A n \in Nat : n + 1 \in 1..m => F[n + 1] = g[n + 1]
  <2> DEFINE same == {n \in Nat : n + 1 \in 1..m => F[n + 1] = g[n + 1]}
  <2>1. 0 \in same
    BY <1>4, <1>5
  <2>2. ASSUME NEW n \in same PROVE n + 1 \in same
    <3>1. SUFFICES ASSUME n + 2 \in 1..m PROVE F[n + 2] = g[n + 2]
      OBVIOUS
    <3>2. F[n + 1] = g[n + 1]
      BY <2>2, <3>1
    <3>3. n + 2 # 1 /\ (n + 2) - 1 = n + 1
      BY <2>2
    <3>4. /\ F[n + 2] = F[(n + 2) - 1] \o seqs[n + 2]
          /\ g[n + 2] = g[(n + 2) - 1] \o seqs[n + 2]
      BY <1>4, <1>5, <3>1, <3>3, Zenon
    <3> QED
      BY <3>2, <3>3, <3>4, Zenon
  <2> HIDE DEF same
  <2>3. same = Nat
    <3>1. same \in SUBSET Nat
      BY DEF same
    <3> QED
      BY <2>1, <2>2, <3>1, SetInduction
  <2> QED
    BY <2>3 DEF same
<1>8. F[m] = g[m]
  <2>1. PICK n \in Nat : m = n + 1
    <3>1. m - 1 \in Nat /\ m = (m - 1) + 1
      OBVIOUS
    <3> QED
      BY <3>1
  <2> QED
    BY <1>7, <2>1
<1> QED
  BY <1>6, <1>8 DEF g

LEMMA SequenceConcat ==
    ASSUME NEW s, NEW t, IsSequence(s), IsSequence(t)
    PROVE  /\ IsSequence(s \o t)
           /\ Len(s) \in Nat /\ Len(t) \in Nat
           /\ Len(s \o t) = Len(s) + Len(t)
           /\ \A j \in 1..Len(s) : (s \o t)[j] = s[j]
           /\ \A j \in 1..Len(t) : (s \o t)[Len(s) + j] = t[j]
<1>1. PICK S, T : s \in Seq(S) /\ t \in Seq(T)
  BY DEF IsSequence
<1>2. s \in Seq(S \cup T) /\ t \in Seq(S \cup T)
  BY <1>1
<1> DEFINE U == S \cup T
<1>3. s \in Seq(U) /\ t \in Seq(U)
  BY <1>2
<1> HIDE DEF U
<1>4. /\ s \o t \in Seq(U)
      /\ Len(s \o t) = Len(s) + Len(t)
      /\ \A j \in 1..Len(s) : (s \o t)[j] = s[j]
      /\ \A j \in 1..Len(t) : (s \o t)[Len(s) + j] = t[j]
  BY <1>3, ConcatEffect
<1> QED
  BY <1>1, <1>4 DEF IsSequence

LEMMA FunctionSequence ==
    ASSUME NEW n \in Nat, NEW s, s = [i \in 1..n |-> s[i]]
    PROVE  IsSequence(s) /\ Len(s) = n
<1>1. s \in Seq({s[i] : i \in 1..n}) /\ Len(s) = n
  OBVIOUS
<1> QED
  BY <1>1 DEF IsSequence

\* The stages of the middleware, in the order of the hooks.
LEMMA HookStages ==
    ASSUME NEW x \in Exchange, NEW n, n = Len(x.middleware)
    PROVE  /\ n \in Nat /\ DOMAIN x.middleware = 1..n
           /\ IsSequence(RequestStages(x)) /\ Len(RequestStages(x)) = n
           /\ \A i \in 1..n :
                RequestStages(x)[i] = CallStage("on_request", i, x.middleware[i].on_request)
           /\ IsSequence(ResponseStages(x)) /\ Len(ResponseStages(x)) = n
           /\ \A i \in 1..n :
                ResponseStages(x)[i] = CallStage("on_response", n + 1 - i,
                                                 x.middleware[n + 1 - i].on_response)
<1>1. n \in Nat /\ DOMAIN x.middleware = 1..n
  <2>1. x.middleware \in Seq([on_request : Outcome, on_response : Outcome])
    BY DEF Exchange
  <2> DEFINE hooks == [on_request : Outcome, on_response : Outcome]
             list == x.middleware
  <2>2. list \in Seq(hooks)
    BY <2>1
  <2> HIDE DEF hooks, list
  <2>3. Len(list) \in Nat /\ DOMAIN list = 1..Len(list)
    BY <2>2
  <2> QED
    BY <2>3 DEF list
<1> DEFINE request(i) == CallStage("on_request", i, x.middleware[i].on_request)
           response(i) == CallStage("on_response", i, x.middleware[i].on_response)
           requests == [i \in 1..n |-> request(i)]
           responses == [i \in 1..n |-> response(i)]
           reversed == [i \in 1..n |-> response(n + 1 - i)]
<1>2. RequestStages(x) = requests /\ ResponseStages(x) = Reverse(responses)
  BY <1>1 DEF RequestStages, ResponseStages
<1> HIDE DEF request, response
<1>3. IsSequence(requests) /\ Len(requests) = n /\ Len(responses) = n
  BY <1>1, FunctionSequence
<1>4. Reverse(responses) = reversed
  <2> HIDE DEF responses
  <2>1. Reverse(responses) = [i \in 1..n |-> responses[(n - i) + 1]]
    BY <1>3 DEF Reverse
  <2>2. \A i \in 1..n : (n - i) + 1 \in 1..n /\ (n - i) + 1 = n + 1 - i
    BY <1>1
  <2>3. \A i \in 1..n : responses[(n - i) + 1] = response(n + 1 - i)
    BY <2>2 DEF responses
  <2> QED
    BY <2>1, <2>3
<1>5. IsSequence(reversed) /\ Len(reversed) = n
  BY <1>1, FunctionSequence
<1> QED
  BY <1>1, <1>2, <1>3, <1>4, <1>5 DEF request, response

\* The other stages.
LEMMA CheckStages ==
    ASSUME NEW x
    PROVE  /\ IsSequence(SchemeStage(x)) /\ Len(SchemeStage(x)) = 1
           /\ IsSequence(ExchangeStages(x)) /\ Len(ExchangeStages(x)) = 4
           /\ IsSequence(ContentTypeStage(x)) /\ Len(ContentTypeStage(x)) = 1
           /\ IsSequence(BodyStages(x)) /\ Len(BodyStages(x)) = 4
           /\ IsSequence(HttpStages(x)) /\ Len(HttpStages(x)) = 2
           /\ IsSequence(MetaStages(x)) /\ Len(MetaStages(x)) = 2
<1>1. \A a : <<a>> \in Seq({a}) /\ Len(<<a>>) = 1
  OBVIOUS
<1>2. \A a, b : <<a, b>> \in Seq({a, b}) /\ Len(<<a, b>>) = 2
  OBVIOUS
<1>3. \A a, b, c, d : <<a, b, c, d>> \in Seq({a, b, c, d}) /\ Len(<<a, b, c, d>>) = 4
  OBVIOUS
<1>4. /\ \A a : IsSequence(<<a>>) /\ Len(<<a>>) = 1
      /\ \A a, b : IsSequence(<<a, b>>) /\ Len(<<a, b>>) = 2
      /\ \A a, b, c, d : IsSequence(<<a, b, c, d>>) /\ Len(<<a, b, c, d>>) = 4
  BY <1>1, <1>2, <1>3, Zenon DEF IsSequence
<1> QED
  BY <1>4, Zenon DEF SchemeStage, ExchangeStages, ContentTypeStage, BodyStages, HttpStages,
                     MetaStages

LEMMA StagesAt ==
    ASSUME NEW x \in Exchange, NEW n, n = Len(x.middleware)
    PROVE  StagesInPlace(x, n)
<1> DEFINE s0 == SchemeStage(x)
           s1 == s0 \o RequestStages(x)
           s2 == s1 \o ExchangeStages(x)
           s3 == s2 \o ContentTypeStage(x)
           s4 == s3 \o ResponseStages(x)
           s5 == s4 \o BodyStages(x)
           s6 == s5 \o HttpStages(x)
           s7 == s6 \o MetaStages(x)
<1>0. n \in Nat /\ IsSequence(s0) /\ Len(s0) = 1 /\ Stages(x) = s7
  BY HookStages, CheckStages DEF Stages
<1>1. /\ IsSequence(s1) /\ Len(s1) = n + 1
      /\ \A j \in 1..(1) : s1[j] = s0[j]
      /\ \A j \in 1..n : s1[1 + j] = RequestStages(x)[j]
  <2>1. IsSequence(s0) /\ IsSequence(RequestStages(x))
    BY <1>0, HookStages, CheckStages
  <2>2. Len(s0) = 1 /\ Len(RequestStages(x)) = n
    BY <1>0, HookStages, CheckStages
  <2> HIDE DEF s0
  <2>3. /\ IsSequence(s1) /\ Len(s1) = Len(s0) + Len(RequestStages(x))
        /\ \A j \in 1..Len(s0) : s1[j] = s0[j]
        /\ \A j \in 1..Len(RequestStages(x)) : s1[Len(s0) + j] = RequestStages(x)[j]
    BY <2>1, SequenceConcat
  <2> HIDE DEF s1
  <2> QED
    BY <1>0, <2>2, <2>3
<1>2. /\ IsSequence(s2) /\ Len(s2) = n + 5
      /\ \A j \in 1..(n + 1) : s2[j] = s1[j]
      /\ \A j \in 1..4 : s2[n + 1 + j] = ExchangeStages(x)[j]
  <2>1. IsSequence(s1) /\ IsSequence(ExchangeStages(x))
    BY <1>1, HookStages, CheckStages
  <2>2. Len(s1) = n + 1 /\ Len(ExchangeStages(x)) = 4
    BY <1>1, HookStages, CheckStages
  <2> HIDE DEF s1
  <2>3. /\ IsSequence(s2) /\ Len(s2) = Len(s1) + Len(ExchangeStages(x))
        /\ \A j \in 1..Len(s1) : s2[j] = s1[j]
        /\ \A j \in 1..Len(ExchangeStages(x)) : s2[Len(s1) + j] = ExchangeStages(x)[j]
    BY <2>1, SequenceConcat
  <2> HIDE DEF s2
  <2> QED
    BY <1>0, <2>2, <2>3
<1>3. /\ IsSequence(s3) /\ Len(s3) = n + 6
      /\ \A j \in 1..(n + 5) : s3[j] = s2[j]
      /\ \A j \in 1..1 : s3[n + 5 + j] = ContentTypeStage(x)[j]
  <2>1. IsSequence(s2) /\ IsSequence(ContentTypeStage(x))
    BY <1>2, HookStages, CheckStages
  <2>2. Len(s2) = n + 5 /\ Len(ContentTypeStage(x)) = 1
    BY <1>2, HookStages, CheckStages
  <2> HIDE DEF s2
  <2>3. /\ IsSequence(s3) /\ Len(s3) = Len(s2) + Len(ContentTypeStage(x))
        /\ \A j \in 1..Len(s2) : s3[j] = s2[j]
        /\ \A j \in 1..Len(ContentTypeStage(x)) : s3[Len(s2) + j] = ContentTypeStage(x)[j]
    BY <2>1, SequenceConcat
  <2> HIDE DEF s3
  <2> QED
    BY <1>0, <2>2, <2>3
<1>4. /\ IsSequence(s4) /\ Len(s4) = 2 * n + 6
      /\ \A j \in 1..(n + 6) : s4[j] = s3[j]
      /\ \A j \in 1..n : s4[n + 6 + j] = ResponseStages(x)[j]
  <2>1. IsSequence(s3) /\ IsSequence(ResponseStages(x))
    BY <1>3, HookStages, CheckStages
  <2>2. Len(s3) = n + 6 /\ Len(ResponseStages(x)) = n
    BY <1>3, HookStages, CheckStages
  <2> HIDE DEF s3
  <2>3. /\ IsSequence(s4) /\ Len(s4) = Len(s3) + Len(ResponseStages(x))
        /\ \A j \in 1..Len(s3) : s4[j] = s3[j]
        /\ \A j \in 1..Len(ResponseStages(x)) : s4[Len(s3) + j] = ResponseStages(x)[j]
    BY <2>1, SequenceConcat
  <2> HIDE DEF s4
  <2> QED
    BY <1>0, <2>2, <2>3
<1>5. /\ IsSequence(s5) /\ Len(s5) = 2 * n + 10
      /\ \A j \in 1..(2 * n + 6) : s5[j] = s4[j]
      /\ \A j \in 1..4 : s5[2 * n + 6 + j] = BodyStages(x)[j]
  <2>1. IsSequence(s4) /\ IsSequence(BodyStages(x))
    BY <1>4, HookStages, CheckStages
  <2>2. Len(s4) = 2 * n + 6 /\ Len(BodyStages(x)) = 4
    BY <1>4, HookStages, CheckStages
  <2> HIDE DEF s4
  <2>3. /\ IsSequence(s5) /\ Len(s5) = Len(s4) + Len(BodyStages(x))
        /\ \A j \in 1..Len(s4) : s5[j] = s4[j]
        /\ \A j \in 1..Len(BodyStages(x)) : s5[Len(s4) + j] = BodyStages(x)[j]
    BY <2>1, SequenceConcat
  <2> HIDE DEF s5
  <2> QED
    BY <1>0, <2>2, <2>3
<1>6. /\ IsSequence(s6) /\ Len(s6) = 2 * n + 12
      /\ \A j \in 1..(2 * n + 10) : s6[j] = s5[j]
      /\ \A j \in 1..2 : s6[2 * n + 10 + j] = HttpStages(x)[j]
  <2>1. IsSequence(s5) /\ IsSequence(HttpStages(x))
    BY <1>5, HookStages, CheckStages
  <2>2. Len(s5) = 2 * n + 10 /\ Len(HttpStages(x)) = 2
    BY <1>5, HookStages, CheckStages
  <2> HIDE DEF s5
  <2>3. /\ IsSequence(s6) /\ Len(s6) = Len(s5) + Len(HttpStages(x))
        /\ \A j \in 1..Len(s5) : s6[j] = s5[j]
        /\ \A j \in 1..Len(HttpStages(x)) : s6[Len(s5) + j] = HttpStages(x)[j]
    BY <2>1, SequenceConcat
  <2> HIDE DEF s6
  <2> QED
    BY <1>0, <2>2, <2>3
<1>7. /\ IsSequence(s7) /\ Len(s7) = 2 * n + 14
      /\ \A j \in 1..(2 * n + 12) : s7[j] = s6[j]
      /\ \A j \in 1..2 : s7[2 * n + 12 + j] = MetaStages(x)[j]
  <2>1. IsSequence(s6) /\ IsSequence(MetaStages(x))
    BY <1>6, HookStages, CheckStages
  <2>2. Len(s6) = 2 * n + 12 /\ Len(MetaStages(x)) = 2
    BY <1>6, HookStages, CheckStages
  <2> HIDE DEF s6
  <2>3. /\ IsSequence(s7) /\ Len(s7) = Len(s6) + Len(MetaStages(x))
        /\ \A j \in 1..Len(s6) : s7[j] = s6[j]
        /\ \A j \in 1..Len(MetaStages(x)) : s7[Len(s6) + j] = MetaStages(x)[j]
    BY <2>1, SequenceConcat
  <2> HIDE DEF s7
  <2> QED
    BY <1>0, <2>2, <2>3
<1> HIDE DEF s0, s1, s2, s3, s4, s5, s6, s7
<1>8. \A j \in 1..(2 * n + 10) : s7[j] = s5[j]
  <2>1. \A j \in 1..(2 * n + 10) : j \in 1..(2 * n + 12)
    BY <1>0
  <2> QED
    BY <1>6, <1>7, <2>1
<1>9. \A j \in 1..(2 * n + 6) : s7[j] = s4[j]
  <2>1. \A j \in 1..(2 * n + 6) : j \in 1..(2 * n + 10)
    BY <1>0
  <2> QED
    BY <1>5, <1>8, <2>1
<1>10. \A j \in 1..(n + 6) : s7[j] = s3[j]
  <2>1. \A j \in 1..(n + 6) : j \in 1..(2 * n + 6)
    BY <1>0
  <2> QED
    BY <1>4, <1>9, <2>1
<1>11. \A j \in 1..(n + 5) : s7[j] = s2[j]
  <2>1. \A j \in 1..(n + 5) : j \in 1..(n + 6)
    BY <1>0
  <2> QED
    BY <1>3, <1>10, <2>1
<1>12. \A j \in 1..(n + 1) : s7[j] = s1[j]
  <2>1. \A j \in 1..(n + 1) : j \in 1..(n + 5)
    BY <1>0
  <2> QED
    BY <1>2, <1>11, <2>1
<1>13. s7[1] = SchemeStage(x)[1]
  <2>1. 1 \in 1..1 /\ 1 \in 1..(n + 1)
    BY <1>0
  <2> QED
    BY <1>1, <1>12, <2>1 DEF s0
<1>14. \A i \in 1..n : s7[1 + i] = RequestStages(x)[i]
  <2>1. \A i \in 1..n : 1 + i \in 1..(n + 1)
    BY <1>0
  <2> QED
    BY <1>1, <1>12, <2>1
<1>15. \A k \in 1..4 : s7[n + 1 + k] = ExchangeStages(x)[k]
  <2>1. \A k \in 1..4 : n + 1 + k \in 1..(n + 5)
    BY <1>0
  <2> QED
    BY <1>2, <1>11, <2>1
<1>16. s7[n + 6] = ContentTypeStage(x)[1]
  <2>1. 1 \in 1..1 /\ n + 5 + 1 = n + 6 /\ n + 6 \in 1..(n + 6)
    BY <1>0
  <2>2. s3[n + 5 + 1] = ContentTypeStage(x)[1]
    BY <1>3, <2>1
  <2> QED
    BY <1>10, <2>1, <2>2
<1>17. \A i \in 1..n : s7[n + 6 + i] = ResponseStages(x)[i]
  <2>1. \A i \in 1..n : n + 6 + i \in 1..(2 * n + 6)
    BY <1>0
  <2> QED
    BY <1>4, <1>9, <2>1
<1>18. \A k \in 1..4 : s7[2 * n + 6 + k] = BodyStages(x)[k]
  <2>1. \A k \in 1..4 : 2 * n + 6 + k \in 1..(2 * n + 10)
    BY <1>0
  <2> QED
    BY <1>5, <1>8, <2>1
<1>19. \A k \in 1..2 : s7[2 * n + 10 + k] = HttpStages(x)[k]
  <2>1. \A k \in 1..2 : 2 * n + 10 + k \in 1..(2 * n + 12)
    BY <1>0
  <2> QED
    BY <1>6, <1>7, <2>1
<1> QED
  BY <1>0, <1>7, <1>13, <1>14, <1>15, <1>16, <1>17, <1>18, <1>19 DEF StagesInPlace

LEMMA ErrNotFine ==
    \A error, cause : error # "none" => Err(error, cause) # Fine
<1> SUFFICES ASSUME NEW error, NEW cause, error # "none" PROVE Err(error, cause) # Fine
  OBVIOUS
<1>1. Err(error, cause).error = error /\ Fine.error = "none"
  BY DEF Err, Fine
<1> QED
  BY <1>1

LEMMA CallEffect ==
    \A hook, i, outcome :
        /\ CallStage(hook, i, outcome).result = outcome
        /\ CallStage(hook, i, outcome).calls = <<[hook |-> hook, of |-> i]>>
  BY DEF CallStage

\* What each stage asks: the middleware, and then the checks one by one.
LEMMA HookResults ==
    ASSUME NEW x \in Exchange, NEW n, n = Len(x.middleware), NEW i \in 1..n
    PROVE  /\ Stages(x)[1 + i].result = x.middleware[i].on_request
           /\ Stages(x)[1 + i].calls = <<[hook |-> "on_request", of |-> i]>>
           /\ Stages(x)[n + 6 + i].result = x.middleware[n + 1 - i].on_response
           /\ Stages(x)[n + 6 + i].calls
                = <<[hook |-> "on_response", of |-> n + 1 - i]>>
<1>1. Stages(x)[1 + i] = RequestStages(x)[i] /\ Stages(x)[n + 6 + i] = ResponseStages(x)[i]
  <2>1. StagesInPlace(x, n)
    BY StagesAt
  <2> QED
    BY <2>1 DEF StagesInPlace
<1>2. /\ RequestStages(x)[i] = CallStage("on_request", i, x.middleware[i].on_request)
      /\ ResponseStages(x)[i]
           = CallStage("on_response", n + 1 - i, x.middleware[n + 1 - i].on_response)
  BY HookStages, Zenon
<1>3. /\ CallStage("on_request", i, x.middleware[i].on_request).result
           = x.middleware[i].on_request
      /\ CallStage("on_request", i, x.middleware[i].on_request).calls
           = <<[hook |-> "on_request", of |-> i]>>
      /\ CallStage("on_response", n + 1 - i, x.middleware[n + 1 - i].on_response).result
           = x.middleware[n + 1 - i].on_response
      /\ CallStage("on_response", n + 1 - i, x.middleware[n + 1 - i].on_response).calls
           = <<[hook |-> "on_response", of |-> n + 1 - i]>>
  BY CallEffect, ZenonT(40)
<1> QED
  BY <1>1, <1>2, <1>3, Zenon

LEMMA CheckResults ==
    ASSUME NEW x \in Exchange, NEW n, n = Len(x.middleware)
    PROVE  ChecksAsk(x, n)
<1>1. StagesInPlace(x, n)
  BY StagesAt
<1>2. Asks(x, 1,
                    x.scheme = "https" \/ x.allow_plaintext_http,
                    "TransportInsecure", "scheme")
  <2>1. Stages(x)[1] = Check(x.scheme = "https" \/ x.allow_plaintext_http,
                            "TransportInsecure", "scheme")
    BY <1>1 DEF StagesInPlace, SchemeStage
  <2> QED
    BY <2>1, ErrNotFine DEF Asks, Check, Stage
<1>3. Asks(x, n + 2, x.answer # "timeout", "Timeout", "per_request")
  <2>1. Stages(x)[n + 2] = Check(x.answer # "timeout", "Timeout", "per_request")
    BY <1>1 DEF StagesInPlace, ExchangeStages
  <2> QED
    BY <2>1, ErrNotFine DEF Asks, Check, Stage
<1>4. Asks(x, n + 3, x.answer # "refused", "Http", "connect")
  <2>1. Stages(x)[n + 3] = Check(x.answer # "refused", "Http", "connect")
    BY <1>1 DEF StagesInPlace, ExchangeStages
  <2> QED
    BY <2>1, ErrNotFine DEF Asks, Check, Stage
<1>5. Asks(x, n + 4, x.status # "406", "UnsupportedVersion", "406")
  <2>1. Stages(x)[n + 4] = Check(x.status # "406", "UnsupportedVersion", "406")
    BY <1>1 DEF StagesInPlace, ExchangeStages
  <2> QED
    BY <2>1, ErrNotFine DEF Asks, Check, Stage
<1>6. Asks(x, n + 5, x.status \notin ServerErrors \cup ClientErrors, "Http", x.status)
  <2>1. Stages(x)[n + 5] = Check(x.status \notin ServerErrors \cup ClientErrors,
                                 "Http", x.status)
    BY <1>1 DEF StagesInPlace, ExchangeStages
  <2> QED
    BY <2>1, ErrNotFine DEF Asks, Check, Stage
<1>7. Asks(x, n + 6, x.anml_content_type, "ContentTypeMismatch", "type")
  <2>1. Stages(x)[n + 6] = Check(x.anml_content_type, "ContentTypeMismatch", "type")
    BY <1>1 DEF StagesInPlace, ContentTypeStage
  <2> QED
    BY <2>1, ErrNotFine DEF Asks, Check, Stage
<1>8. Asks(x, 2 * n + 7, x.body.arrives, "Http", "timeout")
  <2>1. Stages(x)[2 * n + 7] = Check(x.body.arrives, "Http", "timeout")
    BY <1>1 DEF StagesInPlace, BodyStages
  <2> QED
    BY <2>1, ErrNotFine DEF Asks, Check, Stage
<1>9. Asks(x, 2 * n + 8,
                    x.body.size <= MaxDocumentSize(x),
                    "ResourceLimitExceeded", "max_document_size")
  <2>1. Stages(x)[2 * n + 8] = Check(x.body.size <= MaxDocumentSize(x),
                                     "ResourceLimitExceeded", "max_document_size")
    BY <1>1 DEF StagesInPlace, BodyStages
  <2> QED
    BY <2>1, ErrNotFine DEF Asks, Check, Stage
<1>10. Asks(x, 2 * n + 9, x.body.utf8, "MalformedDocument", "utf8")
  <2>1. Stages(x)[2 * n + 9] = Check(x.body.utf8, "MalformedDocument", "utf8")
    BY <1>1 DEF StagesInPlace, BodyStages
  <2> QED
    BY <2>1, ErrNotFine DEF Asks, Check, Stage
<1>11. Asks(x, 2 * n + 10, x.body.parses, "Parse", "anml")
  <2>1. Stages(x)[2 * n + 10] = Check(x.body.parses, "Parse", "anml")
    BY <1>1 DEF StagesInPlace, BodyStages
  <2> QED
    BY <2>1, ErrNotFine DEF Asks, Check, Stage
<1>12. Asks(x, 2 * n + 11,
                    (x.scheme = "http" => ~x.body.doc.constraints),
                    "TransportInsecure", "constraints")
  <2>1. Stages(x)[2 * n + 11] = Check((x.scheme = "http" => ~x.body.doc.constraints),
                                      "TransportInsecure", "constraints")
    BY <1>1 DEF StagesInPlace, HttpStages
  <2> QED
    BY <2>1, ErrNotFine DEF Asks, Check, Stage
<1>13. Asks(x, 2 * n + 12,
                    (x.scheme = "http" => ~x.body.doc.interact),
                    "TransportInsecure", "interact")
  <2>1. Stages(x)[2 * n + 12] = Check((x.scheme = "http" => ~x.body.doc.interact),
                                      "TransportInsecure", "interact")
    BY <1>1 DEF StagesInPlace, HttpStages
  <2> QED
    BY <2>1, ErrNotFine DEF Asks, Check, Stage
<1>14. Asks(x, 2 * n + 13,
                    (\A meta \in ToSet(x.body.doc.metas) : meta.name # "requires-ext"),
                    "UnsupportedExtension", "requires-ext")
  <2>1. Stages(x)[2 * n + 13]
          = Check((\A meta \in ToSet(x.body.doc.metas) : meta.name # "requires-ext"),
                  "UnsupportedExtension", "requires-ext")
    BY <1>1 DEF StagesInPlace, MetaStages, Check, Stage
  <2> QED
    BY <2>1, ErrNotFine DEF Asks, Check, Stage
<1>15. Asks(x, 2 * n + 14,
                    (\A meta \in ToSet(x.body.doc.metas) :
                        meta.name = "profile" => meta.value \in SupportedProfiles),
                    "UnsupportedProfile", "profile")
  <2>1. Stages(x)[2 * n + 14]
          = Check((\A meta \in ToSet(x.body.doc.metas) :
                      meta.name = "profile" => meta.value \in SupportedProfiles),
                  "UnsupportedProfile", "profile")
    BY <1>1 DEF StagesInPlace, MetaStages, Check, Stage
  <2> QED
    BY <2>1, ErrNotFine DEF Asks, Check, Stage
<1> QED
  BY <1>2, <1>3, <1>4, <1>5, <1>6, <1>7, <1>8, <1>9, <1>10, <1>11, <1>12, <1>13, <1>14, <1>15
  DEF ChecksAsk

LEMMA AttemptEnds ==
    ASSUME NEW x \in Exchange, NEW n, n = Len(x.middleware)
    PROVE  \E last : EndsAt(x, 2 * n + 14, last)
<1> DEFINE stages == Stages(x)
           m == 2 * n + 14
           failed == {i \in DOMAIN stages : stages[i].result # Fine}
           last == IF failed = {} THEN Len(stages) ELSE Min(failed)
<1>1. m \in Nat \ {0} /\ Len(stages) = m /\ DOMAIN stages = 1..m
  <2>1. n \in Nat /\ IsSequence(stages) /\ Len(stages) = 2 * n + 14
    BY StagesAt DEF StagesInPlace
  <2> HIDE DEF stages
  <2>2. PICK S : stages \in Seq(S)
    BY <2>1 DEF IsSequence
  <2>3. DOMAIN stages = 1..Len(stages)
    BY <2>2
  <2> QED
    BY <2>1, <2>3
<1>2. /\ Attempt(x).result = stages[last].result
      /\ Attempt(x).calls = FlattenSeq([i \in 1..last |-> stages[i].calls])
  BY DEF Attempt
<1> HIDE DEF stages, m
<1>3. CASE failed = {}
  <2>1. last = m
    BY <1>1, <1>3
  <2>2. \A i \in 1..m : stages[i].result = Fine
    BY <1>1, <1>3
  <2> HIDE DEF last
  <2>3. EndsAt(x, m, last)
    BY <1>1, <1>2, <2>1, <2>2 DEF EndsAt, stages
  <2> QED
    BY <2>3 DEF m
<1>4. CASE failed # {}
  <2>1. failed \subseteq Nat /\ failed \subseteq 1..m
    BY <1>1
  <2>2. \E i \in failed : \A j \in failed : i <= j
    <3> HIDE DEF failed
    <3> QED
      BY <1>4, <2>1, SmallestNat
  <2>3. last = Min(failed)
    BY <1>4
  <2>4. last \in failed /\ \A j \in failed : last <= j
    <3> HIDE DEF failed, last
    <3> QED
      BY <2>2, <2>3 DEF Min
  <2>5. last \in 1..m /\ stages[last].result # Fine
    BY <2>4, <2>1
  <2>6. \A i \in 1..(last - 1) : stages[i].result = Fine
    <3> SUFFICES ASSUME NEW i \in 1..(last - 1), stages[i].result # Fine PROVE FALSE
      OBVIOUS
    <3>1. i \in 1..m /\ ~(last <= i)
      <4> HIDE DEF last
      <4> QED
        BY <2>5, <1>1
    <3>2. i \in failed
      BY <1>1, <3>1
    <3> QED
      BY <2>4, <3>1, <3>2
  <2> HIDE DEF last, failed
  <2>7. EndsAt(x, m, last)
    BY <1>2, <2>5, <2>6 DEF EndsAt, stages
  <2> QED
    BY <2>7 DEF m
<1> QED
  BY <1>3, <1>4

\* A stage is one of a middleware or one of the fourteen checks.
LEMMA StageIndex ==
    ASSUME NEW n \in Nat, NEW i \in 1..(2 * n + 14)
    PROVE  \/ \E j \in 1..n : i = 1 + j \/ i = n + 6 + j
           \/ i = 1 \/ i = n + 2 \/ i = n + 3 \/ i = n + 4 \/ i = n + 5 \/ i = n + 6
           \/ i = 2 * n + 7 \/ i = 2 * n + 8 \/ i = 2 * n + 9 \/ i = 2 * n + 10
           \/ i = 2 * n + 11 \/ i = 2 * n + 12 \/ i = 2 * n + 13 \/ i = 2 * n + 14
<1>1. CASE i \in 2..(n + 1)
  <2>1. i - 1 \in 1..n /\ i = 1 + (i - 1)
    BY <1>1
  <2> QED
    BY <2>1
<1>2. CASE i \in (n + 7)..(2 * n + 6)
  <2>1. i - n - 6 \in 1..n /\ i = n + 6 + (i - n - 6)
    BY <1>2
  <2> QED
    BY <2>1
<1>3. CASE i \notin 2..(n + 1) \cup (n + 7)..(2 * n + 6)
  BY <1>3
<1> QED
  BY <1>1, <1>2, <1>3

LEMMA StageIndexes ==
    ASSUME NEW n \in Nat
    PROVE  /\ \A j \in 1..n : 1 + j \in 1..(2 * n + 14) /\ n + 6 + j \in 1..(2 * n + 14)
           /\ {1, n + 2, n + 3, n + 4, n + 5, n + 6, 2 * n + 7, 2 * n + 8, 2 * n + 9,
               2 * n + 10, 2 * n + 11, 2 * n + 12, 2 * n + 13, 2 * n + 14}
                \subseteq 1..(2 * n + 14)
  OBVIOUS

\* No stage fails with an exchange that is trustworthy, and only with one.
LEMMA FineStages ==
    ASSUME NEW x \in Exchange, NEW n, n = Len(x.middleware)
    PROVE  (\A i \in 1..(2 * n + 14) : Stages(x)[i].result = Fine) <=> Trustworthy(x)
<1>1. n \in Nat /\ ChecksAsk(x, n)
  BY StagesAt, CheckResults DEF StagesInPlace
<1> DEFINE hooks == \A i \in 1..n : /\ x.middleware[i].on_request = Fine
                                    /\ x.middleware[i].on_response = Fine
           fine(i) == Stages(x)[i].result = Fine
<1>2. (\A i \in 1..n : fine(1 + i) /\ fine(n + 6 + i)) <=> hooks
  <2>1. \A i \in 1..n : /\ Stages(x)[1 + i].result = x.middleware[i].on_request
                        /\ Stages(x)[n + 6 + i].result = x.middleware[n + 1 - i].on_response
    BY HookResults
  <2>2. \A i \in 1..n : n + 1 - i \in 1..n /\ n + 1 - (n + 1 - i) = i
    BY <1>1
  <2>3. ASSUME hooks, NEW i \in 1..n PROVE fine(1 + i) /\ fine(n + 6 + i)
    BY <2>1, <2>2, <2>3
  <2>4. ASSUME \A i \in 1..n : fine(1 + i) /\ fine(n + 6 + i), NEW i \in 1..n
        PROVE  /\ x.middleware[i].on_request = Fine
               /\ x.middleware[i].on_response = Fine
    <3>1. fine(1 + i) /\ fine(n + 6 + (n + 1 - i))
      BY <2>2, <2>4
    <3>2. /\ Stages(x)[1 + i].result = x.middleware[i].on_request
          /\ Stages(x)[n + 6 + (n + 1 - i)].result
               = x.middleware[n + 1 - (n + 1 - i)].on_response
      BY <2>1, <2>2
    <3> QED
      BY <2>2, <3>1, <3>2
  <2> QED
    BY <2>3, <2>4
<1>3. /\ fine(1) <=> x.scheme = "https" \/ x.allow_plaintext_http
      /\ fine(n + 2) <=> x.answer # "timeout"
      /\ fine(n + 3) <=> x.answer # "refused"
      /\ fine(n + 4) <=> x.status # "406"
      /\ fine(n + 5) <=> x.status \notin ServerErrors \cup ClientErrors
      /\ fine(n + 6) <=> x.anml_content_type
      /\ fine(2 * n + 7) <=> x.body.arrives
      /\ fine(2 * n + 8) <=> x.body.size <= MaxDocumentSize(x)
      /\ fine(2 * n + 9) <=> x.body.utf8
      /\ fine(2 * n + 10) <=> x.body.parses
      /\ fine(2 * n + 11) <=> (x.scheme = "http" => ~x.body.doc.constraints)
      /\ fine(2 * n + 12) <=> (x.scheme = "http" => ~x.body.doc.interact)
  <2>1. fine(1) <=> x.scheme = "https" \/ x.allow_plaintext_http
    BY <1>1 DEF ChecksAsk, Asks
  <2>2. fine(n + 2) <=> x.answer # "timeout"
    BY <1>1 DEF ChecksAsk, Asks
  <2>3. fine(n + 3) <=> x.answer # "refused"
    BY <1>1 DEF ChecksAsk, Asks
  <2>4. fine(n + 4) <=> x.status # "406"
    BY <1>1 DEF ChecksAsk, Asks
  <2>5. fine(n + 5) <=> x.status \notin ServerErrors \cup ClientErrors
    BY <1>1 DEF ChecksAsk, Asks
  <2>6. fine(n + 6) <=> x.anml_content_type
    BY <1>1 DEF ChecksAsk, Asks
  <2>7. fine(2 * n + 7) <=> x.body.arrives
    BY <1>1 DEF ChecksAsk, Asks
  <2>8. fine(2 * n + 8) <=> x.body.size <= MaxDocumentSize(x)
    BY <1>1 DEF ChecksAsk, Asks
  <2>9. fine(2 * n + 9) <=> x.body.utf8
    BY <1>1 DEF ChecksAsk, Asks
  <2>10. fine(2 * n + 10) <=> x.body.parses
    BY <1>1 DEF ChecksAsk, Asks
  <2>11. fine(2 * n + 11) <=> (x.scheme = "http" => ~x.body.doc.constraints)
    BY <1>1 DEF ChecksAsk, Asks
  <2>12. fine(2 * n + 12) <=> (x.scheme = "http" => ~x.body.doc.interact)
    BY <1>1 DEF ChecksAsk, Asks
  <2> HIDE DEF fine
  <2> QED
    BY <2>1, <2>2, <2>3, <2>4, <2>5, <2>6, <2>7, <2>8, <2>9, <2>10, <2>11, <2>12
<1>4. fine(2 * n + 13) /\ fine(2 * n + 14)
        <=> \A i \in DOMAIN x.body.doc.metas :
               LET meta == x.body.doc.metas[i]
               IN  /\ meta.name # "requires-ext"
                   /\ meta.name = "profile" => meta.value \in SupportedProfiles
  <2>1. /\ fine(2 * n + 13)
             <=> \A meta \in ToSet(x.body.doc.metas) : meta.name # "requires-ext"
        /\ fine(2 * n + 14)
             <=> \A meta \in ToSet(x.body.doc.metas) :
                    meta.name = "profile" => meta.value \in SupportedProfiles
    BY <1>1 DEF ChecksAsk, Asks
  <2> QED
    BY <2>1 DEF ToSet
<1>5. (\A i \in 1..(2 * n + 14) : fine(i))
        <=> /\ fine(1) /\ \A i \in 1..n : fine(1 + i) /\ fine(n + 6 + i)
            /\ fine(n + 2) /\ fine(n + 3) /\ fine(n + 4) /\ fine(n + 5) /\ fine(n + 6)
            /\ fine(2 * n + 7) /\ fine(2 * n + 8) /\ fine(2 * n + 9) /\ fine(2 * n + 10)
            /\ fine(2 * n + 11) /\ fine(2 * n + 12) /\ fine(2 * n + 13) /\ fine(2 * n + 14)
  <2> HIDE DEF fine
  <2>1. ASSUME \A i \in 1..n : fine(1 + i) /\ fine(n + 6 + i),
               fine(1) /\ fine(n + 2) /\ fine(n + 3) /\ fine(n + 4) /\ fine(n + 5),
               fine(n + 6) /\ fine(2 * n + 7) /\ fine(2 * n + 8) /\ fine(2 * n + 9),
               fine(2 * n + 10) /\ fine(2 * n + 11) /\ fine(2 * n + 12),
               fine(2 * n + 13) /\ fine(2 * n + 14),
               NEW i \in 1..(2 * n + 14)
        PROVE  fine(i)
    BY <1>1, <2>1, StageIndex, Zenon
  <2>2. ASSUME \A i \in 1..(2 * n + 14) : fine(i)
        PROVE  /\ fine(1) /\ \A i \in 1..n : fine(1 + i) /\ fine(n + 6 + i)
               /\ fine(n + 2) /\ fine(n + 3) /\ fine(n + 4) /\ fine(n + 5) /\ fine(n + 6)
               /\ fine(2 * n + 7) /\ fine(2 * n + 8) /\ fine(2 * n + 9)
               /\ fine(2 * n + 10) /\ fine(2 * n + 11) /\ fine(2 * n + 12)
               /\ fine(2 * n + 13) /\ fine(2 * n + 14)
    BY <1>1, <2>2, StageIndexes
  <2> QED
    BY <2>1, <2>2
<1>6. /\ x.scheme \in {"http", "https"} /\ x.answer \in {"timeout", "refused", "answer"}
      /\ x.allow_plaintext_http \in BOOLEAN
      /\ x.status \in {"200", "304", "406"} \cup ServerErrors \cup ClientErrors
      /\ x.max_document_size \in Nat /\ x.body.size \in Nat
  BY DEF Exchange
<1>7. DOMAIN x.middleware = 1..n
  BY HookStages
<1>8. x.body.size <= MaxDocumentSize(x)
        <=> x.body.size <= 1024 \/ x.body.size <= x.max_document_size
  BY <1>6 DEF MaxDocumentSize, Clamp, Floors
<1>9. /\ fine(1) /\ fine(2 * n + 11) /\ fine(2 * n + 12)
           <=> \/ x.scheme = "https"
               \/ /\ x.allow_plaintext_http
                  /\ ~x.body.doc.constraints /\ ~x.body.doc.interact
      /\ fine(n + 2) /\ fine(n + 3) <=> x.answer = "answer"
      /\ fine(n + 4) /\ fine(n + 5) <=> x.status \in {"200", "304"}
  <2> HIDE DEF fine
  <2> QED
    BY <1>3, <1>6 DEF ServerErrors, ClientErrors
<1> HIDE DEF fine
<1>10. (\A i \in 1..(2 * n + 14) : fine(i)) <=> Trustworthy(x)
  BY <1>2, <1>3, <1>4, <1>5, <1>7, <1>8, <1>9, Zenon DEF Trustworthy
<1> QED
  BY <1>10 DEF fine

\* A stage that fails with an error to retry does so for a fault in passing.
LEMMA RetryableStages ==
    ASSUME NEW x \in Exchange, NEW n, n = Len(x.middleware), NEW i \in 1..(2 * n + 14),
           Retryable(Stages(x)[i].result)
    PROVE  TransientFault(x)
<1>1. n \in Nat /\ ChecksAsk(x, n) /\ DOMAIN x.middleware = 1..n
  BY StagesAt, CheckResults, HookStages DEF StagesInPlace
<1>2. \A error, cause : Err(error, cause).error = error /\ Err(error, cause).cause = cause
  BY DEF Err
<1>3. ~Retryable(Fine)
  BY DEF Retryable, Fine
<1>4. ASSUME NEW j \in 1..n, i = 1 + j \/ i = n + 6 + j PROVE TransientFault(x)
  <2>1. /\ Stages(x)[1 + j].result = x.middleware[j].on_request
        /\ Stages(x)[n + 6 + j].result = x.middleware[n + 1 - j].on_response
    BY HookResults
  <2>2. n + 1 - j \in 1..n
    BY <1>1
  <2> QED
    BY <1>1, <1>4, <2>1, <2>2 DEF TransientFault
<1>5. CASE i \in {n + 4, n + 6, 1} \cup {2 * n + 8, 2 * n + 9, 2 * n + 10, 2 * n + 11}
              \cup {2 * n + 12, 2 * n + 13, 2 * n + 14}
  <2> DEFINE outcome == Stages(x)[i].result
  <2>1. i = 1 => outcome \in {Fine, Err("TransportInsecure", "scheme")}
    BY <1>1 DEF ChecksAsk, Asks
  <2>2. i = n + 4 => outcome \in {Fine, Err("UnsupportedVersion", "406")}
    BY <1>1 DEF ChecksAsk, Asks
  <2>3. i = n + 6 => outcome \in {Fine, Err("ContentTypeMismatch", "type")}
    BY <1>1 DEF ChecksAsk, Asks
  <2>4. i = 2 * n + 8 => outcome \in {Fine, Err("ResourceLimitExceeded", "max_document_size")}
    BY <1>1 DEF ChecksAsk, Asks
  <2>5. i = 2 * n + 9 => outcome \in {Fine, Err("MalformedDocument", "utf8")}
    BY <1>1 DEF ChecksAsk, Asks
  <2>6. i = 2 * n + 10 => outcome \in {Fine, Err("Parse", "anml")}
    BY <1>1 DEF ChecksAsk, Asks
  <2>7. i = 2 * n + 11 => outcome \in {Fine, Err("TransportInsecure", "constraints")}
    BY <1>1 DEF ChecksAsk, Asks
  <2>8. i = 2 * n + 12 => outcome \in {Fine, Err("TransportInsecure", "interact")}
    BY <1>1 DEF ChecksAsk, Asks
  <2>9. i = 2 * n + 13 => outcome \in {Fine, Err("UnsupportedExtension", "requires-ext")}
    BY <1>1 DEF ChecksAsk, Asks
  <2>10. i = 2 * n + 14 => outcome \in {Fine, Err("UnsupportedProfile", "profile")}
    BY <1>1 DEF ChecksAsk, Asks
  <2> HIDE DEF outcome
  <2>11. outcome = Fine \/ \E error, cause : /\ error \notin {"Http", "Timeout"}
                                            /\ outcome = Err(error, cause)
    BY <1>5, <2>1, <2>2, <2>3, <2>4, <2>5, <2>6, <2>7, <2>8, <2>9, <2>10
  <2>12. ~Retryable(outcome)
    BY <1>2, <1>3, <2>11 DEF Retryable
  <2> QED
    BY <2>12 DEF outcome
<1>6. CASE i = n + 2
  <2>1. x.answer # "timeout" => Stages(x)[i].result = Fine
    BY <1>1, <1>6 DEF ChecksAsk, Asks
  <2> QED
    BY <1>3, <2>1 DEF TransientFault
<1>7. CASE i = n + 3
  <2>1. x.answer # "refused" => Stages(x)[i].result = Fine
    BY <1>1, <1>7 DEF ChecksAsk, Asks
  <2> QED
    BY <1>3, <2>1 DEF TransientFault
<1>8. CASE i = n + 5
  <2>1. Stages(x)[i].result = Fine \/ Stages(x)[i].result = Err("Http", x.status)
    BY <1>1, <1>8 DEF ChecksAsk, Asks
  <2>2. x.status \in RetryableStatuses \cup {"connect", "timeout"}
    BY <1>2, <1>3, <2>1 DEF Retryable
  <2>3. x.status \in {"200", "304", "406"} \cup ServerErrors \cup ClientErrors
    BY DEF Exchange
  <2> QED
    BY <2>2, <2>3 DEF TransientFault, RetryableStatuses, ServerErrors, ClientErrors
<1>9. CASE i = 2 * n + 7
  <2>1. x.body.arrives => Stages(x)[i].result = Fine
    BY <1>1, <1>9 DEF ChecksAsk, Asks
  <2> QED
    BY <1>3, <2>1 DEF TransientFault
<1> QED
  BY <1>1, <1>4, <1>5, <1>6, <1>7, <1>8, <1>9, StageIndex

LEMMA MadeByChecks ==
    ASSUME NEW n \in Nat, NEW i \in Int,
           \/ i = 1 \/ i = n + 2 \/ i = n + 3 \/ i = n + 4 \/ i = n + 5 \/ i = n + 6
           \/ i = 2 * n + 7 \/ i = 2 * n + 8 \/ i = 2 * n + 9 \/ i = 2 * n + 10
           \/ i = 2 * n + 11 \/ i = 2 * n + 12 \/ i = 2 * n + 13 \/ i = 2 * n + 14
    PROVE  Made(n, i) = Made(n, i - 1)
<1>1. CASE i = 1
  BY <1>1 DEF Made
<1>2. CASE i \in (n + 2)..(n + 6)
  BY <1>2 DEF Made
<1>3. CASE i \in (2 * n + 7)..(2 * n + 14)
  BY <1>3 DEF Made
<1> QED
  BY <1>1, <1>2, <1>3

LEMMA OnionLayers ==
    ASSUME NEW x \in Exchange, NEW n, n = Len(x.middleware)
    PROVE  /\ IsSequence(Onion(x)) /\ Len(Onion(x)) = 2 * n
           /\ \A k \in 1..n : Onion(x)[k] = [hook |-> "on_request", of |-> k]
           /\ \A k \in (n + 1)..(2 * n) :
                Onion(x)[k] = [hook |-> "on_response", of |-> 2 * n + 1 - k]
<1>1. n \in Nat /\ 2 * n \in Nat
  BY StagesAt DEF StagesInPlace
<1> DEFINE layer(k) == IF k <= n THEN [hook |-> "on_request", of |-> k]
                       ELSE [hook |-> "on_response", of |-> 2 * n + 1 - k]
           onion == [k \in 1..(2 * n) |-> layer(k)]
<1>2. Onion(x) = onion
  BY DEF Onion
<1>3. IsSequence(onion) /\ Len(onion) = 2 * n
  <2> HIDE DEF layer
  <2> QED
    BY <1>1, FunctionSequence
<1>4. ASSUME NEW k \in 1..n PROVE onion[k] = [hook |-> "on_request", of |-> k]
  BY <1>1
<1>5. ASSUME NEW k \in (n + 1)..(2 * n)
      PROVE  onion[k] = [hook |-> "on_response", of |-> 2 * n + 1 - k]
  BY <1>1
<1> HIDE DEF onion
<1> QED
  BY <1>2, <1>3, <1>4, <1>5

\* The middleware is called in the order of the layers.
LEMMA CallsMade ==
    ASSUME NEW x \in Exchange, NEW n, n = Len(x.middleware), NEW last \in 1..(2 * n + 14)
    PROVE  FlattenSeq([i \in 1..last |-> Stages(x)[i].calls])
             = SubSeq(Onion(x), 1, Made(n, last))
<1>1. n \in Nat /\ ChecksAsk(x, n) /\ last \in Nat \ {0}
  BY StagesAt, CheckResults DEF StagesInPlace
<1> DEFINE seqs == [i \in 1..last |-> Stages(x)[i].calls]
           onion == Onion(x)
           made == [i \in 0..last |-> Made(n, i)]
<1>2. \A i \in 0..last : Made(n, i) \in 0..(2 * n)
  BY <1>1 DEF Made
<1>3. /\ IsSequence(onion) /\ Len(onion) = 2 * n
      /\ \A k \in 1..n : onion[k] = [hook |-> "on_request", of |-> k]
      /\ \A k \in (n + 1)..(2 * n) : onion[k] = [hook |-> "on_response", of |-> 2 * n + 1 - k]
  BY OnionLayers
<1> HIDE DEF onion
<1>4. ASSUME NEW i \in 1..last
      PROVE  \/ made[i] = made[i - 1] /\ seqs[i] = << >>
             \/ made[i] = made[i - 1] + 1 /\ seqs[i] = <<onion[made[i]]>>
  <2>1. /\ i \in 1..(2 * n + 14) /\ i \in 0..last /\ i - 1 \in 0..last
        /\ made[i] = Made(n, i) /\ made[i - 1] = Made(n, i - 1)
        /\ seqs[i] = Stages(x)[i].calls
    BY <1>1
  <2>2. ASSUME NEW j \in 1..n, i = 1 + j
        PROVE  made[i] = made[i - 1] + 1 /\ seqs[i] = <<onion[made[i]]>>
    <3>1. Made(n, i) = j /\ Made(n, i - 1) = j - 1
      BY <1>1, <2>2 DEF Made
    <3>2. Stages(x)[1 + j].calls = <<[hook |-> "on_request", of |-> j]>>
      BY HookResults
    <3> HIDE DEF made, seqs
    <3> QED
      BY <1>1, <1>3, <2>1, <2>2, <3>1, <3>2
  <2>3. ASSUME NEW j \in 1..n, i = n + 6 + j
        PROVE  made[i] = made[i - 1] + 1 /\ seqs[i] = <<onion[made[i]]>>
    <3>1. /\ Made(n, i) = n + j /\ Made(n, i - 1) = n + j - 1
          /\ n + j \in (n + 1)..(2 * n) /\ 2 * n + 1 - (n + j) = n + 1 - j
      BY <1>1, <2>3 DEF Made
    <3>2. Stages(x)[n + 6 + j].calls = <<[hook |-> "on_response", of |-> n + 1 - j]>>
      BY HookResults, Zenon
    <3>3. onion[n + j] = [hook |-> "on_response", of |-> n + 1 - j]
      BY <1>3, <3>1
    <3> HIDE DEF made, seqs
    <3> QED
      BY <1>1, <2>1, <2>3, <3>1, <3>2, <3>3
  <2>4. ASSUME \/ i = 1 \/ i = n + 2 \/ i = n + 3 \/ i = n + 4 \/ i = n + 5 \/ i = n + 6
               \/ i = 2 * n + 7 \/ i = 2 * n + 8 \/ i = 2 * n + 9 \/ i = 2 * n + 10
               \/ i = 2 * n + 11 \/ i = 2 * n + 12 \/ i = 2 * n + 13 \/ i = 2 * n + 14
        PROVE  made[i] = made[i - 1] /\ seqs[i] = << >>
    <3>1. i \in Int
      BY <1>1, <2>1
    <3>3. Made(n, i) = Made(n, i - 1)
      BY <1>1, <2>4, <3>1, MadeByChecks, Zenon
    <3>2. Stages(x)[i].calls = << >>
      BY <1>1, <2>4 DEF ChecksAsk, Asks
    <3> HIDE DEF made, seqs
    <3> QED
      BY <2>1, <3>2, <3>3
  <2> HIDE DEF made, seqs
  <2> QED
    BY <1>1, <2>1, <2>2, <2>3, <2>4, StageIndex
<1>5. /\ made \in [0..last -> 0..Len(onion)] /\ made[0] = 0 /\ made[last] = Made(n, last)
      /\ Len(seqs) = last
  BY <1>1, <1>2, <1>3 DEF Made
<1>6. PICK S : onion \in Seq(S)
  BY <1>3 DEF IsSequence
<1> HIDE DEF made, seqs
<1>7. FlattenSeq(seqs) = SubSeq(onion, 1, made[last])
  <2>1. \A i \in 1..last : \/ made[i] = made[i - 1] /\ seqs[i] = << >>
                           \/ made[i] = made[i - 1] + 1 /\ seqs[i] = <<onion[made[i]]>>
    BY <1>4
  <2>2. Layered(last, seqs, onion, made)
    BY <1>5, <2>1 DEF Layered
  <2> QED
    BY <1>1, <1>6, <2>2, FlattenEffect, Zenon
<1> QED
  BY <1>5, <1>7 DEF seqs, onion

\* What one attempt comes to.
LEMMA AttemptIsSound ==
    ASSUME NEW x \in Exchange
    PROVE  /\ Attempt(x).result = Fine <=> Trustworthy(x)
           /\ Attempt(x).result = Fine => Attempt(x).calls = Onion(x)
           /\ IsPrefix(Attempt(x).calls, Onion(x))
           /\ Len(Attempt(x).calls) > Len(x.middleware) =>
                 /\ x.answer = "answer" /\ x.status \in {"200", "304"}
                 /\ x.anml_content_type
           /\ Retryable(Attempt(x).result) => TransientFault(x)
<1> DEFINE n == Len(x.middleware)
           m == 2 * n + 14
           calls == Attempt(x).calls
           onion == Onion(x)
<1>1. n \in Nat /\ m \in Nat \ {0}
  BY StagesAt DEF StagesInPlace
<1>2. PICK last : EndsAt(x, m, last)
  BY AttemptEnds
<1>3. last \in 1..m
  BY <1>2 DEF EndsAt
<1>4. calls = SubSeq(onion, 1, Made(n, last))
  BY <1>2, <1>3, CallsMade DEF EndsAt
<1>5. IsSequence(onion) /\ Len(onion) = 2 * n
  BY OnionLayers
<1>6. (\A i \in 1..m : Stages(x)[i].result = Fine) <=> Trustworthy(x)
  BY FineStages
<1>7. ChecksAsk(x, n)
  BY CheckResults
<1> HIDE DEF n, calls, onion
<1>8. Attempt(x).result = Fine <=> \A i \in 1..m : Stages(x)[i].result = Fine
  <2> HIDE DEF m
  <2>1. ASSUME Attempt(x).result = Fine, NEW i \in 1..m PROVE Stages(x)[i].result = Fine
    <3>1. last = m /\ Stages(x)[m].result = Fine
          /\ \A j \in 1..(m - 1) : Stages(x)[j].result = Fine
      BY <1>2, <2>1 DEF EndsAt
    <3>2. i = m \/ i \in 1..(m - 1)
      BY <1>1
    <3> QED
      BY <3>1, <3>2
  <2>2. ASSUME \A i \in 1..m : Stages(x)[i].result = Fine PROVE Attempt(x).result = Fine
    BY <1>2, <2>2 DEF EndsAt
  <2> QED
    BY <2>1, <2>2
<1>9. Attempt(x).result = Fine => last = m
  BY <1>2 DEF EndsAt
<1>10. Made(n, last) \in 0..(2 * n) /\ Made(n, m) = 2 * n
  BY <1>1, <1>3 DEF Made
<1>11. PICK S : onion \in Seq(S)
  BY <1>5 DEF IsSequence
<1>12. /\ Len(calls) = Made(n, last) /\ IsPrefix(calls, onion)
       /\ Made(n, last) = 2 * n => calls = onion
  <2> DEFINE k == Made(n, last)
  <2>1. k \in 0..Len(onion) /\ calls = SubSeq(onion, 1, k)
    BY <1>4, <1>5, <1>10
  <2> HIDE DEF k
  <2>2. /\ Len(calls) = k /\ calls \in Seq(S)
        /\ \A i \in 1..k : calls[i] = onion[i]
    BY <1>11, <2>1
  <2>3. calls = [i \in 1..k |-> onion[i]]
    BY <2>2
  <2>4. IsPrefix(calls, onion)
    BY <1>11, <2>1, <2>2 DEF IsPrefix
  <2>5. k = Len(onion) => calls = onion
    BY <1>11, <2>1, <2>2
  <2> QED
    BY <1>5, <2>2, <2>4, <2>5 DEF k
<1>13. ASSUME Len(calls) > n
       PROVE  /\ x.answer = "answer" /\ x.status \in {"200", "304"} /\ x.anml_content_type
  <2>1. last > n + 6
    BY <1>1, <1>3, <1>12, <1>13 DEF Made
  <2>2. \A i \in {n + 2, n + 3, n + 4, n + 5, n + 6} : i \in 1..(last - 1)
    BY <1>1, <1>3, <2>1
  <2>3. \A i \in {n + 2, n + 3, n + 4, n + 5, n + 6} : Stages(x)[i].result = Fine
    BY <1>2, <2>2 DEF EndsAt
  <2>4. /\ x.answer # "timeout" /\ x.answer # "refused" /\ x.status # "406"
        /\ x.status \notin ServerErrors \cup ClientErrors /\ x.anml_content_type
    BY <1>7, <2>3 DEF ChecksAsk, Asks
  <2>5. /\ x.answer \in {"timeout", "refused", "answer"}
        /\ x.status \in {"200", "304", "406"} \cup ServerErrors \cup ClientErrors
    BY DEF Exchange
  <2> QED
    BY <2>4, <2>5
<1>14. Retryable(Attempt(x).result) => TransientFault(x)
  <2>1. Attempt(x).result = Stages(x)[last].result
    BY <1>2 DEF EndsAt
  <2> QED
    BY <1>3, <2>1, RetryableStages DEF n
<1> QED
  BY <1>6, <1>8, <1>9, <1>10, <1>12, <1>13, <1>14 DEF n, calls, onion

\* However many layers of middleware there are and whatever they, the server and the
\* configuration do: an attempt yields a document exactly if it is trustworthy, the
\* middleware is called layer by layer and its on_response only for answers of the
\* right status and type, and only faults in passing are answers to retry.
THEOREM AttemptsSound == Spec => []AttemptsAreSound
<1>1. Answered => AttemptsAreSound
  <2> SUFFICES ASSUME Answered, Returned("fetch")
               PROVE  AttemptsAreSound
    BY DEF AttemptsAreSound
  <2>1. call.exchange \in Exchange /\ result = Attempt(call.exchange)
    BY FetchAssumption DEF Answered, Returned
  <2> QED
    BY <2>1, AttemptIsSound, Zenon DEF AttemptsAreSound
<1> QED
  BY <1>1, AnsweredAlways, PTL

-----------------------------------------------------------------------------
(* The trust policy.                                                        *)

\* The ports two URLs of one scheme name, or leave to the scheme.
LEMMA PortsAgree ==
    ASSUME NEW standard \in Nat, NEW listed \in OptionalPort, NEW asked \in OptionalPort
    PROVE  LET named == listed \ {standard}
               full(port) == IF port = {} THEN {standard} ELSE port
           IN  named = asked \/ named = {}
                 <=> full(listed) = full(asked) \/ full(listed) = {standard}
<1>1. \/ listed = {}
      \/ \E p \in Nat : listed = {p}
  BY DEF OptionalPort
<1>2. \/ asked = {}
      \/ \E p \in Nat : asked = {p}
  BY DEF OptionalPort
<1> QED
  BY <1>1, <1>2

\* A URL that names at most one port.
LEMMA OnePort ==
    ASSUME NEW url, NamesOnePort(url)
    PROVE  url.port \in OptionalPort
<1>1. CASE url.port = {}
  BY <1>1 DEF OptionalPort
<1>2. CASE url.port # {}
  <2>1. PICK p \in url.port : TRUE
    BY <1>2
  <2>2. p \in Nat /\ url.port = {p}
    BY <2>1 DEF NamesOnePort
  <2> QED
    BY <2>2 DEF OptionalPort
<1> QED
  BY <1>1, <1>2

\* Whatever web URLs a policy was given: it trusts an origin exactly if one of them lists
\* it, by scheme, host and port, where a URL without a port of its own, or with its
\* scheme's, lists every port of the host.
THEOREM TrustIsListed ==
    ASSUME NEW origin \in Origin, NamesOnePort(origin), NEW urls, WebUrls(urls)
    PROVE  TrustEvaluate(urls, origin) <=> ListsOrigin(urls, origin)
<1> DEFINE listed(i) == [scheme |-> urls[i].scheme, host |-> urls[i].host,
                         port |-> NamedPort(urls[i])]
           bare == [origin EXCEPT !.port = {}]
           same(i) == /\ urls[i].parses /\ urls[i].scheme = origin.scheme
                      /\ urls[i].host = origin.host
           standard == StandardPort[origin.scheme]
<1>1. /\ origin = [scheme |-> origin.scheme, host |-> origin.host, port |-> origin.port]
      /\ bare = [scheme |-> origin.scheme, host |-> origin.host, port |-> {}]
      /\ origin.scheme \in WebSchemes /\ origin.port \in OptionalPort
  BY OnePort DEF Origin
<1>2. standard \in Nat
  BY <1>1 DEF WebSchemes, StandardPort
<1>3. TrustEvaluate(urls, origin)
        <=> \E i \in DOMAIN urls : urls[i].parses /\ (listed(i) = origin \/ listed(i) = bare)
  BY DEF TrustEvaluate, AllowList
<1>4. ASSUME NEW i \in DOMAIN urls
      PROVE  urls[i].parses /\ (listed(i) = origin \/ listed(i) = bare)
               <=> same(i) /\ (NamedPort(urls[i]) = origin.port \/ NamedPort(urls[i]) = {})
  <2> DEFINE named == NamedPort(urls[i])
  <2> HIDE DEF named, bare
  <2>1. listed(i) = [scheme |-> urls[i].scheme, host |-> urls[i].host, port |-> named]
    BY DEF named
  <2>2. listed(i) = origin
          <=> urls[i].scheme = origin.scheme /\ urls[i].host = origin.host /\ named = origin.port
    BY <1>1, <2>1
  <2>3. listed(i) = bare
          <=> urls[i].scheme = origin.scheme /\ urls[i].host = origin.host /\ named = {}
    BY <1>1, <2>1
  <2> HIDE DEF listed
  <2> QED
    BY <2>2, <2>3 DEF named
<1>5. ASSUME NEW i \in DOMAIN urls, same(i)
      PROVE  NamedPort(urls[i]) = origin.port \/ NamedPort(urls[i]) = {}
               <=> \/ PortOf(urls[i]) = PortOf(origin)
                   \/ PortOf(urls[i]) = {standard}
  <2>1. /\ NamedPort(urls[i]) = urls[i].port \ {standard}
        /\ PortOf(urls[i]) = IF urls[i].port = {} THEN {standard} ELSE urls[i].port
        /\ PortOf(origin) = IF origin.port = {} THEN {standard} ELSE origin.port
    BY <1>5 DEF NamedPort, PortOf
  <2>2. urls[i].port \in OptionalPort
    BY <1>5, OnePort DEF WebUrls
  <2> DEFINE theirs == urls[i].port
             full(port) == IF port = {} THEN {standard} ELSE port
  <2>3. /\ NamedPort(urls[i]) = theirs \ {standard}
        /\ PortOf(urls[i]) = full(theirs) /\ PortOf(origin) = full(origin.port)
    BY <2>1
  <2> HIDE DEF standard, theirs
  <2>4. theirs \ {standard} = origin.port \/ theirs \ {standard} = {}
          <=> full(theirs) = full(origin.port) \/ full(theirs) = {standard}
    <3>1. theirs \in OptionalPort /\ origin.port \in OptionalPort
      BY <1>1, <2>2 DEF theirs
    <3> DEFINE given == origin.port
    <3>2. given \in OptionalPort
      BY <3>1
    <3> HIDE DEF given
    <3>3. theirs \ {standard} = given \/ theirs \ {standard} = {}
            <=> full(theirs) = full(given) \/ full(theirs) = {standard}
      BY <1>2, <3>1, <3>2, PortsAgree, Zenon
    <3> QED
      BY <3>3 DEF given
  <2> HIDE DEF full
  <2> QED
    BY <2>3, <2>4, Zenon
<1> HIDE DEF listed, bare
<1>6. TrustEvaluate(urls, origin)
        <=> \E i \in DOMAIN urls :
               same(i) /\ (PortOf(urls[i]) = PortOf(origin) \/ PortOf(urls[i]) = {standard})
  BY <1>3, <1>4, <1>5
<1> QED
  BY <1>6 DEF ListsOrigin

-----------------------------------------------------------------------------
(* A fold over a list.                                                      *)

\* The maximum of a set is its greatest member.
LEMMA MaxIs ==
    ASSUME NEW S, NEW m \in S, m \in Int, \A i \in S : i \in Int /\ i <= m
    PROVE  Max(S) = m
<1>1. \A i \in S : m >= i
  OBVIOUS
<1>2. /\ Max(S) \in S
      /\ \A i \in S : Max(S) >= i
  BY <1>1, Zenon DEF Max
<1>3. Max(S) \in Int /\ Max(S) >= m /\ Max(S) <= m
  BY <1>2
<1> QED
  BY <1>3

\* A nonempty bounded set of positions has a maximum.
LEMMA MaxExists ==
    ASSUME NEW n \in Nat, NEW S \in SUBSET (1..n), S # {}
    PROVE  Max(S) \in S /\ \A i \in S : i <= Max(S)
<1>1. S \in SUBSET (0..n)
  OBVIOUS
<1>2. PICK m \in S : \A j \in S : j <= m
  BY <1>1, LargestNat
<1>3. Max(S) = m
  <2>1. m \in S /\ m \in Int /\ \A i \in S : i \in Int /\ i <= m
    BY <1>2
  <2> QED
    BY <2>1, MaxIs, Zenon
<1> QED
  BY <1>2, <1>3

\* The function FoldLeft chooses exists, whatever the list.
LEMMA UnfoldingExists ==
    ASSUME NEW how, NEW items, NEW n \in Nat
    PROVE  \E f : IsUnfolding(how, f, items, n)
<1> DEFINE good == {k \in Nat : \E f : f = [S \in SUBSET (1..k) |-> Unfolding(how, f, items, S)]}
<1>1. 0 \in good
  <2> DEFINE f == [S \in SUBSET (1..0) |-> Start(how)]
  <2>1. \A S \in SUBSET (1..0) : Unfolding(how, f, items, S) = Start(how)
    BY DEF Unfolding
  <2>2. f = [S \in SUBSET (1..0) |-> Unfolding(how, f, items, S)]
    BY <2>1
  <2> HIDE DEF f
  <2> QED
    BY <2>2
<1>2. ASSUME NEW k \in good PROVE k + 1 \in good
  <2>1. PICK f : f = [S \in SUBSET (1..k) |-> Unfolding(how, f, items, S)]
    BY <1>2
  <2> DEFINE g == [S \in SUBSET (1..(k + 1)) |->
                      IF k + 1 \in S THEN Stepped(how, f[S \ {k + 1}], items[k + 1]) ELSE f[S]]
  <2>2. k \in Nat
    BY <1>2
  <2>3. ASSUME NEW S \in SUBSET (1..(k + 1)) PROVE g[S] = Unfolding(how, g, items, S)
    <3>1. CASE k + 1 \in S
      <4>1. Max(S) = k + 1
        <5>1. \A i \in S : i \in Int /\ i <= k + 1
          BY <2>2
        <5> QED
          BY <2>2, <3>1, <5>1, MaxIs
      <4>2. S \ {k + 1} \in SUBSET (1..(k + 1)) /\ ~ (k + 1 \in S \ {k + 1})
        OBVIOUS
      <4>3. g[S \ {k + 1}] = f[S \ {k + 1}]
        BY <4>2
      <4>4. g[S] = Stepped(how, f[S \ {k + 1}], items[k + 1])
        BY <3>1
      <4> HIDE DEF g
      <4> QED
        BY <3>1, <4>1, <4>3, <4>4 DEF Unfolding
    <3>2. CASE ~ (k + 1 \in S)
      <4>1. S \in SUBSET (1..k)
        BY <2>2, <3>2
      <4>2. g[S] = f[S]
        BY <3>2
      <4>3. f[S] = Unfolding(how, f, items, S)
        BY <2>1, <4>1, Zenon
      <4>4. S \ {Max(S)} \in SUBSET (1..(k + 1)) /\ ~ (k + 1 \in S \ {Max(S)})
        BY <3>2
      <4>5. g[S \ {Max(S)}] = f[S \ {Max(S)}]
        BY <4>4
      <4> HIDE DEF g
      <4> QED
        BY <4>2, <4>3, <4>5 DEF Unfolding
    <3> QED
      BY <3>1, <3>2
  <2>4. g = [S \in SUBSET (1..(k + 1)) |-> Unfolding(how, g, items, S)]
    BY <2>3
  <2> HIDE DEF g
  <2> QED
    BY <2>2, <2>4
<1> HIDE DEF good
<1>3. good = Nat
  <2>1. good \in SUBSET Nat
    BY DEF good
  <2> QED
    BY <1>1, <1>2, <2>1, SetInduction
<1> QED
  BY <1>3 DEF good, IsUnfolding

\* The fold of all the items is the last stage of those it goes through.
LEMMA UnfoldingStages ==
    ASSUME NEW how, NEW items, NEW n \in Nat, NEW iter, IsUnfolding(how, iter, items, n)
    PROVE  \E stage : Folded(how, items, n, stage) /\ iter[1..n] = stage[n]
<1> DEFINE stage == [k \in 0..n |-> iter[1..k]]
<1>1. n \in Nat
  OBVIOUS
<1>2. iter = [S \in SUBSET (1..n) |-> Unfolding(how, iter, items, S)]
  BY DEF IsUnfolding
<1>3. stage[0] = Start(how)
  <2>1. 1..0 = {} /\ {} \in SUBSET (1..n) /\ 0 \in 0..n
    BY <1>1
  <2>2. iter[{}] = Unfolding(how, iter, items, {})
    BY <1>2, <2>1, Zenon
  <2> QED
    BY <2>1, <2>2 DEF Unfolding
<1>4. ASSUME NEW k \in 0..(n - 1)
      PROVE  stage[k + 1] = Stepped(how, stage[k], items[k + 1])
  <2>1. /\ k \in 0..n /\ k + 1 \in 0..n /\ 1..(k + 1) \in SUBSET (1..n)
        /\ (1..(k + 1)) \ {k + 1} = 1..k /\ 1..(k + 1) # {}
    <3>1. n \in Nat /\ k \in Nat /\ k + 1 <= n
      BY <1>1
    <3>2. k \in 0..n /\ k + 1 \in 0..n /\ 1..(k + 1) \in SUBSET (1..n)
      BY <3>1
    <3>3. k + 1 \in 1..(k + 1) /\ \A i \in 1..(k + 1) : i # k + 1 <=> i \in 1..k
      BY <3>1
    <3>4. 1..k \subseteq 1..(k + 1)
      BY <3>1
    <3>5. (1..(k + 1)) \ {k + 1} = 1..k
      BY <3>3, <3>4
    <3> QED
      BY <3>2, <3>3, <3>5
  <2>2. Max(1..(k + 1)) = k + 1
    <3>1. k + 1 \in 1..(k + 1) /\ k + 1 \in Int /\ \A i \in 1..(k + 1) : i \in Int /\ i <= k + 1
      BY <1>1
    <3> QED
      BY <3>1, MaxIs
  <2>3. iter[1..(k + 1)] = Unfolding(how, iter, items, 1..(k + 1))
    BY <1>2, <2>1, Zenon
  <2>4. Unfolding(how, iter, items, 1..(k + 1)) = Stepped(how, iter[1..k], items[k + 1])
    BY <2>1, <2>2 DEF Unfolding
  <2>5. stage[k] = iter[1..k] /\ stage[k + 1] = iter[1..(k + 1)]
    BY <2>1, Zenon
  <2> HIDE DEF stage
  <2> QED
    BY <2>3, <2>4, <2>5, Zenon
<1>5. stage[n] = iter[1..n]
  BY <1>1
<1> HIDE DEF stage
<1>6. Folded(how, items, n, stage)
  BY <1>3, <1>4 DEF Folded
<1> QED
  BY <1>5, <1>6, Zenon

LEMMA FoldEffect ==
    ASSUME NEW calls, IsList(calls)
    PROVE  \E built : /\ BuiltBy(built, calls)
                      /\ FoldLeft(Configured, NewBuilder, calls) = built[Len(calls)]
<1> DEFINE n == Len(calls)
           how == [fold |-> "builder"]
           Original(f) == f = [S \in SUBSET (DOMAIN calls) |->
               IF S = {} THEN NewBuilder ELSE Configured(f[S \ {Max(S)}], calls[Max(S)])]
           iter == CHOOSE f : Original(f)
<1>1. n \in Nat /\ DOMAIN calls = 1..n
  BY DEF IsList
<1>2. Start(how) = NewBuilder /\ \A prior, item : Stepped(how, prior, item) = Configured(prior, item)
  BY Zenon DEF Start, Stepped
<1>3. FoldLeft(Configured, NewBuilder, calls) = iter[DOMAIN calls]
  BY Zenon DEF FoldLeft, MapThenFoldSet
<1> HIDE DEF how
<1>4. \A f : Original(f) <=> IsUnfolding(how, f, calls, n)
  BY <1>1, <1>2, Zenon DEF IsUnfolding, Unfolding
<1> HIDE DEF Original
<1>5. \E f : Original(f)
  <2>1. \E f : IsUnfolding(how, f, calls, n)
    BY <1>1, UnfoldingExists, Zenon
  <2> QED
    BY <1>4, <2>1, Zenon
<1>6. Original(iter)
  BY <1>5, Zenon
<1> HIDE DEF iter
<1>7. PICK stage : Folded(how, calls, n, stage) /\ iter[1..n] = stage[n]
  BY <1>1, <1>4, <1>6, UnfoldingStages
<1>8. BuiltBy(stage, calls)
  BY <1>2, <1>7 DEF BuiltBy, Folded
<1> QED
  BY <1>1, <1>3, <1>7, <1>8

-----------------------------------------------------------------------------
(* What a builder holds after each of its calls.                            *)

\* The next call is the latest, or changes nothing.
LEMMA LatestStep ==
    ASSUME NEW calls, NEW k \in Nat, NEW ops
    PROVE  /\ Latest(calls, 0, ops) = 0
           /\ Latest(calls, k + 1, ops)
                = IF calls[k + 1].op \in ops THEN k + 1 ELSE Latest(calls, k, ops)
<1> DEFINE told(j) == {i \in 1..j : calls[i].op \in ops}
<1>1. Latest(calls, 0, ops) = 0
  BY DEF Latest
<1>2. CASE calls[k + 1].op \in ops
  <2>1. k + 1 \in told(k + 1) /\ \A i \in told(k + 1) : i \in Int /\ i <= k + 1
    BY <1>2
  <2>2. told(k + 1) # {}
    BY <2>1
  <2> HIDE DEF told
  <2>3. Max(told(k + 1)) = k + 1
    BY <2>1, MaxIs
  <2> QED
    BY <1>1, <1>2, <2>2, <2>3 DEF Latest, told
<1>3. CASE ~ (calls[k + 1].op \in ops)
  <2>1. told(k + 1) = told(k)
    <3>1. \A i \in 1..(k + 1) : i \in 1..k \/ i = k + 1
      OBVIOUS
    <3>2. 1..k \subseteq 1..(k + 1)
      OBVIOUS
    <3> QED
      BY <1>3, <3>1, <3>2
  <2> HIDE DEF told
  <2> QED
    BY <1>1, <1>3, <2>1 DEF Latest, told
<1> QED
  BY <1>2, <1>3

\* The latest call of some setters is one of theirs, and none comes after it.
LEMMA LatestIs ==
    ASSUME NEW calls, NEW n \in Nat, NEW ops
    PROVE  LET i == Latest(calls, n, ops)
           IN  \/ i = 0 /\ \A j \in 1..n : ~ (calls[j].op \in ops)
               \/ /\ i \in 1..n /\ calls[i].op \in ops
                  /\ \A j \in 1..n : calls[j].op \in ops => j <= i
<1> DEFINE told == {i \in 1..n : calls[i].op \in ops}
<1>1. CASE told = {}
  BY <1>1 DEF Latest
<1>2. CASE told # {}
  <2>1. Max(told) \in told /\ \A i \in told : i <= Max(told)
    <3>1. told \in SUBSET (1..n)
      OBVIOUS
    <3> HIDE DEF told
    <3> QED
      BY <1>2, <3>1, MaxExists
  <2>2. Latest(calls, n, ops) = Max(told)
    BY <1>2 DEF Latest
  <2> QED
    BY <2>1, <2>2
<1> QED
  BY <1>1, <1>2

\* No call, no element.
LEMMA ListedNone ==
    ASSUME NEW calls, NEW op
    PROVE  Listed(<< >>, calls, 0, op)
<1>1. IsSequence(<< >>)
  BY DEF IsSequence
<1>2. Enumerates([i \in DOMAIN << >> |-> 0], << >>, calls, 0, op)
  BY DEF Enumerates
<1> QED
  BY <1>1, <1>2 DEF Listed

\* What Append leaves and adds.
LEMMA AppendPlaces ==
    ASSUME NEW list, IsSequence(list), NEW v
    PROVE  /\ IsSequence(Append(list, v))
           /\ Len(list) \in Nat /\ DOMAIN list = 1..Len(list)
           /\ DOMAIN Append(list, v) = 1..(Len(list) + 1)
           /\ \A i \in DOMAIN list : Append(list, v)[i] = list[i]
           /\ Append(list, v)[Len(list) + 1] = v
<1>1. PICK S : list \in Seq(S)
  BY DEF IsSequence
<1>2. Append(list, v) \in Seq(S \cup {v})
  <2>1. list \in Seq(S \cup {v})
    BY <1>1
  <2> QED
    BY <2>1
<1>3. IsSequence(Append(list, v))
  BY <1>2 DEF IsSequence
<1>4. Len(list) \in Nat /\ DOMAIN list = 1..Len(list)
  BY <1>1
<1>5. DOMAIN Append(list, v) = 1..(Len(list) + 1)
  BY <1>1
<1>6. \A i \in DOMAIN list : Append(list, v)[i] = list[i]
  BY <1>1
<1>7. Append(list, v)[Len(list) + 1] = v
  BY <1>1
<1> QED
  BY <1>3, <1>4, <1>5, <1>6, <1>7

\* A call of the setter adds its value at the end.
LEMMA ListedMore ==
    ASSUME NEW calls, NEW op, NEW k \in Nat, NEW list, Listed(list, calls, k, op),
           calls[k + 1].op = op
    PROVE  Listed(Append(list, calls[k + 1].value), calls, k + 1, op)
<1>1. PICK at : Enumerates(at, list, calls, k, op)
  BY DEF Listed
<1> DEFINE longer == Append(list, calls[k + 1].value)
           n == Len(list)
           places == [i \in 1..(n + 1) |-> IF i = n + 1 THEN k + 1 ELSE at[i]]
<1>2. /\ IsSequence(longer) /\ n \in Nat /\ DOMAIN list = 1..n /\ DOMAIN longer = 1..(n + 1)
      /\ \A i \in 1..n : longer[i] = list[i]
      /\ longer[n + 1] = calls[k + 1].value
  BY AppendPlaces DEF Listed
<1> HIDE DEF longer, n
<1>3. \A i \in 1..n : places[i] = at[i] /\ at[i] \in 1..k
  BY <1>1, <1>2 DEF Enumerates
<1>4. places[n + 1] = k + 1 /\ DOMAIN places = 1..(n + 1)
  BY <1>2
<1>5. \A i \in 1..(n + 1) : i \in 1..n \/ i = n + 1
  BY <1>2
<1>6. n + 1 \in 1..(n + 1) /\ 1..n \subseteq 1..(n + 1)
  BY <1>2
<1>7. places \in [1..(n + 1) -> 1..(k + 1)]
  BY <1>3, <1>4, <1>5
<1> HIDE DEF places
<1>8. \A i, j \in 1..(n + 1) : i < j => places[i] < places[j]
  <2> SUFFICES ASSUME NEW i \in 1..(n + 1), NEW j \in 1..(n + 1), i < j
               PROVE  places[i] < places[j]
    OBVIOUS
  <2>1. i \in 1..n
    BY <1>2
  <2>2. CASE j = n + 1
    BY <2>1, <2>2, <1>3, <1>4
  <2>3. CASE j \in 1..n
    BY <2>1, <2>3, <1>1, <1>2, <1>3 DEF Enumerates
  <2> QED
    BY <1>5, <2>2, <2>3
<1>9. \A i \in 1..(n + 1) : calls[places[i]].op = op /\ longer[i] = calls[places[i]].value
  <2>1. \A i \in 1..n : calls[at[i]].op = op /\ list[i] = calls[at[i]].value
    BY <1>1, <1>2 DEF Enumerates
  <2> QED
    BY <2>1, <1>2, <1>3, <1>4, <1>5
<1>10. \A i \in 1..(k + 1) : calls[i].op = op => \E j \in 1..(n + 1) : places[j] = i
  <2>1. \A i \in 1..k : calls[i].op = op => \E j \in 1..n : at[j] = i
    BY <1>1, <1>2 DEF Enumerates
  <2>2. \A i \in 1..(k + 1) : i \in 1..k \/ i = k + 1
    OBVIOUS
  <2> QED
    BY <2>1, <2>2, <1>3, <1>4, <1>6
<1>11. Enumerates(places, longer, calls, k + 1, op)
  BY <1>2, <1>7, <1>8, <1>9, <1>10 DEF Enumerates
<1> QED
  BY <1>2, <1>11 DEF Listed, longer

\* A call of another leaves the list as it is.
LEMMA ListedSame ==
    ASSUME NEW calls, NEW op, NEW k \in Nat, NEW list, Listed(list, calls, k, op),
           calls[k + 1].op # op
    PROVE  Listed(list, calls, k + 1, op)
<1>1. PICK at : Enumerates(at, list, calls, k, op)
  BY DEF Listed
<1>2. \A i \in 1..(k + 1) : i \in 1..k \/ i = k + 1
  OBVIOUS
<1>3. at \in [DOMAIN list -> 1..(k + 1)]
  BY <1>1 DEF Enumerates
<1>4. \A i \in 1..(k + 1) : calls[i].op = op => \E j \in DOMAIN list : at[j] = i
  BY <1>1, <1>2 DEF Enumerates
<1>5. Enumerates(at, list, calls, k + 1, op)
  BY <1>1, <1>3, <1>4 DEF Enumerates
<1> QED
  BY <1>5 DEF Listed

\* EXCEPT changes one value.
LEMMA Replaced ==
    ASSUME NEW D, NEW f, f = [s \in D |-> f[s]], NEW x \in D, NEW y
    PROVE  LET g == [f EXCEPT ![x] = y]
           IN  /\ g = [s \in D |-> g[s]]
               /\ \A s \in D : g[s] = IF s = x THEN y ELSE f[s]
OBVIOUS

\* A record of the three fields is a builder.
LEMMA BuilderOf ==
    ASSUME NEW settings, settings = [s \in DOMAIN Defaults |-> settings[s]],
           NEW headers, NEW hooks, NEW d,
           d = [settings |-> settings, default_headers |-> headers, middleware |-> hooks]
    PROVE  /\ IsBuilder(d) /\ d.settings = settings
           /\ d.default_headers = headers /\ d.middleware = hooks
BY DEF IsBuilder

\* What one setter does to a builder.
LEMMA SetterEffect ==
    ASSUME NEW b, IsBuilder(b), NEW c, c.op \in Setters
    PROVE  LET d == Configured(b, c)
               chosen == CASE c.op = "timeout" -> [Setting(b, "timeouts") EXCEPT
                                                      !.per_request = c.value]
                           [] OTHER -> c.value
           IN  /\ IsBuilder(d)
               /\ \A s \in DOMAIN Defaults :
                     d.settings[s] = IF c.op = s \/ (c.op = "timeout" /\ s = "timeouts")
                                     THEN {chosen} ELSE b.settings[s]
               /\ d.default_headers = IF c.op = "default_headers"
                                      THEN Append(b.default_headers, c.value)
                                      ELSE b.default_headers
               /\ d.middleware = IF c.op = "middleware" THEN Append(b.middleware, c.value)
                                 ELSE b.middleware
<1>0. /\ "timeouts" \in DOMAIN Defaults
      /\ ~ ("timeout" \in DOMAIN Defaults) /\ ~ ("default_headers" \in DOMAIN Defaults)
      /\ ~ ("middleware" \in DOMAIN Defaults)
  BY DEF Defaults
<1> DEFINE B(settings, headers, hooks) ==
              [settings |-> settings, default_headers |-> headers, middleware |-> hooks]
<1>1. CASE c.op = "timeout"
  <2>1. Configured(b, c)
          = B([b.settings EXCEPT !["timeouts"] =
                  {[Setting(b, "timeouts") EXCEPT !.per_request = c.value]}],
              b.default_headers, b.middleware)
    BY <1>1 DEF Configured, IsBuilder
  <2> DEFINE x == "timeouts"
             v == [Setting(b, "timeouts") EXCEPT !.per_request = c.value]
             g == [b.settings EXCEPT ![x] = {v}]
  <2>2. /\ g = [s \in DOMAIN Defaults |-> g[s]]
        /\ \A s \in DOMAIN Defaults : g[s] = IF s = x THEN {v} ELSE b.settings[s]
    BY <1>0, Replaced DEF IsBuilder
  <2> HIDE DEF v, g
  <2>3. /\ IsBuilder(Configured(b, c)) /\ Configured(b, c).settings = g
        /\ Configured(b, c).default_headers = b.default_headers
        /\ Configured(b, c).middleware = b.middleware
    BY <2>1, <2>2, BuilderOf DEF g, v
  <2> HIDE DEF B
  <2> QED
    BY <1>0, <1>1, <2>2, <2>3 DEF v
<1>2. CASE c.op \in Lists
  <2>1. Configured(b, c) = [b EXCEPT ![c.op] = Append(@, c.value)]
    BY <1>2 DEF Configured, Lists
  <2>2. CASE c.op = "default_headers"
    <3>1. Configured(b, c) = B(b.settings, Append(b.default_headers, c.value), b.middleware)
      BY <2>1, <2>2 DEF IsBuilder
    <3> QED
      BY <1>0, <2>2, <3>1 DEF IsBuilder
  <2>3. CASE c.op = "middleware"
    <3>1. Configured(b, c) = B(b.settings, b.default_headers, Append(b.middleware, c.value))
      BY <2>1, <2>3 DEF IsBuilder
    <3> QED
      BY <1>0, <2>3, <3>1 DEF IsBuilder
  <2> QED
    BY <1>2, <2>2, <2>3 DEF Lists
<1>3. CASE c.op \in DOMAIN Defaults
  <2>1. Configured(b, c)
          = B([b.settings EXCEPT ![c.op] = {c.value}], b.default_headers, b.middleware)
    BY <1>0, <1>3 DEF Configured, IsBuilder
  <2> DEFINE g == [b.settings EXCEPT ![c.op] = {c.value}]
  <2>2. /\ g = [s \in DOMAIN Defaults |-> g[s]]
        /\ \A s \in DOMAIN Defaults : g[s] = IF s = c.op THEN {c.value} ELSE b.settings[s]
    BY <1>3, Replaced DEF IsBuilder
  <2> HIDE DEF g
  <2>3. /\ IsBuilder(Configured(b, c)) /\ Configured(b, c).settings = g
        /\ Configured(b, c).default_headers = b.default_headers
        /\ Configured(b, c).middleware = b.middleware
    BY <2>1, <2>2, BuilderOf DEF g
  <2>4. c.op # "timeout" /\ c.op # "default_headers" /\ c.op # "middleware"
    BY <1>0, <1>3
  <2> HIDE DEF B
  <2> QED
    BY <2>2, <2>3, <2>4
<1> QED
  BY <1>1, <1>2, <1>3 DEF Setters, Lists

\* Before the first call.
LEMMA NewBuilderAsTold ==
    ASSUME NEW calls
    PROVE  AsTold(NewBuilder, calls, 0)
<1>1. \A ops : Latest(calls, 0, ops) = 0
  BY LatestStep
<1>2. /\ IsBuilder(NewBuilder) /\ \A s \in DOMAIN Defaults : NewBuilder.settings[s] = {}
      /\ NewBuilder.default_headers = << >> /\ NewBuilder.middleware = << >>
  BY DEF NewBuilder, IsBuilder
<1>3. "timeouts" \in DOMAIN Defaults /\ Defaults["timeouts"] = DefaultTimeouts
  BY DEF Defaults
<1>4. Setting(NewBuilder, "timeouts") = DefaultTimeouts
  BY <1>2, <1>3 DEF Setting
<1>5. TimedAsTold(DefaultTimeouts, calls, 0)
  <2>1. DefaultTimeouts = [x \in DOMAIN DefaultTimeouts |-> DefaultTimeouts[x]]
    BY DEF DefaultTimeouts
  <2> QED
    BY <1>1, <2>1 DEF TimedAsTold
<1>6. \A s \in DOMAIN Defaults : Told(calls, 0, s) = {}
  BY <1>1 DEF Told
<1> QED
  BY <1>2, <1>4, <1>5, <1>6, ListedNone DEF AsTold

\* The timeouts after one more call: `timeout` changes one of them, `timeouts` all.
LEMMA TimedStep ==
    ASSUME NEW calls, NEW k \in Nat, NEW t, TimedAsTold(t, calls, k), NEW u,
           LET c == calls[k + 1]
           IN  /\ c.op = "timeouts" => c.value \in [DOMAIN DefaultTimeouts -> Nat]
               /\ u = CASE c.op = "timeout" -> [t EXCEPT !.per_request = c.value]
                        [] c.op = "timeouts" -> c.value
                        [] OTHER -> t
    PROVE  TimedAsTold(u, calls, k + 1)
<1> DEFINE c == calls[k + 1]
           D == DOMAIN DefaultTimeouts
<1>1. \A ops : Latest(calls, k + 1, ops) = IF c.op \in ops THEN k + 1 ELSE Latest(calls, k, ops)
  BY LatestStep
<1>2. k + 1 # 0 /\ "per_request" \in D
  BY DEF DefaultTimeouts
<1>3. t = [x \in D |-> t[x]]
  BY DEF TimedAsTold
<1>4. CASE c.op = "timeout"
  <2>1. u = [t EXCEPT !.per_request = c.value]
    BY <1>4
  <2>2. /\ u = [x \in D |-> u[x]] /\ u.per_request = c.value
        /\ \A x \in D \ {"per_request"} : u[x] = t[x]
    BY <1>2, <1>3, <2>1
  <2>3. /\ Latest(calls, k + 1, {"timeouts"}) = Latest(calls, k, {"timeouts"})
        /\ Latest(calls, k + 1, {"timeout", "timeouts"}) = k + 1
    BY <1>1, <1>4
  <2> QED
    BY <1>2, <1>4, <2>2, <2>3 DEF TimedAsTold
<1>5. CASE c.op = "timeouts"
  <2>1. u = c.value /\ u = [x \in D |-> u[x]]
    BY <1>5
  <2>2. /\ Latest(calls, k + 1, {"timeouts"}) = k + 1
        /\ Latest(calls, k + 1, {"timeout", "timeouts"}) = k + 1
    BY <1>1, <1>5
  <2> QED
    BY <1>2, <1>5, <2>1, <2>2 DEF TimedAsTold
<1>6. CASE c.op # "timeout" /\ c.op # "timeouts"
  <2>1. u = t
    BY <1>6
  <2>2. /\ Latest(calls, k + 1, {"timeouts"}) = Latest(calls, k, {"timeouts"})
        /\ Latest(calls, k + 1, {"timeout", "timeouts"})
             = Latest(calls, k, {"timeout", "timeouts"})
    BY <1>1, <1>6
  <2> QED
    BY <2>1, <2>2 DEF TimedAsTold
<1> QED
  BY <1>4, <1>5, <1>6

\* One setter keeps a builder what its calls said.
LEMMA SetterAsTold ==
    ASSUME NEW calls, NEW k \in Nat, NEW b, AsTold(b, calls, k), calls[k + 1].op \in Setters,
           calls[k + 1].op = "timeouts" => calls[k + 1].value \in [DOMAIN DefaultTimeouts -> Nat]
    PROVE  AsTold(Configured(b, calls[k + 1]), calls, k + 1)
<1> DEFINE c == calls[k + 1]
           d == Configured(b, c)
           t == Setting(b, "timeouts")
           chosen == IF c.op = "timeout" THEN [t EXCEPT !.per_request = c.value] ELSE c.value
<1>0. /\ "timeouts" \in DOMAIN Defaults
      /\ ~ ("timeout" \in DOMAIN Defaults) /\ ~ ("default_headers" \in DOMAIN Defaults)
      /\ ~ ("middleware" \in DOMAIN Defaults)
  BY DEF Defaults
<1>1. IsBuilder(b)
  BY DEF AsTold
<1>2. /\ IsBuilder(d)
      /\ \A s \in DOMAIN Defaults :
            d.settings[s] = IF c.op = s \/ (c.op = "timeout" /\ s = "timeouts")
                            THEN {chosen} ELSE b.settings[s]
      /\ d.default_headers = IF c.op = "default_headers" THEN Append(b.default_headers, c.value)
                             ELSE b.default_headers
      /\ d.middleware = IF c.op = "middleware" THEN Append(b.middleware, c.value)
                        ELSE b.middleware
  BY <1>1, SetterEffect
<1>3. \A ops : Latest(calls, k + 1, ops) = IF c.op \in ops THEN k + 1 ELSE Latest(calls, k, ops)
  BY LatestStep
<1>4. ASSUME NEW s \in DOMAIN Defaults \ {"timeouts"}
      PROVE  d.settings[s] = Told(calls, k + 1, s)
  <2>1. b.settings[s] = Told(calls, k, s)
    BY DEF AsTold
  <2>2. d.settings[s] = IF c.op = s THEN {c.value} ELSE b.settings[s]
    BY <1>0, <1>2
  <2>3. Latest(calls, k + 1, {s}) = IF c.op = s THEN k + 1 ELSE Latest(calls, k, {s})
    BY <1>3
  <2>4. k + 1 # 0
    OBVIOUS
  <2> HIDE DEF d
  <2> QED
    BY <2>1, <2>2, <2>3, <2>4 DEF Told
<1>5. TimedAsTold(Setting(d, "timeouts"), calls, k + 1)
  <2>1. d.settings["timeouts"] = IF c.op = "timeouts" \/ c.op = "timeout" THEN {chosen}
                                 ELSE b.settings["timeouts"]
    BY <1>0, <1>2
  <2> HIDE DEF d
  <2>2. c.op = "timeouts" \/ c.op = "timeout" => Setting(d, "timeouts") = chosen
    BY <2>1 DEF Setting
  <2>3. ~ (c.op = "timeouts" \/ c.op = "timeout") => Setting(d, "timeouts") = t
    <3> SUFFICES ASSUME ~ (c.op = "timeouts" \/ c.op = "timeout")
                 PROVE  Setting(d, "timeouts") = t
      OBVIOUS
    <3>1. d.settings["timeouts"] = b.settings["timeouts"]
      BY <2>1
    <3>2. /\ Setting(d, "timeouts") = IF d.settings["timeouts"] = {} THEN Defaults["timeouts"]
                                      ELSE CHOOSE v \in d.settings["timeouts"] : TRUE
          /\ t = IF b.settings["timeouts"] = {} THEN Defaults["timeouts"]
                 ELSE CHOOSE v \in b.settings["timeouts"] : TRUE
      BY Zenon DEF Setting
    <3> HIDE DEF t
    <3> QED
      BY <3>1, <3>2
  <2>4. Setting(d, "timeouts") = CASE c.op = "timeout" -> [t EXCEPT !.per_request = c.value]
                                   [] c.op = "timeouts" -> c.value
                                   [] OTHER -> t
    <3> DEFINE u == Setting(d, "timeouts")
    <3> HIDE DEF u, t
    <3> QED
      BY <2>2, <2>3 DEF u, t
  <2>5. TimedAsTold(t, calls, k)
    BY DEF AsTold
  <2> HIDE DEF t
  <2> QED
    BY <2>4, <2>5, TimedStep
<1>6. Listed(d.default_headers, calls, k + 1, "default_headers")
  <2>1. Listed(b.default_headers, calls, k, "default_headers")
    BY DEF AsTold
  <2> QED
    BY <1>2, <2>1, ListedMore, ListedSame
<1>7. Listed(d.middleware, calls, k + 1, "middleware")
  <2>1. Listed(b.middleware, calls, k, "middleware")
    BY DEF AsTold
  <2> QED
    BY <1>2, <2>1, ListedMore, ListedSame
<1> HIDE DEF d
<1>8. AsTold(d, calls, k + 1)
  BY <1>2, <1>4, <1>5, <1>6, <1>7 DEF AsTold
<1> QED
  BY <1>8 DEF d

\* Whatever the calls, the builder they make is what they said.
LEMMA BuilderAsTold ==
    ASSUME NEW calls, SetterCalls(calls)
    PROVE  AsTold(FoldLeft(Configured, NewBuilder, calls), calls, Len(calls))
<1> DEFINE n == Len(calls)
<1>1. n \in Nat /\ DOMAIN calls = 1..n
  BY DEF SetterCalls, IsList
<1>2. PICK built : /\ BuiltBy(built, calls)
                   /\ FoldLeft(Configured, NewBuilder, calls) = built[n]
  BY FoldEffect DEF SetterCalls
<1> DEFINE good == {k \in Nat : k <= n => AsTold(built[k], calls, k)}
<1>3. 0 \in good
  BY <1>2, NewBuilderAsTold DEF BuiltBy
<1>4. ASSUME NEW k \in good PROVE k + 1 \in good
  <2> SUFFICES ASSUME k + 1 <= n PROVE AsTold(built[k + 1], calls, k + 1)
    BY <1>4
  <2>1. k \in Nat /\ k \in 0..(n - 1) /\ k + 1 \in 1..n
    <3>1. k \in Nat
      BY <1>4
    <3> QED
      BY <1>1, <3>1
  <2>2. AsTold(built[k], calls, k)
    BY <1>1, <1>4, <2>1
  <2>3. built[k + 1] = Configured(built[k], calls[k + 1])
    BY <1>2, <2>1, Zenon DEF BuiltBy
  <2>4. /\ calls[k + 1].op \in Setters
        /\ calls[k + 1].op = "timeouts"
             => calls[k + 1].value \in [DOMAIN DefaultTimeouts -> Nat]
    BY <1>1, <2>1 DEF SetterCalls
  <2> QED
    BY <2>1, <2>2, <2>3, <2>4, SetterAsTold, Zenon
<1>5. good = Nat
  <2>1. good \in SUBSET Nat
    OBVIOUS
  <2> HIDE DEF good
  <2> QED
    BY <1>3, <1>4, <2>1, SetInduction
<1>6. AsTold(built[n], calls, n)
  <2>1. n <= n
    BY <1>1
  <2> QED
    BY <1>1, <1>5, <2>1
<1> QED
  BY <1>2, <1>6

-----------------------------------------------------------------------------
(* What the client is built with.                                           *)

\* The last call that told, by its position.
LEMMA LastToldIs ==
    ASSUME NEW calls, IsList(calls), NEW ops
    PROVE  LET i == Latest(calls, Len(calls), ops)
           IN  LastTold(calls, ops) = IF i = 0 THEN {} ELSE {calls[i]}
<1>1. Len(calls) \in Nat /\ DOMAIN calls = 1..Len(calls)
  BY DEF IsList
<1>2. Latest(calls, Len(calls), ops) = 0
        <=> {i \in 1..Len(calls) : calls[i].op \in ops} = {}
  <2> DEFINE told == {i \in 1..Len(calls) : calls[i].op \in ops}
  <2>1. Latest(calls, Len(calls), ops) = IF told = {} THEN 0 ELSE Max(told)
    BY DEF Latest
  <2>2. told # {} => Max(told) \in told
    <3>1. told \in SUBSET (1..Len(calls))
      OBVIOUS
    <3> HIDE DEF told
    <3> QED
      BY <1>1, <3>1, MaxExists
  <2>3. ~ (0 \in told)
    BY <1>1
  <2> HIDE DEF told
  <2>4. Latest(calls, Len(calls), ops) = 0 <=> told = {}
    BY <2>1, <2>2, <2>3
  <2> QED
    BY <2>4 DEF told
<1> QED
  BY <1>1, <1>2, Zenon DEF LastTold, Latest

\* What the last call of a setter said, by its position.
LEMMA ToldIs ==
    ASSUME NEW calls, IsList(calls), NEW s
    PROVE  LET i == Latest(calls, Len(calls), {s})
           IN  ToldLast(calls, s) = IF i = 0 THEN Defaults[s] ELSE calls[i].value
<1> DEFINE i == Latest(calls, Len(calls), {s})
<1>1. LastTold(calls, {s}) = IF i = 0 THEN {} ELSE {calls[i]}
  BY LastToldIs
<1> HIDE DEF i
<1>2. ToldLast(calls, s) = IF i = 0 THEN Defaults[s] ELSE calls[i].value
  BY <1>1 DEF ToldLast
<1> QED
  BY <1>2 DEF i

\* The headers a client sends, from those its builder lists.
LEMMA HeadersAsTold ==
    ASSUME NEW calls, IsList(calls), NEW list,
           Listed(list, calls, Len(calls), "default_headers")
    PROVE  HeadersTold(HeadersSent(list), calls)
<1> DEFINE sent == {i \in DOMAIN calls : calls[i].op = "default_headers" /\ calls[i].value.valid}
           headers == HeadersSent(list)
           good == {i \in DOMAIN list : list[i].valid}
<1>1. PICK at : Enumerates(at, list, calls, Len(calls), "default_headers")
  BY DEF Listed
<1>2. /\ Len(calls) \in Nat /\ DOMAIN calls = 1..Len(calls)
      /\ Len(list) \in Nat /\ DOMAIN list = 1..Len(list)
  BY AppendPlaces DEF IsList, Listed
<1>3. \A i \in good : at[i] \in sent /\ list[i] = calls[at[i]].value
  BY <1>1, <1>2 DEF Enumerates
<1>4. \A i \in sent : \E j \in good : at[j] = i
  <2> SUFFICES ASSUME NEW i \in sent PROVE \E j \in good : at[j] = i
    OBVIOUS
  <2>1. PICK j \in DOMAIN list : at[j] = i
    BY <1>1, <1>2 DEF Enumerates
  <2>2. list[j] = calls[i].value
    BY <1>1, <2>1 DEF Enumerates
  <2> QED
    BY <2>1, <2>2
<1>5. /\ DOMAIN headers = {list[i].name : i \in good}
      /\ \A n \in {list[i].name : i \in good} :
            headers[n] = list[Max({i \in good : list[i].name = n})].value
  BY DEF HeadersSent
<1>6. good \subseteq 1..Len(list) /\ sent \subseteq 1..Len(calls)
  BY <1>2
<1>7. \A i, j \in good : i < j => at[i] < at[j]
  BY <1>1 DEF Enumerates
<1> HIDE DEF headers, good, sent
<1>8. {list[i].name : i \in good} = {calls[i].value.name : i \in sent}
  <2>1. \A i \in good : list[i].name \in {calls[j].value.name : j \in sent}
    BY <1>3
  <2>2. \A i \in sent : calls[i].value.name \in {list[j].name : j \in good}
    <3> SUFFICES ASSUME NEW i \in sent
                 PROVE  calls[i].value.name \in {list[j].name : j \in good}
      OBVIOUS
    <3>1. PICK j \in good : at[j] = i
      BY <1>4
    <3>2. calls[i].value.name = list[j].name
      BY <1>3, <3>1
    <3> QED
      BY <3>2
  <2> QED
    BY <2>1, <2>2
<1>9. ASSUME NEW n \in {list[i].name : i \in good}
      PROVE  headers[n] = calls[Max({i \in sent : calls[i].value.name = n})].value.value
  <2> DEFINE listed == {i \in good : list[i].name = n}
             told == {i \in sent : calls[i].value.name = n}
             m == Max(listed)
  <2>1. m \in listed /\ \A i \in listed : i <= m
    <3>1. listed \in SUBSET (1..Len(list)) /\ listed # {}
      BY <1>6
    <3> HIDE DEF listed
    <3> QED
      BY <1>2, <3>1, MaxExists
  <2> HIDE DEF m
  <2>2. at[m] \in told
    BY <1>3, <2>1
  <2>3. \A i \in told : i \in Int /\ i <= at[m]
    <3> SUFFICES ASSUME NEW i \in told PROVE i \in Int /\ i <= at[m]
      OBVIOUS
    <3>1. PICK j \in good : at[j] = i
      BY <1>4
    <3>2. j \in listed
      BY <1>3, <3>1
    <3>3. j <= m /\ j \in Nat /\ m \in Nat /\ m \in good
      <4>1. m \in good /\ j <= m
        BY <2>1, <3>2
      <4>2. \A x \in good : x \in Nat
        BY <1>2, <1>6
      <4> QED
        BY <3>1, <4>1, <4>2
    <3>4. j = m \/ j < m
      BY <3>3
    <3>5. j < m => at[j] < at[m]
      BY <1>7, <3>3
    <3>6. i \in Int /\ at[m] \in Int
      <4>1. \A x \in sent : x \in Int
        BY <1>2, <1>6
      <4> QED
        BY <2>2, <4>1
    <3> QED
      BY <3>1, <3>4, <3>5, <3>6
  <2>4. Max(told) = at[m]
    <3>1. at[m] \in Int
      BY <2>2, <2>3
    <3> HIDE DEF told
    <3> QED
      BY <2>2, <2>3, <3>1, MaxIs, Zenon
  <2>5. headers[n] = list[m].value
    BY <1>5 DEF m
  <2>6. list[m] = calls[at[m]].value
    BY <1>3, <2>1
  <2> QED
    BY <2>4, <2>5, <2>6
<1>10. /\ DOMAIN headers = {calls[i].value.name : i \in sent}
       /\ \A n \in DOMAIN headers :
             headers[n] = calls[Max({i \in sent : calls[i].value.name = n})].value.value
  BY <1>5, <1>8, <1>9
<1> QED
  BY <1>10, Zenon DEF HeadersTold, headers, sent

\* The middleware of a client, in the order it was added.
LEMMA MiddlewareAsTold ==
    ASSUME NEW calls, IsList(calls), NEW list, Listed(list, calls, Len(calls), "middleware")
    PROVE  AddedInOrder(list, calls)
<1> DEFINE added == {i \in DOMAIN calls : calls[i].op = "middleware"}
<1>1. PICK at : Enumerates(at, list, calls, Len(calls), "middleware")
  BY DEF Listed
<1>2. DOMAIN calls = 1..Len(calls)
  BY DEF IsList
<1>3. at \in [DOMAIN list -> added]
  BY <1>1, <1>2 DEF Enumerates
<1>4. added = Range(at)
  <2>1. \A i \in added : \E j \in DOMAIN at : at[j] = i
    BY <1>1, <1>2 DEF Enumerates
  <2>2. \A j \in DOMAIN at : at[j] \in added
    BY <1>3
  <2> HIDE DEF added
  <2> QED
    BY <2>1, <2>2 DEF Range
<1>5. /\ \A i, j \in DOMAIN at : i < j => at[i] < at[j]
      /\ \A i \in DOMAIN at : list[i] = calls[at[i]].value
  BY <1>1 DEF Enumerates
<1> HIDE DEF added
<1>6. \E a \in [DOMAIN list -> added] :
         /\ added = Range(a)
         /\ \A i, j \in DOMAIN a : i < j => a[i] < a[j]
         /\ \A i \in DOMAIN a : list[i] = calls[a[i]].value
  BY <1>3, <1>4, <1>5
<1> QED
  BY <1>6, Zenon DEF AddedInOrder, added

\* A limit is what was said or its floor, whichever is more.
LEMMA LimitsClamped ==
    ASSUME NEW limits \in [DOMAIN DefaultLimits -> Nat], NEW l \in DOMAIN Floors
    PROVE  LET c == ClampAll(limits)[l]
           IN  c >= Floors[l] /\ c \in {Floors[l], limits[l]} /\ c >= limits[l]
<1>1. Floors[l] \in Nat /\ l \in DOMAIN DefaultLimits
  BY DEF Floors, DefaultLimits
<1>2. ClampAll(limits)[l] = IF limits[l] < Floors[l] THEN Floors[l] ELSE limits[l]
  BY DEF ClampAll, Clamp
<1>3. limits[l] \in Nat
  BY <1>1
<1> QED
  BY <1>1, <1>2, <1>3

\* What was said last, or the default, is of its kind.
LEMMA ToldProperly ==
    ASSUME NEW calls, ClientCalls(calls)
    PROVE  /\ ToldLast(calls, "resource_limits") \in [DOMAIN DefaultLimits -> Nat]
           /\ WebUrls(ToldLast(calls, "trust_policy"))
<1> DEFINE i(s) == Latest(calls, Len(calls), {s})
<1>1. Len(calls) \in Nat /\ DOMAIN calls = 1..Len(calls) /\ IsList(calls)
  BY DEF ClientCalls, SetterCalls, IsList
<1>2. \A s : ToldLast(calls, s) = IF i(s) = 0 THEN Defaults[s] ELSE calls[i(s)].value
  BY <1>1, ToldIs
<1>3. \A s : i(s) = 0 \/ (i(s) \in DOMAIN calls /\ calls[i(s)].op = s)
  <2> TAKE s
  <2> DEFINE j == Latest(calls, Len(calls), {s})
  <2>1. j = 0 \/ (j \in 1..Len(calls) /\ calls[j].op \in {s})
    BY <1>1, LatestIs
  <2> HIDE DEF j
  <2>2. j = 0 \/ (j \in DOMAIN calls /\ calls[j].op = s)
    BY <1>1, <2>1
  <2> QED
    BY <2>2 DEF j
<1>4. /\ Defaults["resource_limits"] \in [DOMAIN DefaultLimits -> Nat]
      /\ WebUrls(Defaults["trust_policy"])
  <2>1. Defaults["resource_limits"] = DefaultLimits /\ Defaults["trust_policy"] = << >>
    BY DEF Defaults, DenyAll
  <2>2. DefaultLimits \in [DOMAIN DefaultLimits -> Nat]
    BY DEF DefaultLimits
  <2>3. WebUrls(<< >>)
    BY DEF WebUrls
  <2> QED
    BY <2>1, <2>2, <2>3
<1> HIDE DEF i
<1>5. \A j \in DOMAIN calls :
         /\ calls[j].op = "resource_limits" => calls[j].value \in [DOMAIN DefaultLimits -> Nat]
         /\ calls[j].op = "trust_policy" => WebUrls(calls[j].value)
  BY DEF ClientCalls
<1>6. ToldLast(calls, "resource_limits") \in [DOMAIN DefaultLimits -> Nat]
  BY <1>2, <1>3, <1>4, <1>5
<1>7. WebUrls(ToldLast(calls, "trust_policy"))
  BY <1>2, <1>3, <1>4, <1>5
<1> QED
  BY <1>6, <1>7

\* The settings of a client.
LEMMA SettingsAsTold ==
    ASSUME NEW calls, ClientCalls(calls)
    PROVE  LET settings == Client(calls).settings
               limits == ToldLast(calls, "resource_limits")
           IN  /\ \A s \in DOMAIN Defaults \ {"timeouts", "resource_limits"} :
                     settings[s] = ToldLast(calls, s)
               /\ \A t \in DOMAIN DefaultTimeouts \ {"per_request"} :
                     settings.timeouts[t] = ToldLast(calls, "timeouts")[t]
               /\ \A c \in LastTold(calls, {"timeout", "timeouts"}) :
                     settings.timeouts.per_request =
                        IF c.op = "timeout" THEN c.value ELSE c.value.per_request
               /\ settings.resource_limits = ClampAll(limits)
<1> DEFINE n == Len(calls)
           b == FoldLeft(Configured, NewBuilder, calls)
           settings == Client(calls).settings
<1>1. n \in Nat /\ DOMAIN calls = 1..n /\ IsList(calls)
  BY DEF ClientCalls, SetterCalls, IsList
<1>2. AsTold(b, calls, n)
  BY BuilderAsTold DEF ClientCalls
<1>3. settings = [s \in DOMAIN Defaults |->
          IF s = "resource_limits" THEN ClampAll(Setting(b, s)) ELSE Setting(b, s)]
  <2> HIDE DEF b
  <2>1. settings = BuildClient(b).settings
    BY Zenon DEF Client, b
  <2> QED
    BY <2>1 DEF BuildClient
<1> HIDE DEF b, settings
<1>4. "timeouts" \in DOMAIN Defaults /\ "resource_limits" \in DOMAIN Defaults
  BY DEF Defaults
<1>5. ASSUME NEW s \in DOMAIN Defaults \ {"timeouts"}
      PROVE  Setting(b, s) = ToldLast(calls, s)
  <2> DEFINE i == Latest(calls, n, {s})
  <2>1. ToldLast(calls, s) = IF i = 0 THEN Defaults[s] ELSE calls[i].value
    BY <1>1, ToldIs
  <2>2. b.settings[s] = IF i = 0 THEN {} ELSE {calls[i].value}
    BY <1>2 DEF AsTold, Told
  <2> HIDE DEF i
  <2> QED
    BY <2>1, <2>2 DEF Setting
<1>6. /\ settings["timeouts"] = Setting(b, "timeouts")
      /\ settings["resource_limits"] = ClampAll(Setting(b, "resource_limits"))
      /\ \A s \in DOMAIN Defaults \ {"timeouts", "resource_limits"} :
            settings[s] = Setting(b, s)
  BY <1>3, <1>4
<1>7. TimedAsTold(settings["timeouts"], calls, n)
  BY <1>2, <1>6 DEF AsTold
<1>8. \A t \in DOMAIN DefaultTimeouts \ {"per_request"} :
         settings.timeouts[t] = ToldLast(calls, "timeouts")[t]
  <2> DEFINE all == Latest(calls, n, {"timeouts"})
  <2>1. ToldLast(calls, "timeouts")
          = IF all = 0 THEN Defaults["timeouts"] ELSE calls[all].value
    BY <1>1, ToldIs
  <2>2. Defaults["timeouts"] = DefaultTimeouts
    BY DEF Defaults
  <2>3. \A t \in DOMAIN DefaultTimeouts \ {"per_request"} :
           settings.timeouts[t] = IF all = 0 THEN DefaultTimeouts[t] ELSE calls[all].value[t]
    BY <1>7 DEF TimedAsTold
  <2> HIDE DEF all
  <2> QED
    BY <2>1, <2>2, <2>3
<1>9. \A c \in LastTold(calls, {"timeout", "timeouts"}) :
         settings.timeouts.per_request =
            IF c.op = "timeout" THEN c.value ELSE c.value.per_request
  <2> DEFINE any == Latest(calls, n, {"timeout", "timeouts"})
  <2>1. LastTold(calls, {"timeout", "timeouts"}) = IF any = 0 THEN {} ELSE {calls[any]}
    BY <1>1, LastToldIs
  <2>2. settings.timeouts.per_request =
          IF any = 0 THEN DefaultTimeouts.per_request
          ELSE IF calls[any].op = "timeout" THEN calls[any].value
          ELSE calls[any].value.per_request
    BY <1>7 DEF TimedAsTold
  <2> HIDE DEF any
  <2> QED
    BY <2>1, <2>2
<1>10. settings.resource_limits = ClampAll(ToldLast(calls, "resource_limits"))
  BY <1>4, <1>5, <1>6
<1>11. \A s \in DOMAIN Defaults \ {"timeouts", "resource_limits"} :
          settings[s] = ToldLast(calls, s)
  BY <1>5, <1>6
<1> QED
  BY <1>8, <1>9, <1>10, <1>11 DEF settings

\* The headers and the middleware of a client.
LEMMA ClientListsAsTold ==
    ASSUME NEW calls, ClientCalls(calls)
    PROVE  /\ HeadersTold(Client(calls).headers, calls)
           /\ AddedInOrder(Client(calls).middleware, calls)
<1> DEFINE b == FoldLeft(Configured, NewBuilder, calls)
<1>1. IsList(calls) /\ AsTold(b, calls, Len(calls))
  BY BuilderAsTold DEF ClientCalls, SetterCalls
<1>2. Client(calls).headers = HeadersSent(b.default_headers) /\ Client(calls).middleware = b.middleware
  <2> HIDE DEF b
  <2>1. Client(calls) = BuildClient(b)
    BY Zenon DEF Client, b
  <2> QED
    BY <2>1 DEF BuildClient
<1> HIDE DEF b
<1>3. /\ Listed(b.default_headers, calls, Len(calls), "default_headers")
      /\ Listed(b.middleware, calls, Len(calls), "middleware")
  BY <1>1 DEF AsTold
<1> QED
  BY <1>1, <1>2, <1>3, HeadersAsTold, MiddlewareAsTold

\* The calls of the specification are such calls.
LEMMA CallsOfClients ==
    ASSUME call \in Calls, call.kind = "client"
    PROVE  ClientCalls(call.calls) /\ call.origin \in Origin /\ NamesOnePort(call.origin)
<1>1. /\ IsList(call.calls) /\ call.origin \in Origin /\ NamesOnePort(call.origin)
      /\ \A i \in DOMAIN call.calls :
            LET told == call.calls[i]
            IN  /\ told.op \in Setters
                /\ told.op = "timeouts" => told.value \in [DOMAIN DefaultTimeouts -> Nat]
                /\ told.op = "resource_limits" => told.value \in [DOMAIN DefaultLimits -> Nat]
                /\ told.op = "trust_policy" => WebUrls(told.value)
  BY ClientAssumption DEF Setters, Lists, WebUrls
<1> QED
  BY <1>1 DEF ClientCalls, SetterCalls

\* Whatever calls built it: every setting of a client is what the last call of its setter
\* said or the default, the request timeout that of the last of its two setters, the limits
\* at least their floors; its headers are the last well formed ones of their names, its
\* middleware all that was added, in order; and its policy trusts what it lists.
THEOREM ClientAsTold == Spec => []BuiltAsToldLast
<1>1. Answered => BuiltAsToldLast
  <2> SUFFICES ASSUME Answered, Returned("client") PROVE BuiltAsToldLast
    BY DEF BuiltAsToldLast
  <2> DEFINE calls == call.calls
             client == Client(calls)
             limits == ToldLast(calls, "resource_limits")
             policy == ToldLast(calls, "trust_policy")
  <2>1. call \in Calls /\ call.kind = "client"
    BY DEF Answered, Returned
  <2>2. result = [client |-> client,
                  trusted |-> TrustEvaluate(client.settings.trust_policy, call.origin)]
    BY DEF Answered
  <2>3. ClientCalls(calls) /\ call.origin \in Origin /\ NamesOnePort(call.origin)
    BY <2>1, CallsOfClients
  <2> HIDE DEF calls
  <2>4. /\ \A s \in DOMAIN Defaults \ {"timeouts", "resource_limits"} :
              client.settings[s] = ToldLast(calls, s)
        /\ \A t \in DOMAIN DefaultTimeouts \ {"per_request"} :
              client.settings.timeouts[t] = ToldLast(calls, "timeouts")[t]
        /\ \A c \in LastTold(calls, {"timeout", "timeouts"}) :
              client.settings.timeouts.per_request =
                 IF c.op = "timeout" THEN c.value ELSE c.value.per_request
        /\ client.settings.resource_limits = ClampAll(limits)
    BY <2>3, SettingsAsTold
  <2>5. HeadersTold(client.headers, calls) /\ AddedInOrder(client.middleware, calls)
    BY <2>3, ClientListsAsTold
  <2>6. limits \in [DOMAIN DefaultLimits -> Nat] /\ WebUrls(policy)
    BY <2>3, ToldProperly
  <2> HIDE DEF limits, policy, client
  <2>7. \A l \in DOMAIN Floors :
           /\ client.settings.resource_limits[l] >= Floors[l]
           /\ client.settings.resource_limits[l] \in {Floors[l], limits[l]}
           /\ client.settings.resource_limits[l] >= limits[l]
    BY <2>4, <2>6, LimitsClamped
  <2>8. TrustEvaluate(client.settings.trust_policy, call.origin)
          <=> ListsOrigin(policy, call.origin)
    <3>1. client.settings["trust_policy"] = policy
      <4>1. "trust_policy" \in DOMAIN Defaults \ {"timeouts", "resource_limits"}
        BY DEF Defaults
      <4> QED
        BY <2>4, <4>1 DEF policy
    <3>2. TrustEvaluate(policy, call.origin) <=> ListsOrigin(policy, call.origin)
      BY <2>3, <2>6, TrustIsListed
    <3> QED
      BY <3>1, <3>2
  <2>9. /\ result.client = client
        /\ result.trusted <=> ListsOrigin(policy, call.origin)
    BY <2>2, <2>8
  <2>10. \A l \in DOMAIN Floors :
            /\ result.client.settings.resource_limits[l] >= Floors[l]
            /\ result.client.settings.resource_limits[l] \in {Floors[l], limits[l]}
            /\ result.client.settings.resource_limits[l] >= limits[l]
    BY <2>7, <2>9
  <2> QED
    BY <2>4, <2>5, <2>9, <2>10 DEF BuiltAsToldLast, calls, limits, policy
<1> QED
  BY <1>1, AnsweredAlways, PTL
-----------------------------------------------------------------------------
(* A pattern matches what can be cut for its tokens.                        *)

\* When no token is left, neither may any of the input be.
LEMMA NoTokenLeft ==
    ASSUME NEW tokens, NEW input, Len(tokens) \in Nat, Len(input) \in Nat,
           NEW ii \in 0..Len(input)
    PROVE  Cuts(tokens, input, Len(tokens), ii) <=> ii = Len(input)
<1> DEFINE n == Len(tokens)
           k == Len(input)
<1> HIDE DEF n, k
<1>1. n \in Nat /\ k \in Nat /\ ii \in 0..k
  BY DEF n, k
<1>2. ASSUME Cuts(tokens, input, n, ii) PROVE ii = k
  BY <1>2 DEF Cuts, n, k
<1>3. ASSUME ii = k PROVE Cuts(tokens, input, n, ii)
  <2> DEFINE at == [i \in n..n |-> k]
  <2>1. at \in [n..n -> 0..k] /\ at[n] = k
    BY <1>1
  <2>2. (n + 1)..n = {}
    BY <1>1
  <2> HIDE DEF at
  <2> QED
    BY <1>3, <2>1, <2>2 DEF Cuts, n, k
<1> QED
  BY <1>2, <1>3 DEF n, k

\* The next token takes a segment, the others the rest.
LEMMA NextToken ==
    ASSUME NEW tokens, NEW input, Len(tokens) \in Nat, Len(input) \in Nat,
           NEW ti \in 0..(Len(tokens) - 1), NEW ii \in 0..Len(input)
    PROVE  Cuts(tokens, input, ti, ii)
             <=> \E j \in 0..Len(input) :
                    Piece(tokens, input, ti + 1, ii, j) /\ Cuts(tokens, input, ti + 1, j)
<1> DEFINE n == Len(tokens)
           k == Len(input)
<1>1. n \in Nat /\ k \in Nat /\ ii \in 0..k /\ ti \in Nat /\ ti + 1 <= n
  OBVIOUS
<1> HIDE DEF n, k
<1>2. ASSUME Cuts(tokens, input, ti, ii)
      PROVE  \E j \in 0..k : Piece(tokens, input, ti + 1, ii, j) /\ Cuts(tokens, input, ti + 1, j)
  <2>1. PICK at \in [ti..n -> 0..k] :
           /\ at[ti] = ii /\ at[n] = k
           /\ \A i \in (ti + 1)..n : Piece(tokens, input, i, at[i - 1], at[i])
    BY <1>2 DEF Cuts, n, k
  <2> DEFINE rest == [i \in (ti + 1)..n |-> at[i]]
             j == at[ti + 1]
  <2>2. ti + 1 \in ti..n /\ (ti + 1)..n \subseteq ti..n /\ (ti + 1) - 1 = ti
    BY <1>1
  <2>3. j \in 0..k /\ rest \in [(ti + 1)..n -> 0..k] /\ rest[ti + 1] = j /\ rest[n] = k
    BY <1>1, <2>1, <2>2
  <2>4. Piece(tokens, input, ti + 1, ii, j)
    <3>1. ti + 1 \in (ti + 1)..n
      BY <1>1
    <3> QED
      BY <2>1, <2>2, <3>1
  <2>5. \A i \in ((ti + 1) + 1)..n : Piece(tokens, input, i, rest[i - 1], rest[i])
    <3> SUFFICES ASSUME NEW i \in ((ti + 1) + 1)..n
                 PROVE  Piece(tokens, input, i, rest[i - 1], rest[i])
      OBVIOUS
    <3>1. i \in (ti + 1)..n /\ i - 1 \in (ti + 1)..n
      BY <1>1
    <3>2. rest[i] = at[i] /\ rest[i - 1] = at[i - 1]
      BY <3>1
    <3> QED
      BY <2>1, <3>1, <3>2
  <2> HIDE DEF rest, j
  <2>6. Cuts(tokens, input, ti + 1, j)
    BY <2>3, <2>5 DEF Cuts, n, k
  <2> QED
    BY <2>3, <2>4, <2>6
<1>3. ASSUME NEW j \in 0..k, Piece(tokens, input, ti + 1, ii, j), Cuts(tokens, input, ti + 1, j)
      PROVE  Cuts(tokens, input, ti, ii)
  <2>1. PICK at \in [(ti + 1)..n -> 0..k] :
           /\ at[ti + 1] = j /\ at[n] = k
           /\ \A i \in ((ti + 1) + 1)..n : Piece(tokens, input, i, at[i - 1], at[i])
    BY <1>3 DEF Cuts, n, k
  <2> DEFINE all == [i \in ti..n |-> IF i = ti THEN ii ELSE at[i]]
  <2>2. \A i \in ti..n : i = ti \/ i \in (ti + 1)..n
    BY <1>1
  <2>3. ti \in ti..n /\ n \in ti..n /\ n # ti /\ (ti + 1)..n \subseteq ti..n
        /\ ~ (ti \in (ti + 1)..n)
    BY <1>1
  <2>4. \A i \in (ti + 1)..n : all[i] = at[i]
    BY <2>3
  <2>5. all[ti] = ii
    BY <2>3
  <2>6. all \in [ti..n -> 0..k]
    BY <1>1, <2>1, <2>2
  <2>7. all[n] = k
    BY <2>1, <2>3
  <2> HIDE DEF all
  <2>8. \A i \in (ti + 1)..n : Piece(tokens, input, i, all[i - 1], all[i])
    <3> SUFFICES ASSUME NEW i \in (ti + 1)..n
                 PROVE  Piece(tokens, input, i, all[i - 1], all[i])
      OBVIOUS
    <3>1. CASE i = ti + 1
      <4>1. i - 1 = ti /\ all[i] = j /\ all[i - 1] = ii
        BY <1>1, <2>1, <2>4, <2>5, <3>1
      <4> QED
        BY <1>3, <3>1, <4>1
    <3>2. CASE i # ti + 1
      <4>1. i \in ((ti + 1) + 1)..n /\ i - 1 \in (ti + 1)..n
        BY <1>1, <3>2
      <4>2. all[i] = at[i] /\ all[i - 1] = at[i - 1]
        BY <2>4, <4>1
      <4> QED
        BY <2>1, <4>1, <4>2
    <3> QED
      BY <3>1, <3>2
  <2> QED
    BY <2>5, <2>6, <2>7, <2>8 DEF Cuts, n, k
<1> QED
  BY <1>2, <1>3 DEF n, k

\* What a segment is made of.
LEMMA SegmentOf ==
    ASSUME NEW S, NEW input \in Seq(S),
           NEW a \in 0..Len(input), NEW b \in 0..Len(input), a <= b
    PROVE  LET s == SubSeq(input, a + 1, b)
           IN  /\ s \in Seq(S) /\ Len(s) = b - a
               /\ DOMAIN s = 1..(b - a)
               /\ \A x \in 1..(b - a) : s[x] = input[a + x]
  OBVIOUS

\* A sequence of one element.
LEMMA OneElement ==
    ASSUME NEW S, NEW s \in Seq(S), NEW ch
    PROVE  s = <<ch>> <=> Len(s) = 1 /\ s[1] = ch
  OBVIOUS

\* A segment that is one given character.
LEMMA SingleSegment ==
    ASSUME NEW S, NEW input \in Seq(S),
           NEW a \in 0..Len(input), NEW b \in 0..Len(input), a <= b, NEW ch
    PROVE  Single(SubSeq(input, a + 1, b), ch) <=> b = a + 1 /\ input[a + 1] = ch
<1> DEFINE s == SubSeq(input, a + 1, b)
<1>1. /\ s \in Seq(S) /\ Len(s) = b - a
      /\ DOMAIN s = 1..(b - a)
      /\ \A x \in 1..(b - a) : s[x] = input[a + x]
  BY SegmentOf
<1> HIDE DEF s
<1>2. s = <<ch>> <=> Len(s) = 1 /\ s[1] = ch
  BY <1>1, OneElement
<1>3. Len(s) = 1 <=> b = a + 1
  BY <1>1
<1>4. b = a + 1 => s[1] = input[a + 1]
  <2>1. b = a + 1 => 1 \in 1..(b - a)
    OBVIOUS
  <2> QED
    BY <1>1, <2>1
<1>5. s = <<ch>> <=> b = a + 1 /\ input[a + 1] = ch
  BY <1>2, <1>3, <1>4
<1> QED
  BY <1>5 DEF s, Single

\* A segment without dots.
LEMMA DotlessSegment ==
    ASSUME NEW S, NEW input \in Seq(S),
           NEW a \in 0..Len(input), NEW b \in 0..Len(input), a <= b
    PROVE  LET s == SubSeq(input, a + 1, b)
           IN  (\A x \in DOMAIN s : s[x] # ".") <=> \A m \in (a + 1)..b : input[m] # "."
<1> DEFINE s == SubSeq(input, a + 1, b)
<1>1. /\ DOMAIN s = 1..(b - a)
      /\ \A x \in 1..(b - a) : s[x] = input[a + x]
  BY SegmentOf
<1> HIDE DEF s
<1>2. \A x \in 1..(b - a) : a + x \in (a + 1)..b
  OBVIOUS
<1>3. \A m \in (a + 1)..b : m - a \in 1..(b - a) /\ a + (m - a) = m
  OBVIOUS
<1>4. ASSUME \A x \in DOMAIN s : s[x] # ".", NEW m \in (a + 1)..b PROVE input[m] # "."
  BY <1>1, <1>3, <1>4
<1>5. ASSUME \A m \in (a + 1)..b : input[m] # ".", NEW x \in DOMAIN s PROVE s[x] # "."
  BY <1>1, <1>2, <1>5
<1>6. (\A x \in DOMAIN s : s[x] # ".") <=> \A m \in (a + 1)..b : input[m] # "."
  BY <1>4, <1>5
<1> QED
  BY <1>6 DEF s

LEMMA PieceCases ==
    ASSUME NEW S, NEW input \in Seq(S), NEW tokens, NEW i, tokens[i].kind \in Kinds,
           NEW a \in 0..Len(input), NEW b \in 0..Len(input)
    PROVE  Piece(tokens, input, i, a, b) <=> StandsFor(tokens[i], input, a, b)
<1> DEFINE k == Len(input)
           s == SubSeq(input, a + 1, b)
           t == tokens[i]
<1>1. k \in Nat /\ a \in Nat /\ b \in Nat /\ a <= k /\ b <= k
  OBVIOUS
<1>2. ASSUME a <= b, NEW ch PROVE Single(s, ch) <=> b = a + 1 /\ input[a + 1] = ch
  BY <1>2, SingleSegment
<1>3. Piece(tokens, input, i, a, b) <=> a <= b /\ Fits(t, s)
  BY DEF Piece
<1>4. b \in a..k <=> a <= b
  BY <1>1
<1>5. ASSUME a <= b
      PROVE  (\A x \in DOMAIN s : s[x] # ".") <=> \A m \in (a + 1)..b : input[m] # "."
  BY <1>5, DotlessSegment
<1>6. ASSUME a <= b PROVE Len(s) = 1 <=> b = a + 1
  <2>1. Len(s) = b - a
    BY <1>6, SegmentOf
  <2> QED
    BY <1>1, <2>1
<1>7. a <= b /\ b = a + 1 <=> a < k /\ b = a + 1
  BY <1>1
<1>8. t.kind \in Kinds
  OBVIOUS
<1> HIDE DEF s, t, k
<1>9. CASE t.kind = "literal"
  <2>1. Fits(t, s) <=> Single(s, t.ch)
    BY <1>9 DEF Fits, Single
  <2>2. StandsFor(t, input, a, b) <=> a < k /\ b = a + 1 /\ input[a + 1] = t.ch
    BY <1>9 DEF StandsFor, k
  <2>3. a <= b /\ Single(s, t.ch) <=> a <= b /\ b = a + 1 /\ input[a + 1] = t.ch
    BY <1>2
  <2> QED
    BY <1>3, <1>7, <2>1, <2>2, <2>3 DEF t
<1>10. CASE t.kind = "question"
  <2>1. Fits(t, s) <=> Len(s) = 1 /\ ~Single(s, ".")
    BY <1>10 DEF Fits, Single
  <2>2. StandsFor(t, input, a, b) <=> a < k /\ b = a + 1 /\ input[a + 1] # "."
    BY <1>10 DEF StandsFor, k
  <2>3. a <= b => (Len(s) = 1 /\ ~Single(s, ".") <=> b = a + 1 /\ input[a + 1] # ".")
    BY <1>2, <1>6
  <2> QED
    BY <1>3, <1>7, <2>1, <2>2, <2>3 DEF t
<1>11. CASE t.kind = "star"
  <2>1. Fits(t, s) <=> \A x \in DOMAIN s : s[x] # "."
    BY <1>11 DEF Fits
  <2>2. StandsFor(t, input, a, b) <=> b \in a..k /\ \A m \in (a + 1)..b : input[m] # "."
    BY <1>11 DEF StandsFor, k
  <2> QED
    BY <1>3, <1>4, <1>5, <2>1, <2>2 DEF t
<1>12. CASE t.kind = "doublestar"
  <2>1. Fits(t, s)
    BY <1>12 DEF Fits
  <2>2. StandsFor(t, input, a, b) <=> b \in a..k
    BY <1>12 DEF StandsFor, k
  <2> QED
    BY <1>3, <1>4, <2>1, <2>2 DEF t
<1> QED
  BY <1>8, <1>9, <1>10, <1>11, <1>12 DEF Kinds

\* The matcher's case for a token tries every segment it may stand for.
LEMMA BeforeIs ==
    ASSUME NEW t, NEW input, NEW rest, t.kind \in Kinds, Len(input) \in Nat,
           rest \subseteq 0..Len(input), NEW ii \in 0..Len(input)
    PROVE  ii \in Before(t, input, rest)
             <=> \E j \in 0..Len(input) : StandsFor(t, input, ii, j) /\ j \in rest
<1> DEFINE k == Len(input)
<1>1. k \in Nat /\ ii \in 0..k /\ rest \subseteq 0..k
  OBVIOUS
<1>2. ii..k \subseteq 0..k
  BY <1>1
<1>3. ii < k => ii + 1 \in 0..k
  BY <1>1
<1>4. t.kind \in Kinds
  OBVIOUS
<1> HIDE DEF k
<1>5. CASE t.kind = "literal"
  <2>1. ii \in Before(t, input, rest) <=> ii < k /\ input[ii + 1] = t.ch /\ ii + 1 \in rest
    BY <1>1, <1>5 DEF Before, k
  <2>2. \A j \in 0..k : StandsFor(t, input, ii, j)
                           <=> ii < k /\ j = ii + 1 /\ input[ii + 1] = t.ch
    BY <1>5 DEF StandsFor, k
  <2> QED
    BY <1>3, <2>1, <2>2 DEF k
<1>6. CASE t.kind = "question"
  <2>1. ii \in Before(t, input, rest) <=> ii < k /\ input[ii + 1] # "." /\ ii + 1 \in rest
    BY <1>1, <1>6 DEF Before, k
  <2>2. \A j \in 0..k : StandsFor(t, input, ii, j)
                           <=> ii < k /\ j = ii + 1 /\ input[ii + 1] # "."
    BY <1>6 DEF StandsFor, k
  <2> QED
    BY <1>3, <2>1, <2>2 DEF k
<1>7. CASE t.kind = "star"
  <2>1. ii \in Before(t, input, rest)
           <=> \E j \in ii..k : (\A m \in (ii + 1)..j : input[m] # ".") /\ j \in rest
    BY <1>1, <1>7 DEF Before, k
  <2>2. \A j \in 0..k : StandsFor(t, input, ii, j)
                           <=> j \in ii..k /\ \A m \in (ii + 1)..j : input[m] # "."
    BY <1>7 DEF StandsFor, k
  <2> QED
    BY <1>2, <2>1, <2>2 DEF k
<1>8. CASE t.kind = "doublestar"
  <2>1. ii \in Before(t, input, rest) <=> \E j \in ii..k : j \in rest
    BY <1>1, <1>8 DEF Before, k
  <2>2. \A j \in 0..k : StandsFor(t, input, ii, j) <=> j \in ii..k
    BY <1>8 DEF StandsFor, k
  <2> QED
    BY <1>2, <2>1, <2>2 DEF k
<1> QED
  BY <1>4, <1>5, <1>6, <1>7, <1>8 DEF Kinds

\* Where the rest can be cut from decides where this token can start.
LEMMA EndsStep ==
    ASSUME NEW S, NEW input \in Seq(S), NEW tokens, Len(tokens) \in Nat,
           NEW ti \in 0..(Len(tokens) - 1), tokens[ti + 1].kind \in Kinds
    PROVE  Ends(tokens, input, ti)
             = Before(tokens[ti + 1], input, Ends(tokens, input, ti + 1))
<1> DEFINE k == Len(input)
           t == tokens[ti + 1]
           rest == Ends(tokens, input, ti + 1)
<1>1. k \in Nat
  OBVIOUS
<1>2. rest \subseteq 0..k
  BY DEF Ends
<1>3. \A ii \in 0..k : ii \in Before(t, input, rest)
             <=> \E j \in 0..k : StandsFor(t, input, ii, j) /\ j \in rest
  <2> HIDE DEF rest, t
  <2> TAKE ii \in 0..k
  <2>1. t.kind \in Kinds
    BY DEF t
  <2> QED
    BY <1>1, <1>2, <2>1, BeforeIs
<1>4. ASSUME NEW ii \in 0..k
      PROVE Cuts(tokens, input, ti, ii)
              <=> \E j \in 0..k : Piece(tokens, input, ti + 1, ii, j)
                                    /\ Cuts(tokens, input, ti + 1, j)
  BY <1>1, NextToken
<1>5. \A ii, j \in 0..k : Piece(tokens, input, ti + 1, ii, j) <=> StandsFor(t, input, ii, j)
  BY PieceCases
<1>6. \A j \in 0..k : j \in rest <=> Cuts(tokens, input, ti + 1, j)
  BY DEF Ends
<1>7. Before(t, input, rest) \subseteq 0..k
  BY DEF Before
<1>8. \A ii : ii \in Ends(tokens, input, ti) <=> ii \in 0..k /\ Cuts(tokens, input, ti, ii)
  BY DEF Ends
<1> HIDE DEF k, t, rest
<1>9. \A ii : ii \in Ends(tokens, input, ti) <=> ii \in Before(t, input, rest)
  <2> TAKE ii
  <2>1. CASE ii \in 0..k
    BY <1>3, <1>4, <1>5, <1>6, <1>8, <2>1
  <2>2. CASE ~(ii \in 0..k)
    BY <1>7, <1>8, <2>2
  <2> QED
    BY <2>1, <2>2
<1>10. Ends(tokens, input, ti) = Before(t, input, rest)
  BY <1>9
<1> QED
  BY <1>10 DEF t, rest

\* The function of the positions that can be cut satisfies the matcher's equation,
LEMMA MatcherExists ==
    ASSUME NEW S, NEW input \in Seq(S), NEW tokens, Len(tokens) \in Nat,
           \A i \in 1..Len(tokens) : tokens[i].kind \in Kinds
    PROVE  IsMatcher([ti \in 0..Len(tokens) |-> Ends(tokens, input, ti)], tokens, input)
<1> DEFINE n == Len(tokens)
           m == [ti \in 0..n |-> Ends(tokens, input, ti)]
<1>1. n \in Nat /\ Len(input) \in Nat
  OBVIOUS
<1>2. \A ti \in 0..n : m[ti] = Ends(tokens, input, ti)
  OBVIOUS
<1> SUFFICES ASSUME NEW ti \in 0..n
             PROVE Ends(tokens, input, ti) =
                      IF ti = n THEN {Len(input)} ELSE Before(tokens[ti + 1], input, m[ti + 1])
  BY DEF IsMatcher
<1>3. CASE ti = n
  <2>1. \A ii \in 0..Len(input) : Cuts(tokens, input, n, ii) <=> ii = Len(input)
    BY <1>1, NoTokenLeft
  <2>2. Ends(tokens, input, n) = {Len(input)}
    BY <1>1, <2>1 DEF Ends
  <2> QED
    BY <1>3, <2>2
<1>4. CASE ti # n
  <2>1. ti \in 0..(n - 1) /\ ti + 1 \in 0..n /\ ti + 1 \in 1..n
    BY <1>1, <1>4
  <2>2. m[ti + 1] = Ends(tokens, input, ti + 1)
    BY <1>2, <2>1
  <2>3. Ends(tokens, input, ti) = Before(tokens[ti + 1], input, Ends(tokens, input, ti + 1))
    BY <2>1, EndsStep
  <2> HIDE DEF m, n
  <2> QED
    BY <1>4, <2>2, <2>3
<1> QED
  BY <1>3, <1>4

\* and nothing else does, so that the matcher computes it.
LEMMA MatcherIs ==
    ASSUME NEW S, NEW input \in Seq(S), NEW tokens, Len(tokens) \in Nat,
           \A i \in 1..Len(tokens) : tokens[i].kind \in Kinds,
           NEW m, IsMatcher(m, tokens, input)
    PROVE  m[0] = Ends(tokens, input, 0)
<1> DEFINE n == Len(tokens)
           D == {d \in Nat : d <= n => m[n - d] = Ends(tokens, input, n - d)}
<1>1. n \in Nat /\ Len(input) \in Nat
  OBVIOUS
<1>2. \A ti \in 0..n : m[ti] = IF ti = n THEN {Len(input)}
                               ELSE Before(tokens[ti + 1], input, m[ti + 1])
  BY DEF IsMatcher
<1>3. 0 \in D
  <2>1. \A ii \in 0..Len(input) : Cuts(tokens, input, n, ii) <=> ii = Len(input)
    BY <1>1, NoTokenLeft
  <2>2. Ends(tokens, input, n) = {Len(input)}
    BY <1>1, <2>1 DEF Ends
  <2>3. n - 0 = n /\ n \in 0..n
    BY <1>1
  <2> QED
    BY <1>2, <2>2, <2>3
<1>4. ASSUME NEW d \in D, d + 1 <= n PROVE m[n - (d + 1)] = Ends(tokens, input, n - (d + 1))
  <2> DEFINE ti == n - (d + 1)
  <2>1. ti \in 0..(n - 1) /\ ti \in 0..n /\ ti # n /\ ti + 1 = n - d /\ ti + 1 \in 1..n
        /\ d <= n
    BY <1>1, <1>4
  <2>2. m[n - d] = Ends(tokens, input, n - d)
    BY <1>4
  <2> HIDE DEF ti
  <2>3. m[ti + 1] = Ends(tokens, input, ti + 1)
    BY <2>1, <2>2
  <2>4. m[ti] = Before(tokens[ti + 1], input, m[ti + 1])
    BY <1>2, <2>1
  <2>5. Ends(tokens, input, ti) = Before(tokens[ti + 1], input, Ends(tokens, input, ti + 1))
    BY <2>1, EndsStep
  <2>6. m[ti] = Ends(tokens, input, ti)
    BY <2>3, <2>4, <2>5
  <2> QED
    BY <2>6 DEF ti
<1>5. D \subseteq Nat /\ \A d \in D : d + 1 \in D
  BY <1>4
<1> HIDE DEF D
<1>6. n \in D
  BY <1>1, <1>3, <1>5, SetInduction
<1> QED
  BY <1>1, <1>6 DEF D

\* The backtracking finds a match exactly if there is a way to cut the input.
LEMMA PatternMatchCuts ==
    ASSUME NEW S, NEW input \in Seq(S), NEW tokens, Len(tokens) \in Nat,
           \A i \in 1..Len(tokens) : tokens[i].kind \in Kinds
    PROVE  PatternMatch(tokens, input) <=> Cuts(tokens, input, 0, 0)
<1>1. PatternMatch(tokens, input) <=> 0 \in (CHOOSE m : IsMatcher(m, tokens, input))[0]
  BY Zenon DEF PatternMatch, IsMatcher, Before
<1>2. IsMatcher(CHOOSE m : IsMatcher(m, tokens, input), tokens, input)
  BY Zenon, MatcherExists
<1> DEFINE m == CHOOSE m : IsMatcher(m, tokens, input)
<1> HIDE DEF m
<1>3. m[0] = Ends(tokens, input, 0)
  BY <1>2, MatcherIs DEF m
<1>4. 0 \in 0..Len(input)
  OBVIOUS
<1> QED
  BY <1>1, <1>3, <1>4 DEF m, Ends

\* The documented form of a cut, whose ends are fixed.
LEMMA CutsMeanMatch ==
    ASSUME NEW S, NEW f \in Seq(S), NEW p, Len(Tokens(p)) \in Nat
    PROVE  MatchesByCuts(f, p) <=> Cuts(Tokens(p), f, 0, 0)
<1> DEFINE tokens == Tokens(p)
           n == Len(tokens)
           k == Len(f)
<1>1. n \in Nat /\ k \in Nat
  OBVIOUS
<1>2. MatchesByCuts(f, p) <=>
         \E cut \in [1..(n - 1) -> 0..k] :
            IF n = 0 THEN f = <<>>
            ELSE \A i \in 1..n : Piece(tokens, f, i, CutAt(cut, n, k, i - 1), CutAt(cut, n, k, i))
  BY Zenon DEF MatchesByCuts, Piece, CutAt
<1>3. Cuts(tokens, f, 0, 0) <=>
         \E at \in [0..n -> 0..k] :
            /\ at[0] = 0 /\ at[n] = k
            /\ \A i \in (0 + 1)..n : Piece(tokens, f, i, at[i - 1], at[i])
  BY DEF Cuts
<1>4. f = <<>> <=> k = 0
  OBVIOUS
<1>5. Cuts(tokens, f, n, 0) <=> 0 = k
  BY <1>1, NoTokenLeft
<1> HIDE DEF tokens, n, k
<1>6. CASE n = 0
  <2>1. [i \in 1..(n - 1) |-> 0] \in [1..(n - 1) -> 0..k]
    BY <1>1
  <2>2. MatchesByCuts(f, p) <=> f = <<>>
    BY <1>2, <1>6, <2>1
  <2> QED
    BY <1>4, <1>5, <1>6, <2>2 DEF tokens
<1>7. CASE n # 0
  <2>1. ASSUME NEW cut \in [1..(n - 1) -> 0..k],
               \A i \in 1..n : Piece(tokens, f, i, CutAt(cut, n, k, i - 1), CutAt(cut, n, k, i))
        PROVE  Cuts(tokens, f, 0, 0)
    <3> DEFINE at == [i \in 0..n |-> CutAt(cut, n, k, i)]
    <3>1. \A i \in 0..n : i = 0 \/ i = n \/ i \in 1..(n - 1)
      BY <1>1
    <3>2. ASSUME NEW i \in 0..n PROVE CutAt(cut, n, k, i) \in 0..k
      BY <1>1, <2>1, <3>1 DEF CutAt
    <3>3. at \in [0..n -> 0..k]
      BY <3>2
    <3>4. 0 \in 0..n /\ n \in 0..n
      BY <1>1
    <3>5. \A i \in 0..n : at[i] = CutAt(cut, n, k, i)
      OBVIOUS
    <3> HIDE DEF at
    <3>6. at[0] = 0 /\ at[n] = k
      BY <1>7, <3>4, <3>5 DEF CutAt
    <3>7. ASSUME NEW i \in (0 + 1)..n PROVE Piece(tokens, f, i, at[i - 1], at[i])
      <4>1. i \in 1..n /\ i \in 0..n /\ i - 1 \in 0..n
        BY <1>1
      <4> QED
        BY <2>1, <3>5, <4>1
    <3> QED
      BY <1>3, <3>3, <3>6, <3>7
  <2>2. ASSUME NEW at \in [0..n -> 0..k], at[0] = 0 /\ at[n] = k,
               \A i \in (0 + 1)..n : Piece(tokens, f, i, at[i - 1], at[i])
        PROVE  MatchesByCuts(f, p)
    <3> DEFINE cut == [i \in 1..(n - 1) |-> at[i]]
    <3>1. \A i \in 0..n : i = 0 \/ i = n \/ i \in 1..(n - 1)
      BY <1>1
    <3>2. 1..(n - 1) \subseteq 0..n
      BY <1>1
    <3>3. cut \in [1..(n - 1) -> 0..k]
      BY <3>2
    <3>4. \A i \in 1..(n - 1) : cut[i] = at[i]
      OBVIOUS
    <3> HIDE DEF cut
    <3>5. \A i \in 0..n : CutAt(cut, n, k, i) = at[i]
      BY <2>2, <3>1, <3>4 DEF CutAt
    <3>6. ASSUME NEW i \in 1..n
          PROVE  Piece(tokens, f, i, CutAt(cut, n, k, i - 1), CutAt(cut, n, k, i))
      <4>1. i \in (0 + 1)..n /\ i \in 0..n /\ i - 1 \in 0..n
        BY <1>1
      <4> QED
        BY <2>2, <3>5, <4>1
    <3> QED
      BY <1>2, <1>7, <3>3, <3>6
  <2>3. ASSUME MatchesByCuts(f, p) PROVE Cuts(tokens, f, 0, 0)
    BY <1>2, <1>7, <2>1, <2>3
  <2>4. ASSUME Cuts(tokens, f, 0, 0) PROVE MatchesByCuts(f, p)
    <3>1. PICK at \in [0..n -> 0..k] :
             /\ at[0] = 0 /\ at[n] = k
             /\ \A i \in (0 + 1)..n : Piece(tokens, f, i, at[i - 1], at[i])
      BY <1>3, <2>4
    <3> QED
      BY <2>2, <3>1
  <2> QED
    BY <2>3, <2>4 DEF tokens
<1> QED
  BY <1>6, <1>7 DEF tokens

-----------------------------------------------------------------------------
(* Reading a pattern.                                                       *)

\* A sequence with one more element in front.
LEMMA OneMore ==
    ASSUME NEW T, NEW t \in T, NEW s \in Seq(T)
    PROVE  <<t>> \o s \in Seq(T)
  OBVIOUS

\* A step of a scan yields tokens, or a number, if those it builds on do.
LEMMA ScanYields ==
    ASSUME NEW kind \in {"tokens", "literal"}, NEW p, p \in Seq(Range(p)), NEW i \in Nat \ {0},
           NEW a, NEW b,
           i <= Len(p) => a \in Yield(kind, p),
           i + 2 <= EndOf(kind, p) => b \in Yield(kind, p)
    PROVE  Scan(kind, p, i, a, b) \in Yield(kind, p)
<1>1. Len(p) \in Nat /\ i \in Nat /\ \A j \in 1..Len(p) : p[j] \in Range(p)
  OBVIOUS
<1>2. CASE kind = "tokens"
  <2> DEFINE T == TokenOf(p)
  <2>1. ASSUME NEW k \in Kinds, NEW ch \in Range(p) \cup {"*", "?"} PROVE Token(k, ch) \in T
    BY DEF Token, TokenOf
  <2>2. Yield(kind, p) = Seq(T) /\ EndOf(kind, p) = Len(p) + 1
    BY <1>2 DEF Yield, EndOf
  <2>3. i < Len(p) => b \in Seq(T) /\ p[i + 1] \in Range(p)
    BY <1>1, <2>2
  <2>4. i <= Len(p) => a \in Seq(T) /\ p[i] \in Range(p)
    BY <1>1, <2>2
  <2>5. <<>> \in Seq(T)
    OBVIOUS
  <2>6. {"literal", "doublestar", "star", "question"} \subseteq Kinds
    BY DEF Kinds
  <2> HIDE DEF T
  <2>7. i < Len(p) => /\ <<Token("literal", p[i + 1])>> \o b \in Seq(T)
                      /\ <<Token("doublestar", "*")>> \o b \in Seq(T)
    BY <2>1, <2>3, <2>6, OneMore
  <2>8. i <= Len(p) => /\ <<Token("star", "*")>> \o a \in Seq(T)
                       /\ <<Token("question", "?")>> \o a \in Seq(T)
                       /\ <<Token("literal", p[i])>> \o a \in Seq(T)
    BY <2>1, <2>4, <2>6, OneMore
  <2>9. i > Len(p) \/ i <= Len(p)
    BY <1>1
  <2>10. Scan(kind, p, i, a, b) \in Seq(T)
    BY <1>2, <2>5, <2>7, <2>8, <2>9 DEF Scan
  <2> QED
    BY <2>2, <2>10
<1>3. CASE kind = "literal"
  <2>1. Yield(kind, p) = Nat /\ EndOf(kind, p) = Len(p) + 2
    BY <1>3 DEF Yield, EndOf
  <2>2. i > Len(p) \/ (i <= Len(p) /\ a \in Nat /\ b \in Nat)
    BY <1>1, <2>1
  <2>3. Scan(kind, p, i, a, b) = IF i > Len(p) \/ (i <= Len(p) /\ p[i] \in {"*", "?"}) THEN 0
                                 ELSE 1 + (IF p[i] = "\\" THEN b ELSE a)
    BY <1>3 DEF Scan
  <2> QED
    BY <1>1, <2>1, <2>2, <2>3
<1> QED
  BY <1>2, <1>3

\* What is not there is not looked at.
LEMMA ScanInside ==
    ASSUME NEW kind \in {"tokens", "literal"}, NEW p, Len(p) \in Nat, NEW i \in Nat,
           NEW a, NEW b, NEW a2, NEW b2,
           i <= Len(p) => a = a2,
           i + 2 <= EndOf(kind, p) => b = b2
    PROVE  Scan(kind, p, i, a, b) = Scan(kind, p, i, a2, b2)
<1>1. CASE kind = "tokens"
  <2>1. i < Len(p) => b = b2
    BY <1>1 DEF EndOf
  <2>2. i > Len(p) \/ i <= Len(p)
    OBVIOUS
  <2> QED
    BY <1>1, <2>1, <2>2 DEF Scan
<1>2. CASE kind = "literal"
  <2>1. i <= Len(p) => b = b2
    BY <1>2 DEF EndOf
  <2>2. i > Len(p) \/ i <= Len(p)
    OBVIOUS
  <2> QED
    BY <1>2, <2>1, <2>2 DEF Scan
<1> QED
  BY <1>1, <1>2

\* A scan exists, from the last position of the pattern backwards,
LEMMA ScanExists ==
    ASSUME NEW kind \in {"tokens", "literal"}, NEW p, Len(p) \in Nat
    PROVE  \E from : IsScan(kind, p, from)
<1> DEFINE h == EndOf(kind, p)
           D == {d \in Nat : d < h => \E g : IsScanFrom(kind, p, h - d, g)}
<1>1. h \in Nat /\ h > Len(p) /\ h > 0
  BY DEF EndOf
<1>2. \A d \in Nat : d \in D <=> (d < h => \E g : IsScanFrom(kind, p, h - d, g))
  OBVIOUS
<1>3. D \subseteq Nat
  OBVIOUS
<1> HIDE DEF D
<1>4. \E g : IsScanFrom(kind, p, h, g)
  <2> DEFINE g == [i \in h..h |-> Scan(kind, p, i, <<>>, <<>>)]
  <2>1. ASSUME NEW i \in h..h
        PROVE  Scan(kind, p, i, <<>>, <<>>) = Scan(kind, p, i, g[i + 1], g[i + 2])
    <3> HIDE DEF g
    <3>1. i = h /\ i \in Nat /\ ~(i <= Len(p)) /\ ~(i + 2 <= h)
      BY <1>1
    <3> QED
      BY <3>1, ScanInside DEF h
  <2>2. g = [i \in h..h |-> Scan(kind, p, i, g[i + 1], g[i + 2])]
    BY <2>1
  <2> HIDE DEF g
  <2> QED
    BY <2>2 DEF IsScanFrom
<1>5. 0 \in D
  <2>1. h - 0 = h
    BY <1>1
  <2> QED
    BY <1>2, <1>4, <2>1
<1>6. ASSUME NEW d \in Nat, d + 1 < h, NEW g, IsScanFrom(kind, p, h - d, g)
      PROVE  \E all : IsScanFrom(kind, p, h - (d + 1), all)
  <2> DEFINE lo == h - (d + 1)
             all == [i \in lo..h |-> IF i = lo THEN Scan(kind, p, i, g[i + 1], g[i + 2])
                                     ELSE g[i]]
  <2>1. lo \in Nat /\ lo >= 1 /\ lo < h /\ h - d = lo + 1
    BY <1>1, <1>6
  <2> HIDE DEF lo
  <2>2. \A i \in (lo + 1)..h : g[i] = Scan(kind, p, i, g[i + 1], g[i + 2])
    BY <1>6, <2>1 DEF IsScanFrom
  <2>3. \A i \in (lo + 1)..h : all[i] = g[i]
    BY <1>1, <2>1
  <2>4. \A i \in lo..h : (i + 1 <= h => i + 1 \in (lo + 1)..h)
                          /\ (i + 2 <= h => i + 2 \in (lo + 1)..h)
    BY <1>1, <2>1
  <2>5. \A i \in lo..h : i \in Nat /\ (i <= Len(p) => i + 1 <= h)
    BY <1>1, <2>1
  <2>6. \A i \in lo..h : all[i] = Scan(kind, p, i, g[i + 1], g[i + 2])
    <3> TAKE i \in lo..h
    <3>1. CASE i = lo
      BY <3>1
    <3>2. CASE i # lo
      <4>1. i \in (lo + 1)..h
        BY <1>1, <2>1, <3>2
      <4> HIDE DEF all
      <4> QED
        BY <2>2, <2>3, <4>1
    <3> QED
      BY <3>1, <3>2
  <2>7. DOMAIN all = lo..h /\ all = [i \in lo..h |-> all[i]]
    OBVIOUS
  <2> HIDE DEF all
  <2>8. ASSUME NEW i \in lo..h
        PROVE  Scan(kind, p, i, g[i + 1], g[i + 2]) = Scan(kind, p, i, all[i + 1], all[i + 2])
    <3>1. i <= Len(p) => g[i + 1] = all[i + 1]
      BY <2>3, <2>4, <2>5
    <3>2. i + 2 <= EndOf(kind, p) => g[i + 2] = all[i + 2]
      BY <2>3, <2>4 DEF h
    <3>3. i \in Nat
      BY <2>5
    <3> QED
      BY <3>1, <3>2, <3>3, ScanInside
  <2>9. \A i \in lo..h : all[i] = Scan(kind, p, i, all[i + 1], all[i + 2])
    BY <2>6, <2>8
  <2>10. all = [i \in lo..h |-> Scan(kind, p, i, all[i + 1], all[i + 2])]
    BY <2>7, <2>9
  <2>11. IsScanFrom(kind, p, lo, all)
    BY <2>10 DEF IsScanFrom, h
  <2> QED
    BY <2>11 DEF lo
<1>7. \A d \in D : d + 1 \in D
  <2> SUFFICES ASSUME NEW d \in D, d + 1 < h
               PROVE \E all : IsScanFrom(kind, p, h - (d + 1), all)
    BY <1>2, <1>3
  <2>1. d \in Nat /\ d < h
    BY <1>1, <1>3
  <2>2. PICK g : IsScanFrom(kind, p, h - d, g)
    BY <1>2, <2>1
  <2> QED
    BY <1>6, <2>1, <2>2
<1>8. h - 1 \in D /\ h - 1 \in Nat /\ h - 1 < h /\ h - (h - 1) = 1
  <2>1. D = Nat
    BY <1>3, <1>5, <1>7, SetInduction
  <2> QED
    BY <1>1, <2>1
<1>9. PICK g : IsScanFrom(kind, p, 1, g)
  BY <1>2, <1>8
<1> QED
  BY <1>9 DEF IsScanFrom, IsScan

\* and yields tokens, or a number.
LEMMA ScanTyped ==
    ASSUME NEW kind \in {"tokens", "literal"}, NEW p, p \in Seq(Range(p)),
           NEW from, IsScan(kind, p, from)
    PROVE  from[1] \in Yield(kind, p)
<1> DEFINE h == EndOf(kind, p)
           Typed(d) == d < h => from[h - d] \in Yield(kind, p)
           D == {d \in Nat : Typed(d) /\ (d > 0 => Typed(d - 1))}
<1>1. Len(p) \in Nat /\ h \in Nat /\ h > Len(p) /\ h > 0
  BY DEF EndOf
<1>2. \A i \in 1..h : from[i] = Scan(kind, p, i, from[i + 1], from[i + 2])
  BY DEF IsScan
<1> HIDE DEF h
<1>3. 0 \in D
  <2>1. h \in 1..h /\ h \in Nat \ {0} /\ ~(h <= Len(p)) /\ ~(h + 2 <= h) /\ h - 0 = h
    BY <1>1
  <2>2. Scan(kind, p, h, from[h + 1], from[h + 2]) \in Yield(kind, p)
    BY <2>1, ScanYields DEF h
  <2> QED
    BY <1>2, <2>1, <2>2
<1>4. ASSUME NEW d \in D PROVE d + 1 \in D
  <2>1. d \in Nat /\ Typed(d) /\ (d > 0 => Typed(d - 1))
    OBVIOUS
  <2>2. ASSUME d + 1 < h PROVE from[h - (d + 1)] \in Yield(kind, p)
    <3> DEFINE i == h - (d + 1)
    <3>1. i \in 1..h /\ i \in Nat \ {0} /\ i + 1 = h - d /\ d < h
      BY <1>1, <2>1, <2>2
    <3>2. from[i + 1] \in Yield(kind, p)
      BY <2>1, <3>1
    <3>3. i + 2 <= h => d > 0 /\ d - 1 < h /\ i + 2 = h - (d - 1)
      BY <1>1, <2>1, <2>2
    <3>4. i + 2 <= h => from[i + 2] \in Yield(kind, p)
      BY <2>1, <3>3
    <3> HIDE DEF i
    <3>5. Scan(kind, p, i, from[i + 1], from[i + 2]) \in Yield(kind, p)
      BY <3>1, <3>2, <3>4, ScanYields DEF h
    <3>6. from[i] \in Yield(kind, p)
      BY <1>2, <3>1, <3>5
    <3> QED
      BY <3>6 DEF i
  <2>3. (d + 1) - 1 = d /\ d + 1 \in Nat
    BY <2>1
  <2> QED
    BY <2>1, <2>2, <2>3
<1>5. D \subseteq Nat
  OBVIOUS
<1>6. \A d \in D : d < h => from[h - d] \in Yield(kind, p)
  OBVIOUS
<1> HIDE DEF D
<1>7. h - 1 \in D /\ h - 1 < h /\ h - (h - 1) = 1
  <2>1. D = Nat
    BY <1>3, <1>4, <1>5, SetInduction
  <2> QED
    BY <1>1, <2>1
<1> QED
  BY <1>6, <1>7

\* The tokenizer is defined for every pattern and yields tokens of the four kinds.
LEMMA TokensAreTokens ==
    ASSUME NEW p, p \in Seq(Range(p))
    PROVE  /\ Tokens(p) \in Seq(TokenOf(p)) /\ Len(Tokens(p)) \in Nat
           /\ \A i \in 1..Len(Tokens(p)) : Tokens(p)[i].kind \in Kinds
<1>1. Len(p) \in Nat /\ EndOf("tokens", p) = Len(p) + 1
  BY DEF EndOf
<1> DEFINE Step(i, from) ==
            IF i > Len(p) THEN <<>>
            ELSE CASE p[i] = "\\" /\ i < Len(p) ->
                        <<Token("literal", p[i + 1])>> \o from[i + 2]
                   [] p[i] = "*" /\ i < Len(p) /\ p[i + 1] = "*" ->
                        <<Token("doublestar", "*")>> \o from[i + 2]
                   [] p[i] = "*" /\ ~(i < Len(p) /\ p[i + 1] = "*") ->
                        <<Token("star", "*")>> \o from[i + 1]
                   [] p[i] = "?" -> <<Token("question", "?")>> \o from[i + 1]
                   [] OTHER -> <<Token("literal", p[i])>> \o from[i + 1]
           Original(from) == from = [i \in 1..(Len(p) + 1) |-> Step(i, from)]
<1>2. Tokens(p) = (CHOOSE from : Original(from))[1]
  BY Zenon DEF Tokens
<1>3. \A from : Original(from) <=> IsScan("tokens", p, from)
  <2> TAKE from
  <2>1. \A i : Scan("tokens", p, i, from[i + 1], from[i + 2]) = Step(i, from)
    BY Zenon DEF Scan
  <2> HIDE DEF Step
  <2> QED
    BY <1>1, <2>1, Zenon DEF IsScan
<1> HIDE DEF Original
<1>4. Original(CHOOSE from : Original(from))
  BY <1>1, <1>3, Zenon, ScanExists
<1>5. IsScan("tokens", p, CHOOSE from : Original(from))
  BY <1>3, <1>4
<1>6. Tokens(p) \in Yield("tokens", p)
  BY <1>2, <1>5, ScanTyped
<1>7. Tokens(p) \in Seq(TokenOf(p))
  BY <1>6 DEF Yield
<1>8. Len(Tokens(p)) \in Nat /\ \A i \in 1..Len(Tokens(p)) : Tokens(p)[i] \in TokenOf(p)
  BY <1>7
<1> QED
  BY <1>7, <1>8 DEF TokenOf

\* So is the length of the literal prefix, a number,
LEMMA LiteralPrefixIsNat ==
    ASSUME NEW p, p \in Seq(Range(p))
    PROVE  LiteralPrefixLength(p) \in Nat
<1>1. Len(p) \in Nat /\ EndOf("literal", p) = Len(p) + 2
  BY DEF EndOf
<1> DEFINE Original(from) ==
        from = [i \in 1..(Len(p) + 2) |->
            IF i > Len(p) \/ (i <= Len(p) /\ p[i] \in {"*", "?"}) THEN 0
            ELSE 1 + from[i + (IF p[i] = "\\" THEN 2 ELSE 1)]]
<1>2. LiteralPrefixLength(p) = (CHOOSE from : Original(from))[1]
  BY Zenon DEF LiteralPrefixLength
<1>3. \A from : Original(from) <=> IsScan("literal", p, from)
  <2> TAKE from
  <2>1. \A i : (1 + from[i + (IF p[i] = "\\" THEN 2 ELSE 1)])
               = 1 + (IF p[i] = "\\" THEN from[i + 2] ELSE from[i + 1])
    BY Zenon
  <2>2. \A i : Scan("literal", p, i, from[i + 1], from[i + 2])
               = IF i > Len(p) \/ (i <= Len(p) /\ p[i] \in {"*", "?"}) THEN 0
                 ELSE 1 + from[i + (IF p[i] = "\\" THEN 2 ELSE 1)]
    BY <2>1, Zenon DEF Scan
  <2> QED
    BY <1>1, <2>2, Zenon DEF IsScan
<1> HIDE DEF Original
<1>4. Original(CHOOSE from : Original(from))
  BY <1>1, <1>3, Zenon, ScanExists
<1>5. IsScan("literal", p, CHOOSE from : Original(from))
  BY <1>3, <1>4
<1>6. LiteralPrefixLength(p) \in Yield("literal", p)
  BY <1>2, <1>5, ScanTyped
<1> QED
  BY <1>6 DEF Yield

\* and the count of metacharacters.
LEMMA MetacharactersAreNat ==
    ASSUME NEW p, p \in Seq(Range(p))
    PROVE  CountMetacharacters(p) \in Nat
<1> DEFINE tokens == Tokens(p)
           meta == {i \in DOMAIN tokens : tokens[i].kind # "literal"}
<1>1. Len(tokens) \in Nat /\ DOMAIN tokens = 1..Len(tokens)
  BY TokensAreTokens
<1>2. IsFiniteSet(1..Len(tokens))
  BY <1>1, FS_Interval
<1>3. meta \subseteq 1..Len(tokens)
  BY <1>1
<1>4. IsFiniteSet(meta)
  BY <1>2, <1>3, FS_Subset
<1>5. Cardinality(meta) \in Nat
  BY <1>4, FS_CardinalityType
<1> QED
  BY <1>5 DEF CountMetacharacters

\* A pattern matches a field exactly if the field can be cut for its tokens.
LEMMA PatternMeansCuts ==
    ASSUME NEW f, f \in Seq(Range(f)), NEW p, p \in Seq(Range(p))
    PROVE  MatchesPattern(f, p) <=> MatchesByCuts(f, p)
<1>1. Len(Tokens(p)) \in Nat /\ \A i \in 1..Len(Tokens(p)) : Tokens(p)[i].kind \in Kinds
  BY TokensAreTokens
<1>2. PatternMatch(Tokens(p), f) <=> Cuts(Tokens(p), f, 0, 0)
  BY <1>1, PatternMatchCuts
<1>3. MatchesByCuts(f, p) <=> Cuts(Tokens(p), f, 0, 0)
  BY <1>1, CutsMeanMatch
<1> QED
  BY <1>2, <1>3 DEF MatchesPattern

-----------------------------------------------------------------------------
(* The precedence among rules.                                              *)

\* A rank is three numbers.
LEMMA RankType ==
    ASSUME NEW r, IsRule(r)
    PROVE  /\ Rank(r) \in Seq(Int) /\ Len(Rank(r)) = 3
           /\ Rank(r)[1] \in Int /\ Rank(r)[2] \in Int /\ Rank(r)[3] \in Int
<1>1. r.kind \in RuleKinds /\ Len(r.text) \in Nat
  BY DEF IsRule
<1>2. CountMetacharacters(r.text) \in Nat /\ LiteralPrefixLength(r.text) \in Nat
  BY MetacharactersAreNat, LiteralPrefixIsNat DEF IsRule
<1>3. ASSUME NEW x \in Int, NEW y \in Int, NEW z \in Int, Rank(r) = <<x, y, z>>
      PROVE  /\ Rank(r) \in Seq(Int) /\ Len(Rank(r)) = 3
             /\ Rank(r)[1] \in Int /\ Rank(r)[2] \in Int /\ Rank(r)[3] \in Int
  BY <1>3
<1>4. CASE r.kind = "exact"
  <2>1. Rank(r) = <<1, 0, 0>>
    BY <1>4 DEF Rank
  <2> QED
    BY <1>3, <2>1
<1>5. CASE r.kind = "prefix"
  <2>1. Rank(r) = <<2, -Len(r.text), 0>>
    BY <1>5 DEF Rank
  <2>2. -Len(r.text) \in Int
    BY <1>1
  <2> QED
    BY <1>3, <2>1, <2>2
<1>6. CASE r.kind = "pattern"
  <2>1. Rank(r) = <<3, CountMetacharacters(r.text), -LiteralPrefixLength(r.text)>>
    BY <1>6 DEF Rank
  <2>2. CountMetacharacters(r.text) \in Int /\ -LiteralPrefixLength(r.text) \in Int
    BY <1>2
  <2> QED
    BY <1>3, <2>1, <2>2
<1>7. CASE r.kind = "default"
  <2>1. Rank(r) = <<4, 0, 0>>
    BY <1>7 DEF Rank
  <2> QED
    BY <1>3, <2>1
<1> QED
  BY <1>1, <1>4, <1>5, <1>6, <1>7 DEF RuleKinds

\* Precedence, spelled out.
LEMMA PrecedesIs ==
    ASSUME NEW r, NEW s, IsRule(r), IsRule(s)
    PROVE  Precedes(r, s) <=> Compares(Rank(r), Rank(s), r.order, s.order)
<1> DEFINE a == Append(Rank(r), r.order)
           b == Append(Rank(s), s.order)
<1>1. r.order \in Int /\ s.order \in Int
  BY DEF IsRule
<1>2. ASSUME NEW x \in Seq(Int), Len(x) = 3, NEW m \in Int
      PROVE  /\ DOMAIN Append(x, m) = 1..4 /\ Append(x, m)[4] = m
             /\ \A i \in 1..3 : Append(x, m)[i] = x[i]
  <2> DEFINE y == Append(x, m)
  <2>1. /\ DOMAIN y = 1..(Len(x) + 1) /\ y[Len(x) + 1] = m
        /\ \A i \in 1..Len(x) : y[i] = x[i]
    OBVIOUS
  <2> HIDE DEF y
  <2>2. DOMAIN y = 1..4 /\ y[4] = m /\ \A i \in 1..3 : y[i] = x[i]
    BY <1>2, <2>1
  <2> QED
    BY <2>2 DEF y
<1>3. /\ DOMAIN a = 1..4 /\ a[4] = r.order /\ b[4] = s.order
      /\ \A i \in 1..3 : a[i] = Rank(r)[i] /\ b[i] = Rank(s)[i]
  <2>1. /\ Rank(r) \in Seq(Int) /\ Len(Rank(r)) = 3
        /\ Rank(s) \in Seq(Int) /\ Len(Rank(s)) = 3
    BY RankType
  <2> QED
    BY <1>1, <1>2, <2>1
<1>4. Precedes(r, s) <=> \E i \in DOMAIN a : a[i] < b[i] /\ \A j \in 1..(i - 1) : a[j] = b[j]
  BY Zenon DEF Precedes
<1> HIDE DEF a, b
<1>5. 1 \in 1..3 /\ 2 \in 1..3 /\ 3 \in 1..3
  OBVIOUS
<1>6. Compares(Rank(r), Rank(s), r.order, s.order)
        <=> \/ a[1] < b[1]
            \/ a[1] = b[1] /\ a[2] < b[2]
            \/ a[1] = b[1] /\ a[2] = b[2] /\ a[3] < b[3]
            \/ a[1] = b[1] /\ a[2] = b[2] /\ a[3] = b[3] /\ a[4] < b[4]
  BY <1>3, <1>5, Zenon DEF Compares
<1>7. /\ (\A j \in 1..(1 - 1) : a[j] = b[j])
      /\ (\A j \in 1..(2 - 1) : a[j] = b[j]) <=> a[1] = b[1]
      /\ (\A j \in 1..(3 - 1) : a[j] = b[j]) <=> a[1] = b[1] /\ a[2] = b[2]
      /\ (\A j \in 1..(4 - 1) : a[j] = b[j]) <=> a[1] = b[1] /\ a[2] = b[2] /\ a[3] = b[3]
  OBVIOUS
<1>8. \A i : i \in 1..4 <=> i \in {1, 2, 3, 4}
  OBVIOUS
<1> QED
  BY <1>3, <1>4, <1>6, <1>7, <1>8

\* Precedence is transitive, and total on rules of different places.
LEMMA PrecedesTransitive ==
    ASSUME NEW r, NEW s, NEW t, IsRule(r), IsRule(s), IsRule(t), Precedes(r, s), Precedes(s, t)
    PROVE  Precedes(r, t)
<1> DEFINE a == Rank(r)
           b == Rank(s)
           c == Rank(t)
<1>1. r.order \in Int /\ s.order \in Int /\ t.order \in Int
  BY DEF IsRule
<1>2. /\ a[1] \in Int /\ a[2] \in Int /\ a[3] \in Int
      /\ b[1] \in Int /\ b[2] \in Int /\ b[3] \in Int
      /\ c[1] \in Int /\ c[2] \in Int /\ c[3] \in Int
  BY RankType
<1>3. Compares(a, b, r.order, s.order) /\ Compares(b, c, s.order, t.order)
  BY PrecedesIs
<1> HIDE DEF a, b, c
<1>4. Compares(a, c, r.order, t.order)
  BY <1>1, <1>2, <1>3 DEF Compares
<1> QED
  BY <1>4, PrecedesIs DEF a, c

LEMMA PrecedesTotal ==
    ASSUME NEW r, NEW s, IsRule(r), IsRule(s), r.order # s.order
    PROVE  Precedes(r, s) \/ Precedes(s, r)
<1> DEFINE a == Rank(r)
           b == Rank(s)
<1>1. r.order \in Int /\ s.order \in Int
  BY DEF IsRule
<1>2. /\ a[1] \in Int /\ a[2] \in Int /\ a[3] \in Int
      /\ b[1] \in Int /\ b[2] \in Int /\ b[3] \in Int
  BY RankType
<1>3. /\ Precedes(r, s) <=> Compares(a, b, r.order, s.order)
      /\ Precedes(s, r) <=> Compares(b, a, s.order, r.order)
  BY PrecedesIs
<1> HIDE DEF a, b
<1>4. Compares(a, b, r.order, s.order) \/ Compares(b, a, s.order, r.order)
  BY <1>1, <1>2 DEF Compares
<1> QED
  BY <1>3, <1>4

\* A rule of a kind that comes first beats every rule of a later one.
LEMMA KindPrecedes ==
    ASSUME NEW r, NEW s, IsRule(r), IsRule(s),
           \/ r.kind = "exact" /\ s.kind # "exact"
           \/ r.kind = "prefix" /\ s.kind \in {"pattern", "default"}
           \/ r.kind = "pattern" /\ s.kind = "default"
    PROVE  Precedes(r, s)
<1>1. /\ r.kind = "exact" => Rank(r)[1] = 1
      /\ r.kind = "prefix" => Rank(r)[1] = 2
      /\ r.kind = "pattern" => Rank(r)[1] = 3
  BY DEF Rank
<1>2. /\ s.kind = "prefix" => Rank(s)[1] = 2
      /\ s.kind = "pattern" => Rank(s)[1] = 3
      /\ s.kind = "default" => Rank(s)[1] = 4
  BY DEF Rank
<1>3. s.kind \in RuleKinds
  BY DEF IsRule
<1>4. Rank(r)[1] < Rank(s)[1]
  BY <1>1, <1>2, <1>3 DEF RuleKinds
<1> QED
  BY <1>4, PrecedesIs DEF Compares

\* Of the exact rules for a name, and of the default ones, the first in the document counts.
LEMMA FirstPrecedes ==
    ASSUME NEW r, NEW s, IsRule(r), IsRule(s), r.kind = s.kind,
           r.kind \in {"exact", "default"}, r.order < s.order
    PROVE  Precedes(r, s)
<1>1. Rank(r) = Rank(s)
  BY DEF Rank
<1> QED
  BY <1>1, PrecedesIs DEF Compares

\* The two loops' comparisons are the documented precedence among rules of a kind.
LEMMA BeatsIsPrecedes ==
    ASSUME NEW kind \in {"prefix", "pattern"}, NEW r, NEW s, IsRule(r), IsRule(s),
           r.kind = kind, s.kind = kind
    PROVE  KindBeats(kind, r, s) <=> Precedes(r, s)
<1>1. s # None
  <2>1. None.kind = "none"
    BY DEF None
  <2> QED
    BY <2>1
<1>2. Precedes(r, s) <=> Compares(Rank(r), Rank(s), r.order, s.order)
  BY PrecedesIs
<1>3. CASE kind = "prefix"
  <2>1. Rank(r) = <<2, -Len(r.text), 0>> /\ Rank(s) = <<2, -Len(s.text), 0>>
    BY <1>3 DEF Rank
  <2>2. Len(r.text) \in Nat /\ Len(s.text) \in Nat
    BY DEF IsRule
  <2>3. KindBeats(kind, r, s) <=> \/ Len(r.text) > Len(s.text)
                                  \/ Len(r.text) = Len(s.text) /\ r.order < s.order
    BY <1>1, <1>3 DEF KindBeats, PrefixBeats
  <2>4. Compares(Rank(r), Rank(s), r.order, s.order)
          <=> \/ -Len(r.text) < -Len(s.text)
              \/ -Len(r.text) = -Len(s.text) /\ r.order < s.order
    BY <2>1 DEF Compares
  <2> QED
    BY <1>2, <2>2, <2>3, <2>4
<1>4. CASE kind = "pattern"
  <2> DEFINE m(x) == CountMetacharacters(x.text)
             l(x) == LiteralPrefixLength(x.text)
  <2>1. Rank(r) = <<3, m(r), -l(r)>> /\ Rank(s) = <<3, m(s), -l(s)>>
    BY <1>4 DEF Rank
  <2>2. m(r) \in Nat /\ m(s) \in Nat /\ l(r) \in Nat /\ l(s) \in Nat
    BY MetacharactersAreNat, LiteralPrefixIsNat DEF IsRule
  <2>3. KindBeats(kind, r, s) <=> \/ m(r) < m(s)
                                  \/ m(r) = m(s) /\ l(r) > l(s)
                                  \/ m(r) = m(s) /\ l(r) = l(s) /\ r.order < s.order
    BY <1>1, <1>4 DEF KindBeats, PatternBeats
  <2> HIDE DEF m, l
  <2>4. Compares(Rank(r), Rank(s), r.order, s.order)
          <=> \/ m(r) < m(s)
              \/ m(r) = m(s) /\ -l(r) < -l(s)
              \/ m(r) = m(s) /\ -l(r) = -l(s) /\ r.order < s.order
    BY <2>1 DEF Compares
  <2> QED
    BY <1>2, <2>2, <2>3, <2>4
<1> QED
  BY <1>3, <1>4

\* The two loops that keep a best rule consider one rule of the list after the other.
LEMMA BestPrefixFold ==
    ASSUME NEW f, NEW list, IsList(list)
    PROVE  \E best : /\ Improves("prefix", f, list, best)
                     /\ PrefixOf(f, list) = best[Len(list)]
<1> DEFINE n == Len(list)
           how == [fold |-> "rules", kind |-> "prefix", field |-> f]
           Kept(best, r) == IF (r.kind = "prefix" /\ MatchesPrefix(f, r.text)) /\ PrefixBeats(r, best)
                             THEN r ELSE best
           Original(g) == g = [S \in SUBSET (DOMAIN list) |->
               IF S = {} THEN None ELSE Kept(g[S \ {Max(S)}], list[Max(S)])]
           iter == CHOOSE g : Original(g)
<1>1. n \in Nat /\ DOMAIN list = 1..n
  BY DEF IsList
<1>2. Start(how) = None
      /\ \A prior, item : /\ Stepped(how, prior, item) = Kept(prior, item)
                          /\ Stepped(how, prior, item) = Considered("prefix", f, prior, item)
  <2>1. Start(how) = None
    BY Zenon DEF Start
  <2>2. \A prior, item : Stepped(how, prior, item) = Considered("prefix", f, prior, item)
    BY Zenon DEF Stepped
  <2>3. \A prior, item : Considered("prefix", f, prior, item) = Kept(prior, item)
    BY Zenon DEF Considered, KindMatches, KindBeats
  <2> HIDE DEF how, Kept
  <2> QED
    BY <2>1, <2>2, <2>3
<1>3. PrefixOf(f, list) = iter[DOMAIN list]
  BY Zenon DEF PrefixOf, Best, FoldLeft, MapThenFoldSet
<1> HIDE DEF how, Kept
<1>4. \A g : Original(g) <=> IsUnfolding(how, g, list, n)
  BY <1>1, <1>2, Zenon DEF IsUnfolding, Unfolding
<1> HIDE DEF Original
<1>5. \E g : Original(g)
  <2>1. \E g : IsUnfolding(how, g, list, n)
    BY <1>1, UnfoldingExists, Zenon
  <2> QED
    BY <1>4, <2>1, Zenon
<1>6. Original(iter)
  BY <1>5, Zenon
<1> HIDE DEF iter
<1>7. PICK best : Folded(how, list, n, best) /\ iter[1..n] = best[n]
  BY <1>1, <1>4, <1>6, UnfoldingStages
<1>8. Improves("prefix", f, list, best)
  BY <1>2, <1>7 DEF Improves, Folded
<1> QED
  BY <1>1, <1>3, <1>7, <1>8

LEMMA BestPatternFold ==
    ASSUME NEW f, NEW list, IsList(list)
    PROVE  \E best : /\ Improves("pattern", f, list, best)
                     /\ PatternOf(f, list) = best[Len(list)]
<1> DEFINE n == Len(list)
           how == [fold |-> "rules", kind |-> "pattern", field |-> f]
           Kept(best, r) == IF (r.kind = "pattern" /\ MatchesPattern(f, r.text)) /\ PatternBeats(r, best)
                             THEN r ELSE best
           Original(g) == g = [S \in SUBSET (DOMAIN list) |->
               IF S = {} THEN None ELSE Kept(g[S \ {Max(S)}], list[Max(S)])]
           iter == CHOOSE g : Original(g)
<1>1. n \in Nat /\ DOMAIN list = 1..n
  BY DEF IsList
<1>2. Start(how) = None
      /\ \A prior, item : /\ Stepped(how, prior, item) = Kept(prior, item)
                          /\ Stepped(how, prior, item) = Considered("pattern", f, prior, item)
  <2>1. Start(how) = None
    BY Zenon DEF Start
  <2>2. \A prior, item : Stepped(how, prior, item) = Considered("pattern", f, prior, item)
    BY Zenon DEF Stepped
  <2>3. \A prior, item : Considered("pattern", f, prior, item) = Kept(prior, item)
    BY Zenon DEF Considered, KindMatches, KindBeats
  <2> HIDE DEF how, Kept
  <2> QED
    BY <2>1, <2>2, <2>3
<1>3. PatternOf(f, list) = iter[DOMAIN list]
  BY Zenon DEF PatternOf, Best, FoldLeft, MapThenFoldSet
<1> HIDE DEF how, Kept
<1>4. \A g : Original(g) <=> IsUnfolding(how, g, list, n)
  BY <1>1, <1>2, Zenon DEF IsUnfolding, Unfolding
<1> HIDE DEF Original
<1>5. \E g : Original(g)
  <2>1. \E g : IsUnfolding(how, g, list, n)
    BY <1>1, UnfoldingExists, Zenon
  <2> QED
    BY <1>4, <2>1, Zenon
<1>6. Original(iter)
  BY <1>5, Zenon
<1> HIDE DEF iter
<1>7. PICK best : Folded(how, list, n, best) /\ iter[1..n] = best[n]
  BY <1>1, <1>4, <1>6, UnfoldingStages
<1>8. Improves("pattern", f, list, best)
  BY <1>2, <1>7 DEF Improves, Folded
<1> QED
  BY <1>1, <1>3, <1>7, <1>8

\* What a list of rules is made of.
LEMMA RulesOfList ==
    ASSUME NEW list, IsRuleList(list)
    PROVE  /\ Len(list) \in Nat /\ DOMAIN list = 1..Len(list)
           /\ \A i \in 1..Len(list) : IsRule(list[i]) /\ list[i] # None /\ list[i].order \in Nat
           /\ \A i, j \in 1..Len(list) : j < i => list[j].order < list[i].order
           /\ \A i, j \in 1..Len(list) : j # i => list[j].order # list[i].order
<1>1. Len(list) \in Nat /\ DOMAIN list = 1..Len(list)
  BY DEF IsRuleList, IsList
<1>2. \A i \in 1..Len(list) : IsRule(list[i]) /\ list[i].order \in Nat
  BY <1>1 DEF IsRuleList, IsRule
<1>3. \A i \in 1..Len(list) : list[i] # None
  <2>1. None.kind = "none"
    BY DEF None
  <2>2. \A i \in 1..Len(list) : list[i].kind # "none"
    BY <1>2 DEF IsRule, RuleKinds
  <2> QED
    BY <2>1, <2>2
<1>4. ASSUME NEW i \in 1..Len(list), NEW j \in 1..Len(list), j < i
      PROVE list[j].order < list[i].order
  <2>1. j \in 1..(i - 1)
    BY <1>1, <1>4
  <2> QED
    BY <1>1, <2>1 DEF IsRuleList
<1>5. ASSUME NEW i \in 1..Len(list), NEW j \in 1..Len(list), j # i
      PROVE list[j].order # list[i].order
  <2>1. j < i \/ i < j
    BY <1>1, <1>5
  <2> QED
    BY <1>2, <1>4, <2>1
<1> QED
  BY <1>1, <1>2, <1>3, <1>4, <1>5

\* What a loop takes for a match is a rule that applies.
LEMMA MatchesMeansApplies ==
    ASSUME NEW f, f \in Seq(Range(f)), NEW r, IsRule(r), NEW kind \in {"prefix", "pattern"}
    PROVE  KindMatches(kind, f, r) <=> Applies(kind, f, r)
<1>1. r.text \in Seq(Range(r.text))
  BY DEF IsRule
<1>2. MatchesPattern(f, r.text) <=> MatchesByCuts(f, r.text)
  BY <1>1, PatternMeansCuts
<1>3. CASE kind = "prefix"
  BY <1>3 DEF KindMatches, Applies, Governs
<1>4. CASE kind = "pattern"
  BY <1>2, <1>4 DEF KindMatches, Applies, Governs
<1> QED
  BY <1>3, <1>4

\* The best so far is the rule that precedence puts first among those that apply so far.
LEMMA ImprovedIsForemost ==
    ASSUME NEW f, f \in Seq(Range(f)), NEW list, IsRuleList(list),
           NEW kind \in {"prefix", "pattern"}, NEW best, Improves(kind, f, list, best)
    PROVE  Foremost(kind, f, list, Len(list), best[Len(list)])
<1> DEFINE n == Len(list)
           A(j) == Applies(kind, f, list[j])
           good == {k \in Nat : k <= n => Foremost(kind, f, list, k, best[k])}
<1>1. /\ n \in Nat /\ DOMAIN list = 1..n
      /\ \A i \in 1..n : IsRule(list[i]) /\ list[i] # None
      /\ \A i, j \in 1..n : j # i => list[j].order # list[i].order
  BY RulesOfList
<1>2. \A j \in 1..n : KindMatches(kind, f, list[j]) <=> A(j)
  BY <1>1, MatchesMeansApplies
<1>3. /\ best[0] = None
      /\ \A k \in 0..(n - 1) : best[k + 1] = Considered(kind, f, best[k], list[k + 1])
  BY DEF Improves
<1>4. \A j \in 1..n : A(j) => list[j].kind = kind
  BY DEF Applies
<1>5. \A k, x : Foremost(kind, f, list, k, x) <=>
          \/ x = None /\ \A j \in 1..k : ~A(j)
          \/ \E m \in 1..k : /\ x = list[m] /\ A(m)
                             /\ \A j \in 1..k : A(j) /\ j # m => Precedes(list[m], list[j])
  BY DEF Foremost
<1> HIDE DEF A, n
<1>6. 0 \in good
  <2>1. 1..0 = {}
    OBVIOUS
  <2> QED
    BY <1>3, <1>5, <2>1
<1>7. ASSUME NEW k \in Nat, k + 1 <= n, Foremost(kind, f, list, k, best[k])
      PROVE  Foremost(kind, f, list, k + 1, best[k + 1])
  <2> DEFINE r == list[k + 1]
  <2>1. k \in 0..(n - 1) /\ k + 1 \in 1..n /\ k + 1 \in 1..(k + 1)
    BY <1>1, <1>7
  <2>2. 1..k \subseteq 1..n /\ 1..k \subseteq 1..(k + 1) /\ ~(k + 1 \in 1..k)
        /\ \A j \in 1..(k + 1) : j = k + 1 \/ j \in 1..k
    BY <1>1, <1>7
  <2>3. best[k + 1] = IF A(k + 1) /\ KindBeats(kind, r, best[k]) THEN r ELSE best[k]
    BY <1>2, <1>3, <2>1 DEF Considered
  <2>4. CASE best[k] = None /\ \A j \in 1..k : ~A(j)
    <3>1. KindBeats(kind, r, best[k])
      BY <2>4 DEF KindBeats, PrefixBeats, PatternBeats
    <3>2. CASE A(k + 1)
      <4>1. best[k + 1] = list[k + 1]
        BY <2>3, <3>1, <3>2
      <4>2. \A j \in 1..(k + 1) : A(j) /\ j # k + 1 => Precedes(list[k + 1], list[j])
        BY <2>2, <2>4
      <4> QED
        BY <1>5, <2>1, <3>2, <4>1, <4>2
    <3>3. CASE ~A(k + 1)
      <4>1. best[k + 1] = None
        BY <2>3, <2>4, <3>3
      <4>2. \A j \in 1..(k + 1) : ~A(j)
        BY <2>2, <2>4, <3>3
      <4> QED
        BY <1>5, <4>1, <4>2
    <3> QED
      BY <3>2, <3>3
  <2>5. ASSUME NEW m \in 1..k, best[k] = list[m], A(m),
               \A j \in 1..k : A(j) /\ j # m => Precedes(list[m], list[j])
        PROVE  Foremost(kind, f, list, k + 1, best[k + 1])
    <3>1. m \in 1..n /\ m # k + 1 /\ m \in 1..(k + 1)
      BY <2>2
    <3>2. ASSUME A(k + 1)
          PROVE  KindBeats(kind, r, list[m]) <=> Precedes(r, list[m])
      <4>1. IsRule(r) /\ IsRule(list[m]) /\ r.kind = kind /\ list[m].kind = kind
        BY <1>1, <1>4, <2>1, <2>5, <3>1, <3>2
      <4> HIDE DEF r
      <4> QED
        BY <4>1, BeatsIsPrecedes
    <3>3. CASE A(k + 1) /\ Precedes(r, list[m])
      <4>1. best[k + 1] = list[k + 1]
        BY <2>3, <2>5, <3>2, <3>3
      <4>2. ASSUME NEW j \in 1..(k + 1), A(j), j # k + 1 PROVE Precedes(list[k + 1], list[j])
        <5>1. j \in 1..k /\ j \in 1..n
          BY <2>2, <4>2
        <5>2. j # m => Precedes(list[m], list[j])
          BY <2>5, <4>2, <5>1
        <5>3. IsRule(list[k + 1]) /\ IsRule(list[m]) /\ IsRule(list[j])
          BY <1>1, <2>1, <3>1, <5>1
        <5> QED
          BY <3>3, <5>2, <5>3, PrecedesTransitive
      <4> QED
        BY <1>5, <2>1, <3>3, <4>1, <4>2
    <3>4. CASE ~(A(k + 1) /\ Precedes(r, list[m]))
      <4>1. best[k + 1] = list[m]
        BY <2>3, <2>5, <3>2, <3>4
      <4>2. ASSUME NEW j \in 1..(k + 1), A(j), j # m PROVE Precedes(list[m], list[j])
        <5>1. CASE j = k + 1
          <6>1. /\ IsRule(list[k + 1]) /\ IsRule(list[m])
                /\ list[m].order # list[k + 1].order
            BY <1>1, <2>1, <3>1
          <6>2. Precedes(list[m], list[k + 1]) \/ Precedes(list[k + 1], list[m])
            BY <6>1, PrecedesTotal
          <6> QED
            BY <3>4, <4>2, <5>1, <6>2
        <5>2. CASE j # k + 1
          BY <2>2, <2>5, <4>2, <5>2
        <5> QED
          BY <5>1, <5>2
      <4> QED
        BY <1>5, <2>5, <3>1, <4>1, <4>2
    <3> QED
      BY <3>3, <3>4
  <2> QED
    BY <1>5, <1>7, <2>4, <2>5
<1>8. \A k \in good : k + 1 \in good
  <2> SUFFICES ASSUME NEW k \in good, k + 1 <= n
               PROVE  Foremost(kind, f, list, k + 1, best[k + 1])
    OBVIOUS
  <2>1. k \in Nat /\ k <= n
    BY <1>1
  <2>2. Foremost(kind, f, list, k, best[k])
    BY <2>1
  <2> QED
    BY <1>7, <2>1, <2>2
<1>9. good \subseteq Nat /\ \A k \in good : k <= n => Foremost(kind, f, list, k, best[k])
  OBVIOUS
<1> HIDE DEF good
<1>10. good = Nat
  BY <1>6, <1>8, <1>9, SetInduction
<1> QED
  BY <1>1, <1>9, <1>10 DEF n

\* The first rule of a kind whose rules all rank the same.
LEMMA EarliestIsForemost ==
    ASSUME NEW f, NEW list, IsRuleList(list), NEW kind \in {"exact", "default"},
           NEW i \in 1..Len(list), Applies(kind, f, list[i]),
           \A j \in 1..(i - 1) : ~Applies(kind, f, list[j])
    PROVE  Foremost(kind, f, list, Len(list), list[i])
<1>1. /\ Len(list) \in Nat
      /\ \A j \in 1..Len(list) : IsRule(list[j])
      /\ \A j, k \in 1..Len(list) : j < k => list[j].order < list[k].order
  BY RulesOfList
<1>2. ASSUME NEW j \in 1..Len(list), Applies(kind, f, list[j]), j # i
      PROVE  Precedes(list[i], list[j])
  <2>1. ~(j \in 1..(i - 1))
    BY <1>2
  <2>2. i < j
    BY <1>1, <1>2, <2>1
  <2>3. /\ IsRule(list[i]) /\ IsRule(list[j]) /\ list[i].order < list[j].order
        /\ list[i].kind = list[j].kind /\ list[i].kind \in {"exact", "default"}
    BY <1>1, <1>2, <2>2 DEF Applies
  <2> QED
    BY <2>3, FirstPrecedes
<1> QED
  BY <1>2 DEF Foremost

\* Of some positions one is the earliest.
LEMMA EarliestExists ==
    ASSUME NEW n \in Nat, NEW S \in SUBSET (1..n), S # {}
    PROVE  \E i \in S : \A j \in 1..(i - 1) : ~(j \in S)
<1>1. S \in SUBSET Nat
  OBVIOUS
<1>2. PICK i \in S : \A j \in S : i <= j
  BY <1>1, SmallestNat
<1>3. \A j \in 1..(i - 1) : ~(j \in S)
  BY <1>1, <1>2
<1> QED
  BY <1>2, <1>3

\* The exact rule and the default that are found are the first of their kind.
LEMMA FirstExact ==
    ASSUME NEW f, NEW list, IsRuleList(list)
    PROVE  Foremost("exact", f, list, Len(list), ExactOf(f, list))
<1> DEFINE n == Len(list)
           M(r) == r.kind = "exact" /\ r.text = f
           P(i) == M(list[i]) /\ \A j \in 1..(i - 1) : ~M(list[j])
           x == ExactOf(f, list)
<1>1. n \in Nat /\ DOMAIN list = 1..n
  BY RulesOfList
<1>2. \A r : M(r) <=> Applies("exact", f, r)
  BY DEF Applies, Governs
<1>3. x = IF \E i \in DOMAIN list : M(list[i])
          THEN list[CHOOSE i \in DOMAIN list : P(i)] ELSE None
  BY Zenon DEF First, ExactOf
<1> HIDE DEF x, M
<1>4. CASE \A i \in 1..n : ~M(list[i])
  <2>1. x = None /\ \A j \in 1..n : ~Applies("exact", f, list[j])
    BY <1>1, <1>2, <1>3, <1>4
  <2> QED
    BY <2>1 DEF Foremost, x
<1>5. CASE \E i \in 1..n : M(list[i])
  <2>1. \E i \in DOMAIN list : P(i)
    <3> DEFINE S == {i \in 1..n : M(list[i])}
    <3>1. S \in SUBSET (1..n) /\ S # {}
      BY <1>5
    <3>2. PICK i \in S : \A j \in 1..(i - 1) : ~(j \in S)
      BY <1>1, <3>1, EarliestExists
    <3>3. \A j \in 1..(i - 1) : j \in 1..n
      BY <1>1
    <3> QED
      BY <1>1, <3>2, <3>3
  <2>2. PICK i \in DOMAIN list : P(i) /\ x = list[i]
    <3>1. P(CHOOSE i \in DOMAIN list : P(i)) /\ (CHOOSE i \in DOMAIN list : P(i)) \in DOMAIN list
      BY <2>1, Zenon
    <3>2. x = list[CHOOSE i \in DOMAIN list : P(i)]
      BY <1>1, <1>3, <1>5
    <3> HIDE DEF P
    <3> QED
      BY <3>1, <3>2, Zenon
  <2>3. /\ i \in 1..Len(list) /\ Applies("exact", f, list[i])
        /\ \A j \in 1..(i - 1) : ~Applies("exact", f, list[j])
    BY <1>1, <1>2, <2>2
  <2>4. Foremost("exact", f, list, Len(list), list[i])
    BY <2>3, EarliestIsForemost
  <2> QED
    BY <2>2, <2>4 DEF x
<1> QED
  BY <1>4, <1>5

LEMMA FirstDefault ==
    ASSUME NEW f, NEW list, IsRuleList(list)
    PROVE  Foremost("default", f, list, Len(list), DefaultOf(f, list))
<1> DEFINE n == Len(list)
           M(r) == r.kind = "default"
           P(i) == M(list[i]) /\ \A j \in 1..(i - 1) : ~M(list[j])
           x == DefaultOf(f, list)
<1>1. n \in Nat /\ DOMAIN list = 1..n
  BY RulesOfList
<1>2. \A r : M(r) <=> Applies("default", f, r)
  BY DEF Applies, Governs
<1>3. x = IF \E i \in DOMAIN list : M(list[i])
          THEN list[CHOOSE i \in DOMAIN list : P(i)] ELSE None
  BY Zenon DEF First, DefaultOf
<1> HIDE DEF x, M
<1>4. CASE \A i \in 1..n : ~M(list[i])
  <2>1. x = None /\ \A j \in 1..n : ~Applies("default", f, list[j])
    BY <1>1, <1>2, <1>3, <1>4
  <2> QED
    BY <2>1 DEF Foremost, x
<1>5. CASE \E i \in 1..n : M(list[i])
  <2>1. \E i \in DOMAIN list : P(i)
    <3> DEFINE S == {i \in 1..n : M(list[i])}
    <3>1. S \in SUBSET (1..n) /\ S # {}
      BY <1>5
    <3>2. PICK i \in S : \A j \in 1..(i - 1) : ~(j \in S)
      BY <1>1, <3>1, EarliestExists
    <3>3. \A j \in 1..(i - 1) : j \in 1..n
      BY <1>1
    <3> QED
      BY <1>1, <3>2, <3>3
  <2>2. PICK i \in DOMAIN list : P(i) /\ x = list[i]
    <3>1. P(CHOOSE i \in DOMAIN list : P(i)) /\ (CHOOSE i \in DOMAIN list : P(i)) \in DOMAIN list
      BY <2>1, Zenon
    <3>2. x = list[CHOOSE i \in DOMAIN list : P(i)]
      BY <1>1, <1>3, <1>5
    <3> HIDE DEF P
    <3> QED
      BY <3>1, <3>2, Zenon
  <2>3. /\ i \in 1..Len(list) /\ Applies("default", f, list[i])
        /\ \A j \in 1..(i - 1) : ~Applies("default", f, list[j])
    BY <1>1, <1>2, <2>2
  <2>4. Foremost("default", f, list, Len(list), list[i])
    BY <2>3, EarliestIsForemost
  <2> QED
    BY <2>2, <2>4 DEF x
<1> QED
  BY <1>4, <1>5

\* Which rule is resolved.
LEMMA ResolvedIsFirst ==
    ASSUME NEW f, f \in Seq(Range(f)), NEW list, IsRuleList(list)
    PROVE  \/ /\ ResolveRule(f, list) = None
              /\ \A i \in 1..Len(list) : ~Governs(f, list[i])
           \/ \E i \in 1..Len(list) :
                 /\ ResolveRule(f, list) = list[i] /\ Governs(f, list[i])
                 /\ \A j \in 1..Len(list) :
                       Governs(f, list[j]) /\ j # i => Precedes(list[i], list[j])
<1> DEFINE n == Len(list)
           exact == ExactOf(f, list)
           prefix == PrefixOf(f, list)
           pattern == PatternOf(f, list)
           default == DefaultOf(f, list)
           A(kind, i) == Applies(kind, f, list[i])
           G(i) == Governs(f, list[i])
<1>1. /\ n \in Nat /\ DOMAIN list = 1..n
      /\ \A i \in 1..n : IsRule(list[i]) /\ list[i] # None
  BY RulesOfList
<1>2. Foremost("exact", f, list, n, exact) /\ Foremost("default", f, list, n, default)
  BY FirstExact, FirstDefault
<1>3. Foremost("prefix", f, list, n, prefix)
  <2>1. PICK best : Improves("prefix", f, list, best) /\ prefix = best[n]
    <3>1. IsList(list)
      BY DEF IsRuleList
    <3> QED
      BY <3>1, BestPrefixFold
  <2> HIDE DEF prefix
  <2> QED
    BY <2>1, ImprovedIsForemost
<1>4. Foremost("pattern", f, list, n, pattern)
  <2>1. PICK best : Improves("pattern", f, list, best) /\ pattern = best[n]
    <3>1. IsList(list)
      BY DEF IsRuleList
    <3> QED
      BY <3>1, BestPatternFold
  <2> HIDE DEF pattern
  <2> QED
    BY <2>1, ImprovedIsForemost
<1>5. ResolveRule(f, list)
        = CASE exact # None -> exact
            [] exact = None /\ prefix # None -> prefix
            [] exact = None /\ prefix = None /\ pattern # None -> pattern
            [] OTHER -> default
  BY Zenon DEF ResolveRule, ExactOf, PrefixOf, PatternOf, DefaultOf, First, Best
<1>6. \A kind, x : Foremost(kind, f, list, n, x) <=>
          \/ x = None /\ \A j \in 1..n : ~A(kind, j)
          \/ \E m \in 1..n : /\ x = list[m] /\ A(kind, m)
                             /\ \A j \in 1..n : A(kind, j) /\ j # m => Precedes(list[m], list[j])
  BY DEF Foremost
<1>7. \A i \in 1..n : G(i) <=> \/ A("exact", i) \/ A("prefix", i)
                               \/ A("pattern", i) \/ A("default", i)
  BY <1>1 DEF Applies, IsRule, RuleKinds
<1>8. \A kind, i : A(kind, i) => list[i].kind = kind
  BY DEF Applies
<1> DEFINE Resolved(x) ==
        \E i \in 1..n : /\ x = list[i] /\ G(i)
                        /\ \A j \in 1..n : G(j) /\ j # i => Precedes(list[i], list[j])
<1> HIDE DEF exact, prefix, pattern, default, A, G, n
<1>9. exact # None => Resolved(exact)
  <2> SUFFICES ASSUME exact # None PROVE Resolved(exact)
    OBVIOUS
  <2>1. PICK m \in 1..n :
           /\ exact = list[m] /\ A("exact", m)
           /\ \A j \in 1..n : A("exact", j) /\ j # m => Precedes(list[m], list[j])
    BY <1>2, <1>6
  <2>2. ASSUME NEW j \in 1..n, ~A("exact", j), G(j) PROVE Precedes(list[m], list[j])
    <3>1. /\ IsRule(list[m]) /\ IsRule(list[j])
          /\ list[m].kind = "exact" /\ list[j].kind # "exact"
      BY <1>1, <1>7, <1>8, <2>1, <2>2
    <3> QED
      BY <3>1, KindPrecedes
  <2> QED
    BY <1>7, <2>1, <2>2
<1>10. exact = None => \A j \in 1..n : ~A("exact", j)
  BY <1>1, <1>2, <1>6
<1>11. exact = None /\ prefix # None => Resolved(prefix)
  <2> SUFFICES ASSUME exact = None, prefix # None PROVE Resolved(prefix)
    OBVIOUS
  <2>1. PICK m \in 1..n :
           /\ prefix = list[m] /\ A("prefix", m)
           /\ \A j \in 1..n : A("prefix", j) /\ j # m => Precedes(list[m], list[j])
    BY <1>3, <1>6
  <2>2. ASSUME NEW j \in 1..n, ~A("prefix", j), G(j) PROVE Precedes(list[m], list[j])
    <3>1. /\ IsRule(list[m]) /\ IsRule(list[j])
          /\ list[m].kind = "prefix" /\ list[j].kind \in {"pattern", "default"}
      BY <1>1, <1>7, <1>8, <1>10, <2>1, <2>2
    <3> QED
      BY <3>1, KindPrecedes
  <2> QED
    BY <1>7, <2>1, <2>2
<1>12. prefix = None => \A j \in 1..n : ~A("prefix", j)
  BY <1>1, <1>3, <1>6
<1>13. exact = None /\ prefix = None /\ pattern # None => Resolved(pattern)
  <2> SUFFICES ASSUME exact = None, prefix = None, pattern # None
               PROVE Resolved(pattern)
    OBVIOUS
  <2>1. PICK m \in 1..n :
           /\ pattern = list[m] /\ A("pattern", m)
           /\ \A j \in 1..n : A("pattern", j) /\ j # m => Precedes(list[m], list[j])
    BY <1>4, <1>6
  <2>2. ASSUME NEW j \in 1..n, ~A("pattern", j), G(j) PROVE Precedes(list[m], list[j])
    <3>1. /\ IsRule(list[m]) /\ IsRule(list[j])
          /\ list[m].kind = "pattern" /\ list[j].kind = "default"
      BY <1>1, <1>7, <1>8, <1>10, <1>12, <2>1, <2>2
    <3> QED
      BY <3>1, KindPrecedes
  <2> QED
    BY <1>7, <2>1, <2>2
<1>14. pattern = None => \A j \in 1..n : ~A("pattern", j)
  BY <1>1, <1>4, <1>6
<1>15. ASSUME exact = None, prefix = None, pattern = None
       PROVE  \/ default = None /\ \A j \in 1..n : ~G(j)
              \/ Resolved(default)
  <2>1. \A j \in 1..n : G(j) <=> A("default", j)
    BY <1>7, <1>10, <1>12, <1>14, <1>15
  <2> QED
    BY <1>2, <1>6, <2>1
<1>16. \/ ResolveRule(f, list) = None /\ \A j \in 1..n : ~G(j)
       \/ Resolved(ResolveRule(f, list))
  BY <1>5, <1>9, <1>11, <1>13, <1>15
<1> QED
  BY <1>16 DEF G, n

\* Whatever the rules and the field, the rule that matching.rs resolves is the one the
\* documented precedence puts first among those that apply, where a pattern applies
\* exactly if the field can be cut into one segment for each of its tokens.
THEOREM RuleByPrecedence == Spec => []ResolvesByPrecedence
<1>1. Answered => ResolvesByPrecedence
  <2> SUFFICES ASSUME Answered, Returned("rule") PROVE ResolvesByPrecedence
    BY DEF ResolvesByPrecedence
  <2> DEFINE f == call.field
             rules == call.rules
  <2>1. result = ResolveRule(f, rules) /\ call \in Calls /\ call.kind = "rule"
    BY DEF Answered, Returned
  <2>2. f \in Seq(Range(f)) /\ IsRuleList(rules)
    BY <2>1, RuleAssumption DEF IsRuleList, IsRule, RuleKinds
  <2>3. DOMAIN rules = 1..Len(rules)
    BY <2>2, RulesOfList
  <2> HIDE DEF f, rules
  <2>4. \/ /\ result = None
           /\ \A i \in 1..Len(rules) : ~Governs(f, rules[i])
        \/ \E i \in 1..Len(rules) :
              /\ result = rules[i] /\ Governs(f, rules[i])
              /\ \A j \in 1..Len(rules) :
                    Governs(f, rules[j]) /\ j # i => Precedes(rules[i], rules[j])
    BY <2>1, <2>2, ResolvedIsFirst
  <2> DEFINE governing == {i \in DOMAIN rules : Governs(f, rules[i])}
  <2>5. IF governing = {} THEN result = None
        ELSE \E i \in governing :
                result = rules[i] /\ \A j \in governing \ {i} : Precedes(rules[i], rules[j])
    BY <2>3, <2>4
  <2> QED
    BY <2>5, Zenon DEF ResolvesByPrecedence, f, rules
<1> QED
  BY <1>1, AnsweredAlways, PTL

-----------------------------------------------------------------------------
(* The bytes of a text.                                                     *)

\* The length of a text in bytes is the last of these sums.
LEMMA ByteFold ==
    ASSUME NEW text, IsList(text)
    PROVE  \E sum : Sums(text, sum) /\ ByteLength(text) = sum[Len(text)]
<1> DEFINE n == Len(text)
           how == [fold |-> "bytes"]
           Nothing == 0
           Added(prior, item) == prior + Width(item)
           Original(g) == g = [S \in SUBSET (DOMAIN text) |->
               IF S = {} THEN Nothing ELSE Added(g[S \ {Max(S)}], text[Max(S)])]
           iter == CHOOSE g : Original(g)
<1>1. n \in Nat /\ DOMAIN text = 1..n
  BY DEF IsList
<1>2. /\ Start(how) = Nothing
      /\ \A prior, item : Stepped(how, prior, item) = Added(prior, item)
  BY Zenon DEF Start, Stepped
<1>3. ByteLength(text) = iter[DOMAIN text]
  BY Zenon DEF ByteLength, FoldLeft, MapThenFoldSet
<1> HIDE DEF how, Nothing, Added
<1>4. \A g : Original(g) <=> IsUnfolding(how, g, text, n)
  BY <1>1, <1>2, Zenon DEF IsUnfolding, Unfolding
<1> HIDE DEF Original
<1>5. \E g : Original(g)
  <2>1. \E g : IsUnfolding(how, g, text, n)
    BY <1>1, UnfoldingExists, Zenon
  <2> QED
    BY <1>4, <2>1, Zenon
<1>6. Original(iter)
  BY <1>5, Zenon
<1> HIDE DEF iter
<1>7. PICK sum : Folded(how, text, n, sum) /\ iter[1..n] = sum[n]
  BY <1>1, <1>4, <1>6, UnfoldingStages
<1>8. Sums(text, sum)
  BY <1>2, <1>7 DEF Sums, Folded, Nothing, Added
<1> QED
  BY <1>1, <1>3, <1>7, <1>8

\* A character takes at least one byte.
LEMMA WidthType == \A ch : Width(ch) \in Nat \ {0}
  BY DEF Width

\* No fewer bytes than characters,
LEMMA SumsAtLeast ==
    ASSUME NEW text, IsList(text), NEW sum, Sums(text, sum)
    PROVE  \A k \in 0..Len(text) : sum[k] \in Nat /\ sum[k] >= k
<1> DEFINE n == Len(text)
           good == {k \in Nat : k <= n => sum[k] \in Nat /\ sum[k] >= k}
<1>1. n \in Nat
  BY DEF IsList
<1>2. /\ sum[0] = 0
      /\ \A k \in 0..(n - 1) : sum[k + 1] = sum[k] + Width(text[k + 1])
  BY DEF Sums
<1> HIDE DEF n
<1>3. 0 \in good
  BY <1>2
<1>4. ASSUME NEW k \in Nat, k + 1 <= n, sum[k] \in Nat, sum[k] >= k
      PROVE  sum[k + 1] \in Nat /\ sum[k + 1] >= k + 1
  <2>1. k \in 0..(n - 1)
    BY <1>1, <1>4
  <2>2. sum[k + 1] = sum[k] + Width(text[k + 1]) /\ Width(text[k + 1]) \in Nat \ {0}
    BY <1>2, <2>1, WidthType
  <2> QED
    BY <1>4, <2>2
<1>5. \A k \in good : k + 1 \in good
  <2> SUFFICES ASSUME NEW k \in good, k + 1 <= n
               PROVE  sum[k + 1] \in Nat /\ sum[k + 1] >= k + 1
    OBVIOUS
  <2>1. k \in Nat /\ sum[k] \in Nat /\ sum[k] >= k
    BY <1>1
  <2> QED
    BY <1>4, <2>1
<1>6. good \subseteq Nat /\ \A k \in good : k <= n => sum[k] \in Nat /\ sum[k] >= k
  OBVIOUS
<1> HIDE DEF good
<1>7. good = Nat
  BY <1>3, <1>5, <1>6, SetInduction
<1> QED
  BY <1>1, <1>6, <1>7 DEF n

\* more of them if any character is wide,
LEMMA SumsAbove ==
    ASSUME NEW text, IsList(text), NEW sum, Sums(text, sum),
           NEW i \in 1..Len(text), Width(text[i]) > 1
    PROVE  sum[Len(text)] > Len(text)
<1> DEFINE n == Len(text)
           good == {k \in Nat : i <= k /\ k <= n => sum[k] > k}
<1>1. n \in Nat /\ i \in 1..n
  BY DEF IsList
<1>2. \A k \in 0..(n - 1) : sum[k + 1] = sum[k] + Width(text[k + 1])
  BY DEF Sums
<1>3. \A k \in 0..n : sum[k] \in Nat /\ sum[k] >= k
  BY SumsAtLeast
<1> HIDE DEF n
<1>4. 0 \in good
  BY <1>1
<1>5. \A k \in good : k + 1 \in good
  <2> SUFFICES ASSUME NEW k \in good, i <= k + 1, k + 1 <= n PROVE sum[k + 1] > k + 1
    OBVIOUS
  <2>1. k \in 0..(n - 1) /\ k \in 0..n /\ (i <= k => sum[k] > k) /\ (i = k + 1 \/ i <= k)
    BY <1>1
  <2>2. /\ sum[k + 1] = sum[k] + Width(text[k + 1]) /\ Width(text[k + 1]) \in Nat \ {0}
        /\ sum[k] \in Nat /\ sum[k] >= k
    BY <1>2, <1>3, <2>1, WidthType
  <2>3. CASE i = k + 1
    <3>1. Width(text[k + 1]) > 1
      BY <2>3
    <3> QED
      BY <2>1, <2>2, <3>1
  <2>4. CASE i <= k
    BY <2>1, <2>2, <2>4
  <2> QED
    BY <2>1, <2>3, <2>4
<1>6. good \subseteq Nat /\ \A k \in good : i <= k /\ k <= n => sum[k] > k
  OBVIOUS
<1> HIDE DEF good
<1>7. good = Nat
  BY <1>4, <1>5, <1>6, SetInduction
<1> QED
  BY <1>1, <1>6, <1>7 DEF n

\* and as many if none is.
LEMMA SumsNarrow ==
    ASSUME NEW text, IsList(text), NEW sum, Sums(text, sum),
           \A i \in 1..Len(text) : Width(text[i]) = 1
    PROVE  sum[Len(text)] = Len(text)
<1> DEFINE n == Len(text)
           good == {k \in Nat : k <= n => sum[k] = k}
<1>1. n \in Nat
  BY DEF IsList
<1>2. /\ sum[0] = 0
      /\ \A k \in 0..(n - 1) : sum[k + 1] = sum[k] + Width(text[k + 1])
  BY DEF Sums
<1>3. \A i \in 1..n : Width(text[i]) = 1
  OBVIOUS
<1> HIDE DEF n
<1>4. 0 \in good
  BY <1>2
<1>5. \A k \in good : k + 1 \in good
  <2> SUFFICES ASSUME NEW k \in good, k + 1 <= n PROVE sum[k + 1] = k + 1
    OBVIOUS
  <2>1. k \in 0..(n - 1) /\ k + 1 \in 1..n /\ sum[k] = k
    BY <1>1
  <2>2. sum[k + 1] = sum[k] + Width(text[k + 1]) /\ Width(text[k + 1]) = 1
    BY <1>2, <1>3, <2>1
  <2> QED
    BY <2>1, <2>2
<1>6. good \subseteq Nat /\ \A k \in good : k <= n => sum[k] = k
  OBVIOUS
<1> HIDE DEF good
<1>7. good = Nat
  BY <1>4, <1>5, <1>6, SetInduction
<1> QED
  BY <1>1, <1>6, <1>7 DEF n

\* A text has as many bytes as characters exactly if it has no wide ones.
LEMMA Narrow ==
    ASSUME NEW text, IsList(text)
    PROVE  /\ ByteLength(text) \in Nat /\ ByteLength(text) >= Len(text)
           /\ ByteLength(text) = Len(text) <=> \A i \in 1..Len(text) : Width(text[i]) = 1
<1>1. PICK sum : Sums(text, sum) /\ ByteLength(text) = sum[Len(text)]
  BY ByteFold
<1>2. Len(text) \in Nat /\ Len(text) \in 0..Len(text)
  BY DEF IsList
<1>3. ByteLength(text) \in Nat /\ ByteLength(text) >= Len(text)
  BY <1>1, <1>2, SumsAtLeast
<1>4. (\A i \in 1..Len(text) : Width(text[i]) = 1) => ByteLength(text) = Len(text)
  BY <1>1, SumsNarrow
<1>5. ASSUME NEW i \in 1..Len(text), Width(text[i]) # 1 PROVE ByteLength(text) # Len(text)
  <2>1. Width(text[i]) > 1
    BY <1>5, WidthType
  <2>2. ByteLength(text) > Len(text)
    BY <1>1, <2>1, SumsAbove
  <2> QED
    BY <1>2, <1>3, <2>2
<1> QED
  BY <1>3, <1>4, <1>5

-----------------------------------------------------------------------------
(* Cutting a text at a character.                                           *)

\* The least of a set of naturals.
LEMMA MinIs ==
    ASSUME NEW S \in SUBSET Nat, S # {}
    PROVE  Min(S) \in S /\ \A i \in S : Min(S) <= i
<1>1. \E m \in S : \A i \in S : m <= i
  BY SmallestNat
<1> QED
  BY <1>1, Zenon DEF Min

-----------------------------------------------------------------------------
(* Splitting a text.                                                        *)

\* The next cut, if there is one, lies ahead.
LEMMA NextCutAhead ==
    ASSUME NEW text, Len(text) \in Nat, NEW ch, NEW i \in Nat \ {0},
           NextCuts(text, ch, i) # {}
    PROVE  LET m == Min(NextCuts(text, ch, i))
           IN  /\ m \in i..Len(text) /\ text[m] = ch
               /\ \A j \in i..(m - 1) : text[j] # ch
               /\ m + 1 \in (i + 1)..(Len(text) + 1)
<1> DEFINE S == NextCuts(text, ch, i)
           m == Min(S)
<1>1. S \in SUBSET Nat /\ S # {}
  BY DEF NextCuts
<1>2. m \in S /\ \A j \in S : m <= j
  BY <1>1, MinIs
<1>3. \A j : j \in S <=> j \in i..Len(text) /\ text[j] = ch
  BY DEF NextCuts
<1> HIDE DEF S, m
<1>4. m \in i..Len(text) /\ text[m] = ch
  BY <1>2, <1>3
<1>5. \A j \in i..(m - 1) : text[j] # ch
  <2> TAKE j \in i..(m - 1)
  <2>1. j \in i..Len(text) /\ ~(m <= j)
    BY <1>4
  <2> QED
    BY <1>2, <1>3, <2>1
<1>6. m + 1 \in (i + 1)..(Len(text) + 1)
  BY <1>4
<1> QED
  BY <1>4, <1>5, <1>6 DEF m, S

\* There is such a function: from the end of the text, each cut is followed by known ones.
LEMMA SplitExists ==
    ASSUME NEW text, Len(text) \in Nat, NEW ch
    PROVE  \E from : IsSplit(text, ch, 1, from)
<1> DEFINE h == Len(text) + 1
           N(i) == NextCuts(text, ch, i)
           C(i, rest) == Cutting(text, ch, i, rest)
           D == {d \in Nat : d < h => \E g : IsSplit(text, ch, h - d, g)}
<1>1. h \in Nat /\ h > 0
  OBVIOUS
<1>2. \A d \in Nat : d \in D <=> (d < h => \E g : IsSplit(text, ch, h - d, g))
  OBVIOUS
<1>3. D \subseteq Nat
  OBVIOUS
<1>4. \A lo, g : IsSplit(text, ch, lo, g) <=> g = [i \in lo..h |-> C(i, g[Min(N(i)) + 1])]
  BY DEF IsSplit
<1>5. \A i, x, y : N(i) = {} => C(i, x) = C(i, y)
  BY DEF Cutting
<1>6. N(h) = {}
  BY DEF NextCuts
<1>7. \A i \in Nat \ {0} : N(i) # {} => Min(N(i)) + 1 \in (i + 1)..h
  BY NextCutAhead
<1> HIDE DEF D, N, C, h
<1>8. 0 \in D
  <2> DEFINE g == [i \in h..h |-> C(i, <<>>)]
  <2>1. \A i \in h..h : i = h
    BY <1>1
  <2>2. \A i \in h..h : C(i, <<>>) = C(i, g[Min(N(i)) + 1])
    BY <1>5, <1>6, <2>1
  <2>3. g = [i \in h..h |-> C(i, g[Min(N(i)) + 1])]
    BY <2>2
  <2> HIDE DEF g
  <2>4. IsSplit(text, ch, h, g)
    BY <1>4, <2>3
  <2>5. h - 0 = h
    BY <1>1
  <2> QED
    BY <1>2, <2>4, <2>5
<1>9. ASSUME NEW d \in Nat, d + 1 < h, NEW g, IsSplit(text, ch, h - d, g)
      PROVE  \E all : IsSplit(text, ch, h - (d + 1), all)
  <2> DEFINE lo == h - (d + 1)
             all == [i \in lo..h |-> IF i = lo THEN C(i, g[Min(N(i)) + 1]) ELSE g[i]]
  <2>1. lo \in Nat /\ lo >= 1 /\ lo < h /\ h - d = lo + 1
    BY <1>1, <1>9
  <2> HIDE DEF lo
  <2>2. \A i \in (lo + 1)..h : g[i] = C(i, g[Min(N(i)) + 1])
    <3>1. IsSplit(text, ch, lo + 1, g)
      BY <1>9, <2>1
    <3>2. g = [i \in (lo + 1)..h |-> C(i, g[Min(N(i)) + 1])]
      BY <1>4, <3>1, Zenon
    <3> QED
      BY <3>2, Zenon
  <2>3. \A i \in (lo + 1)..h : all[i] = g[i]
    BY <1>1, <2>1
  <2>4. \A i \in lo..h : i \in Nat \ {0} /\ (i + 1)..h \subseteq (lo + 1)..h
    BY <1>1, <2>1
  <2>5. \A i \in lo..h : all[i] = C(i, g[Min(N(i)) + 1])
    <3> TAKE i \in lo..h
    <3>1. CASE i = lo
      BY <3>1
    <3>2. CASE i # lo
      <4>1. i \in (lo + 1)..h
        BY <1>1, <2>1, <3>2
      <4> HIDE DEF all
      <4> QED
        BY <2>2, <2>3, <4>1
    <3> QED
      BY <3>1, <3>2
  <2>6. all = [i \in lo..h |-> all[i]]
    OBVIOUS
  <2> HIDE DEF all
  <2>7. \A i \in lo..h : C(i, g[Min(N(i)) + 1]) = C(i, all[Min(N(i)) + 1])
    <3> TAKE i \in lo..h
    <3>1. CASE N(i) = {}
      BY <1>5, <3>1
    <3>2. CASE N(i) # {}
      <4>1. Min(N(i)) + 1 \in (lo + 1)..h
        BY <1>7, <2>4, <3>2
      <4> QED
        BY <2>3, <4>1
    <3> QED
      BY <3>1, <3>2
  <2>8. \A i \in lo..h : all[i] = C(i, all[Min(N(i)) + 1])
    BY <2>5, <2>7
  <2>9. all = [i \in lo..h |-> C(i, all[Min(N(i)) + 1])]
    BY <2>6, <2>8
  <2>10. IsSplit(text, ch, lo, all)
    BY <1>4, <2>9
  <2> QED
    BY <2>10 DEF lo
<1>10. \A d \in D : d + 1 \in D
  <2> SUFFICES ASSUME NEW d \in D, d + 1 < h
               PROVE  \E all : IsSplit(text, ch, h - (d + 1), all)
    BY <1>2, <1>3
  <2>1. d \in Nat /\ d < h
    BY <1>1, <1>3
  <2>2. PICK g : IsSplit(text, ch, h - d, g)
    BY <1>2, <2>1
  <2> QED
    BY <1>9, <2>1, <2>2
<1>11. h - 1 \in D /\ h - 1 < h /\ h - (h - 1) = 1 /\ h - 1 \in Nat
  <2>1. D = Nat
    BY <1>3, <1>8, <1>10, SetInduction
  <2> QED
    BY <1>1, <2>1
<1> QED
  BY <1>2, <1>11

\* Each of its values is a sequence of texts, and not empty.
LEMMA SplitTyped ==
    ASSUME NEW S, NEW text \in Seq(S), NEW ch, NEW from, IsSplit(text, ch, 1, from)
    PROVE  \A i \in 1..(Len(text) + 1) : from[i] \in Seq(Seq(S)) /\ Len(from[i]) >= 1
<1> DEFINE h == Len(text) + 1
           N(i) == NextCuts(text, ch, i)
           Typed(i) == from[i] \in Seq(Seq(S)) /\ Len(from[i]) >= 1
           D == {d \in Nat : \A i \in 1..h : h - d <= i => Typed(i)}
<1>1. h \in Nat /\ h > 0 /\ Len(text) \in Nat
  OBVIOUS
<1>2. \A d : d \in D <=> d \in Nat /\ \A i \in 1..h : h - d <= i => Typed(i)
  OBVIOUS
<1>3. \A i \in 1..h : from[i] = Cutting(text, ch, i, from[Min(N(i)) + 1])
  BY DEF IsSplit
<1>4. \A i, j : i \in 1..h /\ j \in Int /\ j <= Len(text) => SubSeq(text, i, j) \in Seq(S)
  OBVIOUS
<1>5. \A i \in 1..h : N(i) # {} => /\ Min(N(i)) + 1 \in (i + 1)..h
                                  /\ Min(N(i)) - 1 \in Int /\ Min(N(i)) - 1 <= Len(text)
  <2> TAKE i \in 1..h
  <2>1. i \in Nat \ {0}
    OBVIOUS
  <2>2. N(i) # {} => Min(N(i)) \in i..Len(text) /\ Min(N(i)) + 1 \in (i + 1)..h
    BY <1>1, <2>1, NextCutAhead
  <2> HIDE DEF N
  <2> QED
    BY <1>1, <2>2
<1>6. ASSUME NEW i \in 1..h, N(i) # {} => Typed(Min(N(i)) + 1)
      PROVE  Typed(i)
  <2>1. CASE N(i) = {}
    <3> DEFINE s == SubSeq(text, i, Len(text))
    <3>1. from[i] = <<s>>
      BY <1>3, <2>1 DEF Cutting
    <3>2. s \in Seq(S)
      BY <1>1, <1>4
    <3> HIDE DEF s
    <3> QED
      BY <3>1, <3>2
  <2>2. CASE N(i) # {}
    <3> DEFINE s == SubSeq(text, i, Min(N(i)) - 1)
               rest == from[Min(N(i)) + 1]
    <3>1. from[i] = <<s>> \o rest
      BY <1>3, <2>2 DEF Cutting
    <3>2. s \in Seq(S)
      BY <1>4, <1>5, <2>2
    <3>3. rest \in Seq(Seq(S))
      BY <1>6, <2>2
    <3> HIDE DEF s, rest
    <3> QED
      BY <3>1, <3>2, <3>3
  <2> QED
    BY <2>1, <2>2
<1> HIDE DEF D, Typed, h, N
<1>7. \A d \in D : d + 1 \in D
  <2> SUFFICES ASSUME NEW d \in D, NEW i \in 1..h, h - (d + 1) <= i
               PROVE  Typed(i)
    BY <1>2
  <2>1. d \in Nat /\ \A j \in 1..h : h - d <= j => Typed(j)
    BY <1>2
  <2>2. N(i) # {} => Typed(Min(N(i)) + 1)
    <3>1. \A j \in (i + 1)..h : j \in 1..h /\ h - d <= j
      BY <1>1, <2>1
    <3> QED
      BY <1>5, <2>1, <3>1
  <2> QED
    BY <1>6, <2>2
<1>8. 0 \in D
  <2> SUFFICES ASSUME NEW i \in 1..h, h - 0 <= i PROVE Typed(i)
    BY <1>2
  <2>1. i = h
    BY <1>1
  <2>2. N(i) = {}
    <3>1. (i + 1)..h = {}
      BY <1>1, <2>1
    <3> QED
      BY <1>5, <3>1
  <2> QED
    BY <1>6, <2>2
<1>9. h \in D
  <2>1. D \subseteq Nat
    BY <1>2
  <2>2. D = Nat
    BY <1>7, <1>8, <2>1, SetInduction
  <2> QED
    BY <1>1, <2>2
<1>10. \A i \in 1..h : Typed(i)
  <2>1. \A i \in 1..h : h - h <= i
    BY <1>1
  <2> QED
    BY <1>2, <1>9, <2>1
<1> QED
  BY <1>10 DEF Typed, h

\* A split is one step after the other.
LEMMA SplitIs ==
    ASSUME NEW text, Len(text) \in Nat, NEW ch
    PROVE  \E from : IsSplit(text, ch, 1, from) /\ Split(text, ch) = from[1]
<1> DEFINE Original(from) ==
        from = [i \in 1..(Len(text) + 1) |->
            IF {j \in i..Len(text) : text[j] = ch} = {} THEN <<SubSeq(text, i, Len(text))>>
            ELSE <<SubSeq(text, i, Min({j \in i..Len(text) : text[j] = ch}) - 1)>>
                    \o from[Min({j \in i..Len(text) : text[j] = ch}) + 1]]
<1>1. Split(text, ch) = (CHOOSE from : Original(from))[1]
  BY Zenon DEF Split
<1>2. \A from : Original(from) <=> IsSplit(text, ch, 1, from)
  BY Zenon DEF IsSplit, Cutting, NextCuts
<1> HIDE DEF Original
<1>3. Original(CHOOSE from : Original(from))
  BY <1>2, SplitExists, Zenon
<1> QED
  BY <1>1, <1>2, <1>3

-----------------------------------------------------------------------------
(* Dates.                                                                   *)

\* A sequence with one more in front.
LEMMA InFront ==
    ASSUME NEW T, NEW x \in T, NEW r \in Seq(T)
    PROVE  /\ Len(<<x>> \o r) = Len(r) + 1 /\ (<<x>> \o r)[1] = x
           /\ \A i \in 1..Len(r) : (<<x>> \o r)[i + 1] = r[i]
  OBVIOUS

\* A text in three parts is cut at two places.
LEMMA ThreeParts ==
    ASSUME NEW S, NEW text \in Seq(S), NEW ch, Len(Split(text, ch)) = 3
    PROVE  \E a, b \in 1..Len(text) : CutTwice(text, ch, a, b)
<1> DEFINE k == Len(text)
           N(i) == NextCuts(text, ch, i)
<1>1. k \in Nat
  OBVIOUS
<1>2. PICK from : IsSplit(text, ch, 1, from) /\ Split(text, ch) = from[1]
  BY SplitIs
<1>3. \A i \in 1..(k + 1) : from[i] \in Seq(Seq(S)) /\ Len(from[i]) >= 1
  BY <1>2, SplitTyped
<1>4. \A i \in 1..(k + 1) :
         from[i] = IF N(i) = {} THEN <<SubSeq(text, i, k)>>
                   ELSE <<SubSeq(text, i, Min(N(i)) - 1)>> \o from[Min(N(i)) + 1]
  BY <1>2 DEF IsSplit, Cutting
<1>5. ASSUME NEW i \in 1..(k + 1), N(i) # {}
      PROVE  LET m == Min(N(i))
             IN  /\ m \in 1..k /\ i <= m /\ text[m] = ch /\ m + 1 \in 1..(k + 1)
                 /\ Len(from[i]) = Len(from[m + 1]) + 1
                 /\ from[i][1] = SubSeq(text, i, m - 1)
                 /\ \A j \in 1..Len(from[m + 1]) : from[i][j + 1] = from[m + 1][j]
  <2> DEFINE m == Min(N(i))
             s == SubSeq(text, i, m - 1)
             r == from[m + 1]
  <2>1. i \in Nat \ {0}
    BY <1>1
  <2>2. m \in i..k /\ text[m] = ch /\ m + 1 \in (i + 1)..(k + 1)
    BY <1>1, <1>5, <2>1, NextCutAhead
  <2>3. from[i] = <<s>> \o r
    BY <1>4, <1>5
  <2> HIDE DEF m
  <2>4. m \in 1..k /\ i <= m /\ m + 1 \in 1..(k + 1) /\ m - 1 \in Int /\ m - 1 <= k
    BY <1>1, <2>2
  <2>5. s \in Seq(S) /\ r \in Seq(Seq(S))
    BY <1>3, <2>4
  <2> HIDE DEF s, r
  <2>6. /\ Len(from[i]) = Len(r) + 1 /\ from[i][1] = s
        /\ \A j \in 1..Len(r) : from[i][j + 1] = r[j]
    BY <2>3, <2>5, InFront
  <2> QED
    BY <2>2, <2>4, <2>6 DEF m, s, r
<1>6. ASSUME NEW i \in 1..(k + 1), N(i) = {}
      PROVE  Len(from[i]) = 1 /\ from[i][1] = SubSeq(text, i, k)
  <2> DEFINE s == SubSeq(text, i, k)
  <2>1. from[i] = <<s>>
    BY <1>4, <1>6
  <2> HIDE DEF s
  <2>2. Len(<<s>>) = 1 /\ <<s>>[1] = s
    OBVIOUS
  <2>3. Len(from[i]) = 1 /\ from[i][1] = s
    BY <2>1, <2>2
  <2> QED
    BY <2>3 DEF s
<1>l. \A i \in 1..(k + 1) : Len(from[i]) \in Nat
  BY <1>3
<1> DEFINE a == Min(N(1))
           b == Min(N(a + 1))
           c == Min(N(b + 1))
<1>7. 1 \in 1..(k + 1) /\ Len(from[1]) = 3
  BY <1>1, <1>2
<1> HIDE DEF N, k
<1>8. N(1) # {}
  BY <1>6, <1>7
<1>9. /\ a \in 1..k /\ text[a] = ch /\ a + 1 \in 1..(k + 1)
      /\ 3 = Len(from[a + 1]) + 1
      /\ from[1][1] = SubSeq(text, 1, a - 1)
      /\ \A j \in 1..Len(from[a + 1]) : from[1][j + 1] = from[a + 1][j]
  BY <1>5, <1>7, <1>8
<1> HIDE DEF a
<1>10. from[a + 1] \in Seq(Seq(S)) /\ Len(from[a + 1]) = 2
  <2>1. Len(from[a + 1]) \in Nat /\ from[a + 1] \in Seq(Seq(S))
    BY <1>3, <1>l, <1>9
  <2> HIDE DEF k
  <2> DEFINE n == Len(from[a + 1])
  <2>2. 3 = n + 1 /\ n \in Nat
    BY <1>9, <2>1
  <2> HIDE DEF n
  <2>3. n = 2
    BY <2>2
  <2> QED
    BY <2>1, <2>3 DEF n
<1>11. N(a + 1) # {}
  <2>1. N(a + 1) = {} => Len(from[a + 1]) = 1
    BY <1>6, <1>9
  <2>2. 1 # 2
    OBVIOUS
  <2> QED
    BY <1>10, <2>1, <2>2
<1>12. /\ b \in 1..k /\ a + 1 <= b /\ text[b] = ch /\ b + 1 \in 1..(k + 1)
       /\ 2 = Len(from[b + 1]) + 1
       /\ from[a + 1][1] = SubSeq(text, a + 1, b - 1)
       /\ \A j \in 1..Len(from[b + 1]) : from[a + 1][j + 1] = from[b + 1][j]
  BY <1>5, <1>9, <1>10, <1>11
<1> HIDE DEF b
<1>13. Len(from[b + 1]) = 1
  <2> DEFINE n == Len(from[b + 1])
  <2>1. 2 = n + 1 /\ n \in Nat
    BY <1>l, <1>12
  <2> HIDE DEF n
  <2>2. n = 1
    BY <2>1
  <2> QED
    BY <2>2 DEF n
<1>14. N(b + 1) = {}
  <2> SUFFICES ASSUME N(b + 1) # {} PROVE FALSE
    OBVIOUS
  <2>1. c + 1 \in 1..(k + 1) /\ Len(from[b + 1]) = Len(from[c + 1]) + 1
    BY <1>5, <1>12
  <2> HIDE DEF c
  <2>2. Len(from[c + 1]) >= 1 /\ Len(from[c + 1]) \in Nat
    BY <1>3, <1>l, <2>1
  <2> DEFINE n == Len(from[c + 1])
  <2>3. 1 = n + 1 /\ n >= 1 /\ n \in Nat
    BY <1>13, <2>1, <2>2
  <2> HIDE DEF n
  <2> QED
    BY <2>3
<1>15. from[b + 1][1] = SubSeq(text, b + 1, k)
  BY <1>6, <1>12, <1>14
<1>16. /\ from[1][2] = from[a + 1][1]
       /\ from[1][3] = from[a + 1][2]
       /\ from[a + 1][2] = from[b + 1][1]
  <2>1. from[1][1 + 1] = from[a + 1][1] /\ from[1][2 + 1] = from[a + 1][2]
    BY <1>9, <1>10
  <2>2. from[a + 1][1 + 1] = from[b + 1][1]
    BY <1>12, <1>13
  <2> QED
    BY <2>1, <2>2
<1>17. a < b
  BY <1>9, <1>12, <1>1
<1>18. CutTwice(text, ch, a, b)
  BY <1>2, <1>9, <1>12, <1>15, <1>16, <1>17 DEF k, CutTwice
<1> QED
  BY <1>9, <1>12, <1>18 DEF k

\* A date, read as three parts.
LEMMA DateIs ==
    ASSUME NEW S, NEW text \in Seq(S), IsDate(text)
    PROVE  /\ Len(text) = 10 /\ ByteLength(text) = 10
           /\ text[5] = "-" /\ text[8] = "-"
           /\ Unsigned(SubSeq(text, 1, 4)) # {}
           /\ Unsigned(SubSeq(text, 6, 7)) # {}
           /\ Unsigned(SubSeq(text, 9, 10)) # {}
<1> DEFINE parts == Split(text, "-")
           k == Len(text)
<1>1. /\ ByteLength(text) = 10 /\ Len(parts) = 3
      /\ Len(parts[1]) = 4 /\ Len(parts[2]) = 2 /\ Len(parts[3]) = 2
      /\ Unsigned(parts[1]) # {} /\ Unsigned(parts[2]) # {} /\ Unsigned(parts[3]) # {}
  BY DEF IsDate
<1>2. PICK a \in 1..Len(text), b \in 1..Len(text) : CutTwice(text, "-", a, b)
  BY <1>1, ThreeParts, Zenon
<1>2b. /\ a \in 1..k /\ b \in 1..k /\ a < b /\ text[a] = "-" /\ text[b] = "-"
       /\ parts[1] = SubSeq(text, 1, a - 1)
       /\ parts[2] = SubSeq(text, a + 1, b - 1)
       /\ parts[3] = SubSeq(text, b + 1, k)
  BY <1>2, Zenon DEF CutTwice
<1> HIDE DEF parts
<1>3. ASSUME NEW x \in Int, NEW y \in Int, 1 <= x, x <= y + 1, y <= k
      PROVE  Len(SubSeq(text, x, y)) = y - x + 1
  BY <1>3
<1>4. k \in Nat
  OBVIOUS
<1> HIDE DEF k
<1>5. Len(parts[1]) = a - 1
  <2>1. Len(SubSeq(text, 1, a - 1)) = (a - 1) - 1 + 1
    BY <1>2b, <1>3, <1>4
  <2> QED
    BY <1>2b, <1>4, <2>1
<1>6. Len(parts[2]) = b - 1 - a
  <2>1. Len(SubSeq(text, a + 1, b - 1)) = (b - 1) - (a + 1) + 1
    BY <1>2b, <1>3, <1>4
  <2> QED
    BY <1>2b, <1>4, <2>1
<1>7. Len(parts[3]) = k - b
  <2>1. Len(SubSeq(text, b + 1, k)) = k - (b + 1) + 1
    BY <1>2b, <1>3, <1>4
  <2> QED
    BY <1>2b, <1>4, <2>1
<1>8. a = 5 /\ b = 8 /\ k = 10
  BY <1>1, <1>2b, <1>4, <1>5, <1>6, <1>7
<1>9. /\ parts[1] = SubSeq(text, 1, 4) /\ parts[2] = SubSeq(text, 6, 7)
      /\ parts[3] = SubSeq(text, 9, 10)
  BY <1>2b, <1>8
<1> QED
  BY <1>1, <1>2b, <1>8, <1>9 DEF k

-----------------------------------------------------------------------------
(* Cutting a text at bytes.                                                 *)

\* A text of narrow characters can be cut at any byte: after as many characters.
LEMMA NarrowCut ==
    ASSUME NEW S, NEW text \in Seq(S), \A i \in 1..Len(text) : Width(text[i]) = 1,
           NEW n \in 0..Len(text)
    PROVE  CharsBefore(text, n) = {n}
<1>1. ASSUME NEW m \in 0..Len(text) PROVE ByteLength(SubSeq(text, 1, m)) = m
  <2> DEFINE s == SubSeq(text, 1, m)
  <2>1. /\ Len(s) = m /\ DOMAIN s = 1..m
        /\ \A i \in 1..m : s[i] = text[i]
    OBVIOUS
  <2> HIDE DEF s
  <2>2. IsList(s)
    BY <2>1 DEF IsList
  <2>3. \A i \in 1..Len(s) : Width(s[i]) = 1
    BY <2>1
  <2>4. ByteLength(s) = m
    BY <2>1, <2>2, <2>3, Narrow
  <2> QED
    BY <2>4 DEF s
<1> QED
  BY <1>1 DEF CharsBefore

\* Then what is read between two bytes is what is between two characters.
LEMMA NarrowParsed ==
    ASSUME NEW S, NEW text \in Seq(S), \A i \in 1..Len(text) : Width(text[i]) = 1,
           NEW from \in 0..Len(text), NEW to \in 0..Len(text)
    PROVE  Parsed(text, from, to)
             = IF Unsigned(SubSeq(text, from + 1, to)) # {} THEN "yes" ELSE "no"
<1>1. CharsBefore(text, from) = {from} /\ CharsBefore(text, to) = {to}
  BY NarrowCut
<1>2. Only({from}) = from /\ Only({to}) = to
  BY DEF Only
<1> QED
  BY <1>1, <1>2 DEF Parsed

\* What the other validation takes for a date, this one does too,
LEMMA DatesAgree ==
    ASSUME NEW S, NEW text \in Seq(S), IsDate(text)
    PROVE  DateFits(text) = "yes"
<1>1. /\ Len(text) = 10 /\ ByteLength(text) = 10
      /\ text[5] = "-" /\ text[8] = "-"
      /\ Unsigned(SubSeq(text, 1, 4)) # {}
      /\ Unsigned(SubSeq(text, 6, 7)) # {}
      /\ Unsigned(SubSeq(text, 9, 10)) # {}
  BY DateIs
<1>2. IsList(text)
  BY DEF IsList
<1>3. \A i \in 1..Len(text) : Width(text[i]) = 1
  BY <1>1, <1>2, Narrow
<1>4. 0 \in 0..Len(text) /\ 4 \in 0..Len(text) /\ 5 \in 0..Len(text)
      /\ 7 \in 0..Len(text) /\ 8 \in 0..Len(text) /\ 10 \in 0..Len(text)
  BY <1>1
<1>5. /\ Parsed(text, 0, 4) = IF Unsigned(SubSeq(text, 0 + 1, 4)) # {} THEN "yes" ELSE "no"
      /\ Parsed(text, 5, 7) = IF Unsigned(SubSeq(text, 5 + 1, 7)) # {} THEN "yes" ELSE "no"
      /\ Parsed(text, 8, 10) = IF Unsigned(SubSeq(text, 8 + 1, 10)) # {} THEN "yes" ELSE "no"
  BY <1>3, <1>4, NarrowParsed
<1>6. /\ Parsed(text, 0, 4) = "yes" /\ Parsed(text, 5, 7) = "yes"
      /\ Parsed(text, 8, 10) = "yes"
  <2>1. 0 + 1 = 1 /\ 5 + 1 = 6 /\ 8 + 1 = 9
    OBVIOUS
  <2> QED
    BY <1>1, <1>5, <2>1
<1> DEFINE parts == <<Parsed(text, 0, 4), Parsed(text, 5, 7), Parsed(text, 8, 10)>>
<1>7. {i \in DOMAIN parts : parts[i] # "yes"} = {}
  BY <1>6
<1>8. ByteLength(text) = 10 /\ Len(text) >= 8 /\ text[5] = "-" /\ text[8] = "-"
  BY <1>1
<1> QED
  BY <1>7, <1>8, Zenon DEF DateFits

\* and it panics only over a text with a wide character.
LEMMA PanicsOnWide ==
    ASSUME NEW S, NEW text \in Seq(S), DateFits(text) = "panics"
    PROVE  \E i \in DOMAIN text : Width(text[i]) > 1
<1> SUFFICES ASSUME \A i \in 1..Len(text) : Width(text[i]) = 1 PROVE FALSE
  BY WidthType
<1> DEFINE parts == <<Parsed(text, 0, 4), Parsed(text, 5, 7), Parsed(text, 8, 10)>>
           decided == {i \in DOMAIN parts : parts[i] # "yes"}
<1>1. IsList(text)
  BY DEF IsList
<1>2. ByteLength(text) = Len(text)
  BY <1>1, Narrow
<1>3. DateFits(text) = IF ~(/\ ByteLength(text) = 10 /\ Len(text) >= 8
                            /\ text[5] = "-" /\ text[8] = "-")
                       THEN "no"
                       ELSE IF decided = {} THEN "yes" ELSE parts[Min(decided)]
  BY Zenon DEF DateFits
<1>4. CASE ByteLength(text) # 10
  BY <1>3, <1>4
<1>5. CASE ByteLength(text) = 10
  <2>1. 0 \in 0..Len(text) /\ 4 \in 0..Len(text) /\ 5 \in 0..Len(text)
        /\ 7 \in 0..Len(text) /\ 8 \in 0..Len(text) /\ 10 \in 0..Len(text)
    BY <1>2, <1>5
  <2>2. \A from, to \in 0..Len(text) : Parsed(text, from, to) \in {"yes", "no"}
    BY NarrowParsed
  <2>3. /\ Parsed(text, 0, 4) \in {"yes", "no"} /\ Parsed(text, 5, 7) \in {"yes", "no"}
        /\ Parsed(text, 8, 10) \in {"yes", "no"}
    BY <2>1, <2>2
  <2>4. \A i \in DOMAIN parts : parts[i] \in {"yes", "no"}
    BY <2>3
  <2>5. decided # {} => Min(decided) \in DOMAIN parts
    <3>1. decided \in SUBSET Nat
      OBVIOUS
    <3>2. decided # {} => Min(decided) \in decided
      BY <3>1, MinIs
    <3> QED
      BY <3>2
  <2> HIDE DEF parts, decided
  <2> QED
    BY <1>3, <2>4, <2>5
<1> QED
  BY <1>4, <1>5

-----------------------------------------------------------------------------
(* Disclosed values.                                                        *)

\* The ask that counts is the first of its field.
LEMMA FindAskIs ==
    ASSUME NEW asks, IsList(asks), NEW field
    PROVE  FirstAsk(asks, field)
             = IF AsksOf(asks, field) = {} THEN {} ELSE {Min(AsksOf(asks, field))}
<1> DEFINE named == {i \in DOMAIN asks : asks[i].field = field}
           first == {i \in DOMAIN asks : /\ asks[i].field = field
                                        /\ \A j \in 1..(i - 1) : asks[j].field # field}
           F(i) == asks[i].field = field
           n == Len(asks)
<1>1. DOMAIN asks = 1..n /\ n \in Nat
  BY DEF IsList
<1>2. named = {} => first = {}
  OBVIOUS
<1>3. ASSUME named # {} PROVE first = {Min(named)}
  <2> DEFINE m == Min(named)
  <2>1. m \in named /\ \A i \in named : m <= i
    <3>1. named \in SUBSET Nat
      BY <1>1
    <3> HIDE DEF named
    <3> QED
      BY <1>3, <3>1, MinIs
  <2>2. m \in 1..n /\ F(m) /\ \A i \in 1..n : F(i) => m <= i
    BY <1>1, <2>1
  <2>3. \A i \in first : i \in 1..n /\ F(i) /\ \A j \in 1..(i - 1) : ~F(j)
    BY <1>1
  <2>4. \A i : (i \in 1..n /\ F(i) /\ \A j \in 1..(i - 1) : ~F(j)) => i \in first
    BY <1>1
  <2> HIDE DEF m, F, named, first, n
  <2>5. m \in first
    <3>1. \A j \in 1..(m - 1) : ~F(j)
      BY <1>1, <2>2
    <3> QED
      BY <2>2, <2>4, <3>1
  <2>6. \A i \in first : i = m
    <3> SUFFICES ASSUME NEW i \in first, i # m PROVE FALSE
      OBVIOUS
    <3>1. i \in 1..n /\ F(i) /\ \A j \in 1..(i - 1) : ~F(j)
      BY <2>3
    <3>2. m \in 1..(i - 1)
      BY <1>1, <2>2, <3>1
    <3> QED
      BY <2>2, <3>1, <3>2
  <2>7. first = {m}
    BY <2>5, <2>6
  <2> QED
    BY <1>3, <2>7, Zenon DEF m, named, first
<1>4. first = IF named = {} THEN {} ELSE {Min(named)}
  BY <1>2, <1>3
<1> QED
  BY <1>4, Zenon DEF AsksOf, FirstAsk

\* What one type says of a text.
LEMMA TypesAgree ==
    ASSUME NEW S, NEW text \in Seq(S), NEW type
    PROVE  /\ TypeHolds(text, type) => TypeFits(text, type) = "yes"
           /\ TypeFits(text, type) = "yes" /\ type # "date" => TypeHolds(text, type)
           /\ TypeFits(text, type) = "panics" => \E i \in DOMAIN text : Width(text[i]) > 1
<1>1. CASE type = "date"
  <2>1. TypeHolds(text, type) <=> IsDate(text)
    BY <1>1 DEF TypeHolds
  <2>2. TypeFits(text, type) = DateFits(text)
    BY <1>1 DEF TypeFits
  <2> QED
    BY <1>1, <2>1, <2>2, DatesAgree, PanicsOnWide
<1>2. CASE type \in {"number", "boolean", "datetime", "uri"}
  <2>1. TypeFits(text, type) = IF TypeHolds(text, type) THEN "yes" ELSE "no"
    <3> DEFINE holds == TypeHolds(text, type)
    <3> HIDE DEF holds
    <3>1. TypeFits(text, type) = IF holds THEN "yes" ELSE "no"
      BY <1>2 DEF TypeFits, holds
    <3> QED
      BY <3>1 DEF holds
  <2> QED
    BY <2>1
<1>3. CASE type \notin {"date", "number", "boolean", "datetime", "uri"}
  <2>1. TypeFits(text, type) = "yes"
    BY <1>3 DEF TypeFits
  <2>2. TypeHolds(text, type)
    BY <1>3 DEF TypeHolds
  <2> QED
    BY <2>1, <2>2
<1> QED
  BY <1>1, <1>2, <1>3

\* A value that passes the other validation's type check passes validate_value; one that
\* validate_value lets pass has its type, dates apart; and validate_value panics only
\* over a text with a character wider than a byte: for every document, field and text.
THEOREM ValidatedAlike == Spec => []ValidationsAgree
<1>1. Answered => ValidationsAgree
  <2> SUFFICES ASSUME Answered, Returned("value") PROVE ValidationsAgree
    BY DEF ValidationsAgree
  <2> DEFINE doc == call.doc
             text == call.text
             list == IF doc.knowledge # {} THEN doc.knowledge ELSE doc.asks
             asks == IF list = {} THEN << >> ELSE Only(list)
             named == {i \in DOMAIN asks : asks[i].field = call.field}
             first == {i \in DOMAIN asks : /\ asks[i].field = call.field
                                          /\ \A j \in 1..(i - 1) : asks[j].field # call.field}
             types == UNION {asks[i].type : i \in first}
             Good == /\ (\A type \in types : TypeHolds(text, type)) => result = "yes"
                     /\ result = "yes" =>
                           \A type \in types \ {"date"} : TypeHolds(text, type)
                     /\ result = "panics" => \E i \in DOMAIN text : Width(text[i]) > 1
  <2>1. /\ text \in Seq(Range(text))
        /\ \A l \in doc.knowledge \cup doc.asks :
              /\ IsList(l)
              /\ \A i \in DOMAIN l : \A type, other \in l[i].type : type = other
    BY ValueAssumption DEF Answered, Returned
  <2>2. /\ IsList(asks)
        /\ \A i \in DOMAIN asks : \A type, other \in asks[i].type : type = other
    <3>1. CASE list = {}
      BY <3>1 DEF IsList
    <3>2. CASE list # {}
      <4>1. Only(list) \in list
        BY <3>2 DEF Only
      <4>2. list \subseteq doc.knowledge \cup doc.asks
        OBVIOUS
      <4>3. asks \in doc.knowledge \cup doc.asks
        BY <3>2, <4>1, <4>2
      <4> HIDE DEF asks
      <4> QED
        BY <2>1, <4>3
    <3> QED
      BY <3>1, <3>2
  <2>3. FindAsk(doc, call.field) = IF named = {} THEN {} ELSE {asks[Min(named)]}
    BY Zenon DEF FindAsk
  <2>4. result = ValidateValue(doc, call.field, text)
    BY DEF Answered
  <2>5. (\E good \in {Good} : good) => ValidationsAgree
    BY Zenon DEF ValidationsAgree
  <2> HIDE DEF asks
  <2>6. first = IF named = {} THEN {} ELSE {Min(named)}
    <3>1. named = AsksOf(asks, call.field) /\ first = FirstAsk(asks, call.field)
      BY Zenon DEF AsksOf, FirstAsk
    <3> HIDE DEF named, first
    <3> QED
      BY <2>2, <3>1, FindAskIs
  <2>7. UNION {ask.type : ask \in FindAsk(doc, call.field)} = types
    <3>1. {asks[i].type : i \in first} = {ask.type : ask \in FindAsk(doc, call.field)}
      <4> HIDE DEF named, first
      <4> QED
        BY <2>3, <2>6
    <3> QED
      BY <3>1, Zenon
  <2>8. \A type, other \in types : type = other
    <3>1. \A i, j \in first : i = j
      BY <2>6
    <3>2. first \subseteq DOMAIN asks
      OBVIOUS
    <3> HIDE DEF first
    <3> QED
      BY <2>2, <3>1, <3>2
  <2> HIDE DEF types
  <2>9. result = IF types = {} THEN "yes" ELSE TypeFits(text, Only(types))
    BY <2>4, <2>7, Zenon DEF ValidateValue
  <2>10. CASE types = {}
    <3>1. result = "yes"
      BY <2>9, <2>10
    <3>2. Good
      BY <2>10, <3>1
    <3> QED
      BY <2>5, <3>2, Zenon
  <2>11. CASE types # {}
    <3> DEFINE t == Only(types)
    <3>1. t \in types
      BY <2>11 DEF Only
    <3>2. \A type \in types : type = t
      BY <2>8, <3>1
    <3>3. result = TypeFits(text, t)
      BY <2>9, <2>11
    <3> HIDE DEF t, text
    <3>4. /\ TypeHolds(text, t) => result = "yes"
          /\ result = "yes" /\ t # "date" => TypeHolds(text, t)
          /\ result = "panics" => \E i \in DOMAIN text : Width(text[i]) > 1
      BY <2>1, <3>3, TypesAgree
    <3>5. Good
      BY <3>1, <3>2, <3>4
    <3> QED
      BY <2>5, <3>5, Zenon
  <2> QED
    BY <2>10, <2>11
<1> QED
  BY <1>1, AnsweredAlways, PTL

-----------------------------------------------------------------------------
(* Folds of an action request.                                              *)

\* The builder after each of its calls.
LEMMA RequestFold ==
    ASSUME NEW actions, NEW id, NEW calls, IsList(calls)
    PROVE  \E stage : /\ BuilderStages(stage, actions, id, calls)
                     /\ Build(actions, id, calls) = stage[Len(calls)]
<1> DEFINE n == Len(calls)
           how == [fold |-> "request", actions |-> actions, id |-> id]
           Nothing == NewRequest(actions, id)
           Added(prior, item) == Continued(prior, item)
           Original(g) == g = [S \in SUBSET (DOMAIN calls) |->
               IF S = {} THEN Nothing ELSE Added(g[S \ {Max(S)}], calls[Max(S)])]
           iter == CHOOSE g : Original(g)
<1>1. n \in Nat /\ DOMAIN calls = 1..n
  BY DEF IsList
<1>2. /\ Start(how) = Nothing
      /\ \A prior, item : Stepped(how, prior, item) = Added(prior, item)
  BY Zenon DEF Start, Stepped
<1>3. Build(actions, id, calls) = iter[DOMAIN calls]
  BY Zenon DEF Build, FoldLeft, MapThenFoldSet
<1> HIDE DEF how, Nothing, Added
<1>4. \A g : Original(g) <=> IsUnfolding(how, g, calls, n)
  BY <1>1, <1>2, Zenon DEF IsUnfolding, Unfolding
<1> HIDE DEF Original
<1>5. \E g : Original(g)
  <2>1. \E g : IsUnfolding(how, g, calls, n)
    BY <1>1, UnfoldingExists, Zenon
  <2> QED
    BY <1>4, <2>1, Zenon
<1>6. Original(iter)
  BY <1>5, Zenon
<1> HIDE DEF iter
<1>7. PICK stage : Folded(how, calls, n, stage) /\ iter[1..n] = stage[n]
  BY <1>1, <1>4, <1>6, UnfoldingStages
<1>8. /\ stage[0] = Nothing
      /\ \A k \in 0..(n - 1) : stage[k + 1] = Added(stage[k], calls[k + 1])
  BY <1>2, <1>7, Zenon DEF Folded
<1>9. BuilderStages(stage, actions, id, calls)
  BY <1>8, Zenon DEF BuilderStages, Nothing, Added
<1>10. Build(actions, id, calls) = stage[n]
  BY <1>1, <1>3, <1>7
<1> QED
  BY <1>9, <1>10, Zenon

\* The parameters collected after each definition.
LEMMA CollectFold ==
    ASSUME NEW defs, NEW user, IsList(defs)
    PROVE  \E stage : /\ CollectStages(stage, defs, user)
                     /\ CollectParams(defs, user) = stage[Len(defs)]
<1> DEFINE n == Len(defs)
           how == [fold |-> "collect", user |-> user]
           Nothing == << >>
           Added(prior, item) == Collected(user, prior, item)
           Original(g) == g = [S \in SUBSET (DOMAIN defs) |->
               IF S = {} THEN Nothing ELSE Added(g[S \ {Max(S)}], defs[Max(S)])]
           iter == CHOOSE g : Original(g)
<1>1. n \in Nat /\ DOMAIN defs = 1..n
  BY DEF IsList
<1>2. /\ Start(how) = Nothing
      /\ \A prior, item : Stepped(how, prior, item) = Added(prior, item)
  BY Zenon DEF Start, Stepped
<1>3. CollectParams(defs, user) = iter[DOMAIN defs]
  BY Zenon DEF CollectParams, FoldLeft, MapThenFoldSet
<1> HIDE DEF how, Nothing, Added
<1>4. \A g : Original(g) <=> IsUnfolding(how, g, defs, n)
  BY <1>1, <1>2, Zenon DEF IsUnfolding, Unfolding
<1> HIDE DEF Original
<1>5. \E g : Original(g)
  <2>1. \E g : IsUnfolding(how, g, defs, n)
    BY <1>1, UnfoldingExists, Zenon
  <2> QED
    BY <1>4, <2>1, Zenon
<1>6. Original(iter)
  BY <1>5, Zenon
<1> HIDE DEF iter
<1>7. PICK stage : Folded(how, defs, n, stage) /\ iter[1..n] = stage[n]
  BY <1>1, <1>4, <1>6, UnfoldingStages
<1>8. /\ stage[0] = Nothing
      /\ \A k \in 0..(n - 1) : stage[k + 1] = Added(stage[k], defs[k + 1])
  BY <1>2, <1>7, Zenon DEF Folded
<1>9. CollectStages(stage, defs, user)
  BY <1>8, Zenon DEF CollectStages, Nothing, Added
<1>10. CollectParams(defs, user) = stage[n]
  BY <1>1, <1>3, <1>7
<1> QED
  BY <1>9, <1>10, Zenon

\* The verdict after each check.
LEMMA ChecksFold ==
    ASSUME NEW checks, IsList(checks)
    PROVE  \E stage : /\ TestedStages(stage, checks)
                     /\ FoldLeft(FirstFailed, "ok", checks) = stage[Len(checks)]
<1> DEFINE n == Len(checks)
           how == [fold |-> "checks"]
           Nothing == "ok"
           Added(prior, item) == FirstFailed(prior, item)
           Original(g) == g = [S \in SUBSET (DOMAIN checks) |->
               IF S = {} THEN Nothing ELSE Added(g[S \ {Max(S)}], checks[Max(S)])]
           iter == CHOOSE g : Original(g)
<1>1. n \in Nat /\ DOMAIN checks = 1..n
  BY DEF IsList
<1>2. /\ Start(how) = Nothing
      /\ \A prior, item : Stepped(how, prior, item) = Added(prior, item)
  BY Zenon DEF Start, Stepped
<1>3. FoldLeft(FirstFailed, "ok", checks) = iter[DOMAIN checks]
  BY Zenon DEF FoldLeft, MapThenFoldSet
<1> HIDE DEF how, Nothing, Added
<1>4. \A g : Original(g) <=> IsUnfolding(how, g, checks, n)
  BY <1>1, <1>2, Zenon DEF IsUnfolding, Unfolding
<1> HIDE DEF Original
<1>5. \E g : Original(g)
  <2>1. \E g : IsUnfolding(how, g, checks, n)
    BY <1>1, UnfoldingExists, Zenon
  <2> QED
    BY <1>4, <2>1, Zenon
<1>6. Original(iter)
  BY <1>5, Zenon
<1> HIDE DEF iter
<1>7. PICK stage : Folded(how, checks, n, stage) /\ iter[1..n] = stage[n]
  BY <1>1, <1>4, <1>6, UnfoldingStages
<1>8. /\ stage[0] = Nothing
      /\ \A k \in 0..(n - 1) : stage[k + 1] = Added(stage[k], checks[k + 1])
  BY <1>2, <1>7, Zenon DEF Folded
<1>9. TestedStages(stage, checks)
  BY <1>8, Zenon DEF TestedStages, Nothing, Added
<1>10. FoldLeft(FirstFailed, "ok", checks) = stage[n]
  BY <1>1, <1>3, <1>7
<1> QED
  BY <1>9, <1>10, Zenon

\* The verdict after each definition.
LEMMA ValidateFold ==
    ASSUME NEW defs, NEW params, IsList(defs)
    PROVE  \E stage : /\ VerdictStages(stage, defs, params)
                     /\ ValidateParams(defs, params) = stage[Len(defs)]
<1> DEFINE n == Len(defs)
           how == [fold |-> "validate", params |-> params]
           Nothing == [param |-> "", constraint |-> "ok"]
           Added(prior, item) == Validated(params, prior, item)
           Original(g) == g = [S \in SUBSET (DOMAIN defs) |->
               IF S = {} THEN Nothing ELSE Added(g[S \ {Max(S)}], defs[Max(S)])]
           iter == CHOOSE g : Original(g)
<1>1. n \in Nat /\ DOMAIN defs = 1..n
  BY DEF IsList
<1>2. /\ Start(how) = Nothing
      /\ \A prior, item : Stepped(how, prior, item) = Added(prior, item)
  BY Zenon DEF Start, Stepped
<1>3. ValidateParams(defs, params) = iter[DOMAIN defs]
  BY Zenon DEF ValidateParams, FoldLeft, MapThenFoldSet
<1> HIDE DEF how, Nothing, Added
<1>4. \A g : Original(g) <=> IsUnfolding(how, g, defs, n)
  BY <1>1, <1>2, Zenon DEF IsUnfolding, Unfolding
<1> HIDE DEF Original
<1>5. \E g : Original(g)
  <2>1. \E g : IsUnfolding(how, g, defs, n)
    BY <1>1, UnfoldingExists, Zenon
  <2> QED
    BY <1>4, <2>1, Zenon
<1>6. Original(iter)
  BY <1>5, Zenon
<1> HIDE DEF iter
<1>7. PICK stage : Folded(how, defs, n, stage) /\ iter[1..n] = stage[n]
  BY <1>1, <1>4, <1>6, UnfoldingStages
<1>8. /\ stage[0] = Nothing
      /\ \A k \in 0..(n - 1) : stage[k + 1] = Added(stage[k], defs[k + 1])
  BY <1>2, <1>7, Zenon DEF Folded
<1>9. VerdictStages(stage, defs, params)
  BY <1>8, Zenon DEF VerdictStages, Nothing, Added
<1>10. ValidateParams(defs, params) = stage[n]
  BY <1>1, <1>3, <1>7
<1> QED
  BY <1>9, <1>10, Zenon

-----------------------------------------------------------------------------
(* What a request builder holds.                                            *)

\* A call of a builder sets a parameter, or a basis, or ends the chain.
LEMMA CalledIs ==
    ASSUME NEW action, NEW params, NEW consent, NEW c, c.op \in RequestOps
    PROVE  MadeOf(Called(Building(action, params, consent), c), action, params, consent, c)
<1> DEFINE b == Called(Building(action, params, consent), c)
<1>1. ASSUME NEW name, NEW text
      PROVE  SetParam(Building(action, params, consent), name, text)
               = Building(action, Append(params, [name |-> name, value |-> text]), consent)
  BY DEF SetParam, Building
<1>2. ASSUME NEW basis
      PROVE  WithConsent(Building(action, params, consent), basis)
               = Building(action, params, {basis})
  BY DEF WithConsent, Building
<1>3. CASE c.op \in SetterOps
  <2>1. b = SetParam(Building(action, params, consent), c.name, TextOf(c))
    BY <1>3 DEF Called, TextOf, SetterOps
  <2> QED
    BY <1>1, <1>3, <2>1 DEF MadeOf
<1>4. CASE c.op = "with_consent"
  <2>1. b = WithConsent(Building(action, params, consent), c.basis)
    BY <1>4 DEF Called
  <2>2. b = Building(action, params, {c.basis})
    BY <1>2, <2>1
  <2>3. c.op \notin SetterOps
    BY <1>4 DEF SetterOps
  <2> QED
    BY <2>2, <2>3 DEF MadeOf
<1>5. CASE c.op = "with_consent_str"
  <2>1. b = WithConsentStr(Building(action, params, consent), c.basis)
    BY <1>5 DEF Called
  <2>2. \/ b = Rejected("consent_basis", "one-of")
        \/ b = Building(action, params, {Only(ParseConsentBasis(c.basis))})
    BY <1>2, <2>1 DEF WithConsentStr
  <2>3. c.op \notin SetterOps
    BY <1>5 DEF SetterOps
  <2>4. Stopped(Rejected("consent_basis", "one-of"))
    BY DEF Rejected, Stopped
  <2>5. Stopped(b) \/ \E basis : b = Building(action, params, basis)
    <3> HIDE DEF b
    <3> QED
      BY <2>2, <2>4
  <2> QED
    BY <2>3, <2>5, Zenon DEF MadeOf
<1> QED
  BY <1>3, <1>4, <1>5 DEF RequestOps, SetterOps

\* Setting one more parameter.
LEMMA CarriesMore ==
    ASSUME NEW calls, NEW k \in Nat, NEW params, Carries(params, calls, k),
           calls[k + 1].op \in SetterOps
    PROVE  Carries(Append(params, [name |-> calls[k + 1].name,
                                   value |-> TextOf(calls[k + 1])]), calls, k + 1)
<1> DEFINE c == calls[k + 1]
           pair == [name |-> c.name, value |-> TextOf(c)]
           longer == Append(params, pair)
           n == Len(params)
<1>1. /\ IsSequence(params)
      /\ \A j \in DOMAIN params : \E i \in 1..k : Sets(calls[i], params[j].name)
      /\ \A i \in 1..k : \A name :
            Sets(calls[i], name) /\ (\A l \in (i + 1)..k : ~Sets(calls[l], name)) =>
                \E j \in DOMAIN params :
                   /\ params[j].name = name /\ params[j].value = TextOf(calls[i])
                   /\ \A m \in (j + 1)..Len(params) : params[m].name # name
  BY DEF Carries
<1>2. /\ IsSequence(longer) /\ n \in Nat /\ DOMAIN params = 1..n
      /\ DOMAIN longer = 1..(n + 1) /\ Len(longer) = n + 1
      /\ \A i \in 1..n : longer[i] = params[i]
      /\ longer[n + 1] = pair
  <2> HIDE DEF pair
  <2>1. /\ IsSequence(longer) /\ n \in Nat /\ DOMAIN params = 1..n
        /\ DOMAIN longer = 1..(n + 1)
        /\ \A i \in DOMAIN params : longer[i] = params[i]
        /\ longer[n + 1] = pair
    BY <1>1, AppendPlaces
  <2>2. Len(longer) = n + 1
    <3>1. PICK S : params \in Seq(S)
      BY <1>1 DEF IsSequence
    <3> QED
      BY <3>1
  <2> HIDE DEF longer
  <2> QED
    BY <2>1, <2>2
<1>3. pair.name = c.name /\ pair.value = TextOf(c)
  OBVIOUS
<1>4. \A name : Sets(c, name) <=> c.name = name
  BY DEF Sets, SetterOps
<1> HIDE DEF longer, pair, c
<1>5. ASSUME NEW j \in DOMAIN longer
      PROVE  \E i \in 1..(k + 1) : Sets(calls[i], longer[j].name)
  <2>1. CASE j = n + 1
    BY <1>2, <1>3, <1>4, <2>1 DEF c
  <2>2. CASE j \in 1..n
    BY <1>1, <1>2, <2>2
  <2> QED
    BY <1>2, <2>1, <2>2
<1>6. ASSUME NEW i \in 1..(k + 1), NEW name, Sets(calls[i], name),
             \A l \in (i + 1)..(k + 1) : ~Sets(calls[l], name)
      PROVE  \E j \in DOMAIN longer :
                /\ longer[j].name = name /\ longer[j].value = TextOf(calls[i])
                /\ \A m \in (j + 1)..Len(longer) : longer[m].name # name
  <2>1. CASE i = k + 1
    <3>1. n + 1 \in DOMAIN longer /\ longer[n + 1].name = name
          /\ longer[n + 1].value = TextOf(calls[i])
      BY <1>2, <1>3, <1>4, <1>6, <2>1 DEF c
    <3>2. (n + 1 + 1)..Len(longer) = {}
      BY <1>2
    <3> QED
      BY <3>1, <3>2
  <2>2. CASE i \in 1..k
    <3>1. ~Sets(c, name)
      <4>1. k + 1 \in (i + 1)..(k + 1)
        BY <2>2
      <4> QED
        BY <1>6, <4>1 DEF c
    <3>2. \A l \in (i + 1)..k : ~Sets(calls[l], name)
      BY <1>6
    <3>3. PICK j \in DOMAIN params :
             /\ params[j].name = name /\ params[j].value = TextOf(calls[i])
             /\ \A m \in (j + 1)..n : params[m].name # name
      BY <1>1, <1>6, <2>2, <3>2
    <3>4. \A m \in (j + 1)..(n + 1) : longer[m].name # name
      <4> SUFFICES ASSUME NEW m \in (j + 1)..(n + 1) PROVE longer[m].name # name
        OBVIOUS
      <4>1. CASE m = n + 1
        BY <1>2, <1>3, <1>4, <3>1, <4>1
      <4>2. CASE m # n + 1
        <5>1. m \in (j + 1)..n /\ m \in 1..n
          BY <1>2, <3>3, <4>2
        <5> QED
          BY <1>2, <3>3, <5>1
      <4> QED
        BY <4>1, <4>2
    <3>5. j \in DOMAIN longer /\ longer[j] = params[j]
      BY <1>2, <3>3
    <3> QED
      BY <1>2, <3>3, <3>4, <3>5
  <2> QED
    BY <2>1, <2>2
<1>7. Carries(longer, calls, k + 1)
  BY <1>2, <1>5, <1>6 DEF Carries
<1> QED
  BY <1>7 DEF longer, pair, c

\* A call that sets none.
LEMMA CarriesSame ==
    ASSUME NEW calls, NEW k \in Nat, NEW params, Carries(params, calls, k),
           calls[k + 1].op \notin SetterOps
    PROVE  Carries(params, calls, k + 1)
<1>1. \A name : ~Sets(calls[k + 1], name)
  BY DEF Sets, SetterOps
<1>2. \A i \in 1..(k + 1) : i \in 1..k \/ i = k + 1
  OBVIOUS
<1>3. 1..k \subseteq 1..(k + 1) /\ \A i \in 1..k : (i + 1)..k \subseteq (i + 1)..(k + 1)
  OBVIOUS
<1>4. \A j \in DOMAIN params : \E i \in 1..(k + 1) : Sets(calls[i], params[j].name)
  BY <1>3 DEF Carries
<1>5. ASSUME NEW i \in 1..(k + 1), NEW name, Sets(calls[i], name),
             \A l \in (i + 1)..(k + 1) : ~Sets(calls[l], name)
      PROVE  \E j \in DOMAIN params :
                /\ params[j].name = name /\ params[j].value = TextOf(calls[i])
                /\ \A m \in (j + 1)..Len(params) : params[m].name # name
  <2>1. i \in 1..k
    BY <1>1, <1>2, <1>5
  <2>2. \A l \in (i + 1)..k : ~Sets(calls[l], name)
    BY <1>3, <1>5, <2>1
  <2> QED
    BY <1>5, <2>1, <2>2, ZenonT(60) DEF Carries
<1> QED
  BY <1>4, <1>5 DEF Carries

\* It is the one that is found.
LEMMA ActionFound ==
    ASSUME NEW actions, IsList(actions), NEW id, FindAction(actions, id) # {}
    PROVE  /\ Only(FindAction(actions, id)) = FirstAction(actions, id)
           /\ \E i \in DOMAIN actions : Only(FindAction(actions, id)) = actions[i]
<1> DEFINE named == {i \in DOMAIN actions : actions[i].id = id}
           m == Min(named)
           Leading(i) == i \in DOMAIN actions /\ actions[i].id = id
                       /\ \A j \in 1..(i - 1) : actions[j].id # id
<1>1. named # {} /\ FindAction(actions, id) = {actions[m]}
  BY DEF FindAction
<1>2. DOMAIN actions = 1..Len(actions) /\ Len(actions) \in Nat
  BY DEF IsList
<1>3. m \in named /\ \A i \in named : m <= i
  <2>1. named \in SUBSET Nat
    BY <1>2
  <2> HIDE DEF named
  <2> QED
    BY <1>1, <2>1, MinIs
<1> HIDE DEF m
<1>4. Leading(m)
  BY <1>2, <1>3
<1>5. ASSUME NEW i, Leading(i) PROVE i = m
  <2> SUFFICES ASSUME i # m PROVE FALSE
    OBVIOUS
  <2>1. i \in named /\ m <= i /\ m \in 1..(i - 1) /\ actions[m].id = id
    BY <1>2, <1>3, <1>5
  <2> QED
    BY <1>5, <2>1
<1>6. (CHOOSE i \in DOMAIN actions :
          actions[i].id = id /\ \A j \in 1..(i - 1) : actions[j].id # id) = m
  BY <1>4, <1>5
<1>7. Only({actions[m]}) = actions[m]
  BY DEF Only
<1> QED
  BY <1>1, <1>3, <1>6, <1>7 DEF FirstAction

\* A request that is not refused by a call is built with all that the calls set.
LEMMA RequestBuilt ==
    ASSUME NEW actions, NEW id, NEW calls, IsList(calls),
           \A k \in DOMAIN calls : calls[k].op \in RequestOps
    PROVE  \/ Stopped(Build(actions, id, calls))
           \/ /\ FindAction(actions, id) # {}
              /\ \E params, consent :
                    /\ Build(actions, id, calls)
                         = Building(Only(FindAction(actions, id)), params, consent)
                    /\ Carries(params, calls, Len(calls))
<1> DEFINE n == Len(calls)
           action == Only(FindAction(actions, id))
<1>1. n \in Nat /\ DOMAIN calls = 1..n
  BY DEF IsList
<1>a. PICK stage : /\ BuilderStages(stage, actions, id, calls)
                   /\ Build(actions, id, calls) = stage[n]
  BY RequestFold, Zenon
<1>2. /\ stage[0] = NewRequest(actions, id)
      /\ \A k \in 0..(n - 1) : stage[k + 1] = Continued(stage[k], calls[k + 1])
      /\ Build(actions, id, calls) = stage[n]
  BY <1>a DEF BuilderStages
<1> DEFINE Built(k) == FindAction(actions, id) # {} /\ \E params, consent :
                          /\ stage[k] = Building(action, params, consent)
                          /\ Carries(params, calls, k)
           good == {k \in Nat : k <= n => Stopped(stage[k]) \/ Built(k)}
<1> HIDE DEF n
<1>3. 0 \in good
  <2>1. Stopped(stage[0]) \/ (FindAction(actions, id) # {}
                              /\ stage[0] = Building(action, << >>, {}))
    <3>1. CASE id = ""
      <4>2. Stopped(Rejected("", "deferred"))
        BY DEF Rejected, Stopped
      <4>1. NewRequest(actions, id) = Rejected("", "deferred")
        BY <3>1, Zenon DEF NewRequest
      <4> QED
        BY <1>2, <4>1, <4>2, Zenon
    <3>2. CASE id # "" /\ FindAction(actions, id) = {}
      <4>2. Stopped(Rejected("", "unknown action"))
        BY DEF Rejected, Stopped
      <4>1. NewRequest(actions, id) = Rejected("", "unknown action")
        BY <3>2, Zenon DEF NewRequest
      <4> QED
        BY <1>2, <4>1, <4>2, Zenon
    <3>3. CASE id # "" /\ FindAction(actions, id) # {}
      <4>1. NewRequest(actions, id)
              = [outcome |-> "building", action |-> action, params |-> << >>, consent |-> {}]
        BY <3>3, Zenon DEF NewRequest
      <4> QED
        BY <1>2, <3>3, <4>1 DEF Building
    <3> QED
      BY <3>1, <3>2, <3>3
  <2>2. Carries(<< >>, calls, 0)
    BY DEF Carries, IsSequence
  <2> HIDE DEF action
  <2>3. Stopped(stage[0]) \/ Built(0)
    BY <2>1, <2>2
  <2> HIDE DEF Built
  <2> QED
    BY <2>3
<1>4. ASSUME NEW k \in good PROVE k + 1 \in good
  <2> SUFFICES ASSUME k + 1 <= n PROVE Stopped(stage[k + 1]) \/ Built(k + 1)
    OBVIOUS
  <2>1. k \in Nat /\ k \in 0..(n - 1) /\ k <= n /\ k + 1 \in DOMAIN calls
    BY <1>1
  <2>2. stage[k + 1] = Continued(stage[k], calls[k + 1])
    BY <1>2, <2>1
  <2>3. CASE Stopped(stage[k])
    <3>1. stage[k].outcome # "building"
      BY <2>3 DEF Stopped
    <3> QED
      BY <2>2, <2>3, <3>1 DEF Continued
  <2>4. CASE Built(k)
    <3>1. PICK params, consent : /\ stage[k] = Building(action, params, consent)
                                 /\ Carries(params, calls, k)
      BY <2>4
    <3> DEFINE c == calls[k + 1]
    <3>2. c.op \in RequestOps
      BY <2>1
    <3>3. stage[k + 1] = Called(Building(action, params, consent), c)
      BY <2>2, <3>1 DEF Continued, Building
    <3> HIDE DEF action
    <3>4. CASE c.op \in SetterOps /\ stage[k + 1]
                 = Building(action, Append(params, [name |-> c.name, value |-> TextOf(c)]),
                            consent)
      <4>1. Carries(Append(params, [name |-> c.name, value |-> TextOf(c)]), calls, k + 1)
        BY <2>1, <3>1, <3>4, CarriesMore
      <4> QED
        BY <2>4, <3>4, <4>1
    <3>5. CASE c.op \notin SetterOps
               /\ \E basis : stage[k + 1] = Building(action, params, basis)
      <4>1. Carries(params, calls, k + 1)
        BY <2>1, <3>1, <3>5, CarriesSame
      <4> QED
        BY <2>4, <3>5, <4>1
    <3>6. CASE c.op \notin SetterOps /\ Stopped(stage[k + 1])
      BY <3>6
    <3> QED
      <4>1. MadeOf(stage[k + 1], action, params, consent, c)
        BY <3>2, <3>3, CalledIs
      <4> QED
        BY <3>4, <3>5, <3>6, <4>1, Zenon DEF MadeOf
  <2> QED
    BY <1>4, <2>1, <2>3, <2>4
<1> HIDE DEF good
<1>5. good = Nat
  <2>1. good \in SUBSET Nat
    BY DEF good
  <2> QED
    BY <1>3, <1>4, <2>1, SetInduction
<1>6. n \in good
  BY <1>1, <1>5
<1>7. Stopped(stage[n]) \/ Built(n)
  BY <1>1, <1>6 DEF good
<1> QED
  BY <1>2, <1>7 DEF n

-----------------------------------------------------------------------------
(* What is collected.                                                       *)

\* A text that was set is found where it was set last.
LEMMA MeantIs ==
    ASSUME NEW calls, IsList(calls), NEW params, Carries(params, calls, Len(calls)), NEW def
    PROVE  ValueOf(params, def) = Meant(def, calls)
<1> DEFINE n == Len(calls)
           given == {k \in DOMAIN calls : Sets(calls[k], def.name)}
           last == {k \in given : \A later \in given : later <= k}
           held == {i \in DOMAIN params : params[i].name = def.name}
<1>1. n \in Nat /\ DOMAIN calls = 1..n
  BY DEF IsList
<1>2. IsSequence(params) /\ DOMAIN params = 1..Len(params) /\ Len(params) \in Nat
  <2>1. PICK S : params \in Seq(S)
    BY DEF Carries, IsSequence
  <2> QED
    BY <2>1 DEF Carries
<1>3. UserValue(params, def.name) = IF held = {} THEN {} ELSE {Trim(params[Max(held)].value)}
  BY Zenon DEF UserValue
<1>4. Meant(def, calls) = IF given = {} THEN def.default ELSE {Trim(TextOf(calls[k])) : k \in last}
  BY Zenon DEF Meant
<1>5. CASE given = {}
  <2>1. held = {}
    BY <1>1, <1>5 DEF Carries
  <2> HIDE DEF held, given
  <2> QED
    BY <1>3, <1>4, <1>5, <2>1 DEF ValueOf
<1>6. CASE given # {}
  <2>1. PICK k \in given : \A later \in given : later <= k
    <3>1. given \in SUBSET (0..n)
      BY <1>1
    <3> HIDE DEF given
    <3> QED
      BY <1>1, <1>6, <3>1, LargestNat
  <2>2. last = {k}
    <3>1. given \in SUBSET Int
      BY <1>1
    <3> HIDE DEF given
    <3>2. k \in last
      BY <2>1
    <3>3. ASSUME NEW i \in last PROVE i = k
      <4>1. i \in given /\ k <= i /\ i <= k /\ i \in Int /\ k \in Int
        BY <2>1, <3>1
      <4> QED
        BY <4>1
    <3> HIDE DEF last
    <3> QED
      BY <3>2, <3>3
  <2>3. k \in 1..n /\ Sets(calls[k], def.name) /\ \A l \in (k + 1)..n : ~Sets(calls[l], def.name)
    <3>1. k \in 1..n /\ Sets(calls[k], def.name)
      BY <1>1
    <3>2. ASSUME NEW l \in (k + 1)..n, Sets(calls[l], def.name) PROVE FALSE
      <4>1. l \in given
        BY <1>1, <3>1, <3>2
      <4> QED
        BY <2>1, <3>1, <4>1
    <3> QED
      BY <3>1, <3>2
  <2>4. PICK j \in DOMAIN params :
           /\ params[j].name = def.name /\ params[j].value = TextOf(calls[k])
           /\ \A m \in (j + 1)..Len(params) : params[m].name # def.name
    BY <2>3 DEF Carries
  <2>5. held # {} /\ Max(held) = j
    <3>1. j \in held /\ j \in Int
      BY <1>2, <2>4
    <3>2. \A i \in held : i \in Int /\ i <= j
      <4> SUFFICES ASSUME NEW i \in held, ~(i <= j) PROVE FALSE
        BY <1>2
      <4>1. i \in (j + 1)..Len(params) /\ params[i].name = def.name
        BY <1>2, <2>4
      <4> QED
        BY <2>4, <4>1
    <3> HIDE DEF held
    <3>3. Max(held) = j
      BY <3>1, <3>2, MaxIs, Zenon
    <3> QED
      BY <3>1, <3>3
  <2>6. UserValue(params, def.name) = {Trim(TextOf(calls[k]))}
    BY <1>3, <2>4, <2>5, Zenon
  <2> HIDE DEF last, given
  <2>7. Meant(def, calls) = {Trim(TextOf(calls[k]))}
    BY <1>4, <1>6, <2>2
  <2> QED
    BY <2>6, <2>7 DEF ValueOf
<1> QED
  BY <1>5, <1>6

\* Of one definition more, the value is one more, if there is one.
LEMMA ValuedMore ==
    ASSUME NEW defs, NEW user, NEW k \in Nat
    PROVE  /\ IsFiniteSet(Valued(defs, user, k))
           /\ Cardinality(Valued(defs, user, k)) \in Nat
           /\ ValueOf(user, defs[k + 1]) = {} =>
                 Valued(defs, user, k + 1) = Valued(defs, user, k)
           /\ ValueOf(user, defs[k + 1]) # {} =>
                 /\ Valued(defs, user, k + 1) = Valued(defs, user, k) \cup {k + 1}
                 /\ Cardinality(Valued(defs, user, k + 1))
                      = Cardinality(Valued(defs, user, k)) + 1
<1> DEFINE old == Valued(defs, user, k)
<1>1. IsFiniteSet(1..k)
  BY FS_Interval
<1>2. old \in SUBSET (1..k)
  BY DEF Valued
<1>3. IsFiniteSet(old)
  BY <1>1, <1>2, FS_Subset
<1>4. Cardinality(old) \in Nat
  BY <1>3, FS_CardinalityType
<1>5. 1..(k + 1) = (1..k) \cup {k + 1}
  OBVIOUS
<1>6. ValueOf(user, defs[k + 1]) = {} => Valued(defs, user, k + 1) = old
  BY <1>5 DEF Valued
<1>7. ValueOf(user, defs[k + 1]) # {} => Valued(defs, user, k + 1) = old \cup {k + 1}
  BY <1>5 DEF Valued
<1>8. k + 1 \notin old
  BY <1>2
<1> HIDE DEF old
<1>9. Cardinality(old \cup {k + 1}) = Cardinality(old) + 1
  BY <1>3, <1>8, FS_AddElement
<1> QED
  BY <1>3, <1>4, <1>6, <1>7, <1>9 DEF old

\* One definition more.
LEMMA CollectedMore ==
    ASSUME NEW defs, NEW user, NEW k \in Nat, NEW params, CollectedBy(params, defs, user, k)
    PROVE  CollectedBy(Collected(user, params, defs[k + 1]), defs, user, k + 1)
<1> DEFINE V(i) == Valued(defs, user, i)
           place(i) == Cardinality(Valued(defs, user, i))
           def == defs[k + 1]
           longer == Append(params, Gathered(user, def))
           n == Len(params)
<1>1. CASE ValueOf(user, def) = {}
  <2>1. Collected(user, params, def) = params
    BY <1>1 DEF Collected
  <2>2. V(k + 1) = V(k)
    BY <1>1, ValuedMore
  <2> QED
    BY <2>1, <2>2 DEF CollectedBy
<1>2. CASE ValueOf(user, def) # {}
  <2>1. Collected(user, params, def) = longer
    BY <1>2, Zenon DEF Collected, Gathered
  <2>2. V(k + 1) = V(k) \cup {k + 1} /\ place(k + 1) = place(k) + 1
    BY <1>2, ValuedMore
  <2>3. /\ IsSequence(params) /\ n = place(k)
        /\ \A i \in V(k) : place(i) \in 1..n /\ params[place(i)] = Gathered(user, defs[i])
        /\ \A v \in 1..n : \E i \in V(k) : v = place(i)
    BY DEF CollectedBy
  <2> DEFINE e == Gathered(user, def)
  <2>4. PICK S : params \in Seq(S)
    BY <2>3 DEF IsSequence
  <2> HIDE DEF V, place, e
  <2>5. /\ IsSequence(longer) /\ n \in Nat /\ Len(longer) = n + 1
        /\ \A i \in 1..n : longer[i] = params[i]
        /\ longer[n + 1] = e
    <3>1. longer = Append(params, e)
      BY DEF e
    <3>2. params \in Seq(S \cup {e}) /\ e \in S \cup {e}
      BY <2>4
    <3>3. Append(params, e) \in Seq(S \cup {e})
      BY <3>2
    <3>4. IsSequence(longer)
      BY <3>1, <3>3 DEF IsSequence
    <3> QED
      BY <3>1, <3>2, <3>4
  <2> HIDE DEF longer, n
  <2>6. Len(longer) = place(k + 1)
    BY <2>2, <2>3, <2>5
  <2>7. ASSUME NEW i \in V(k + 1)
        PROVE  place(i) \in 1..Len(longer) /\ longer[place(i)] = Gathered(user, defs[i])
    <3>1. CASE i = k + 1
      BY <2>2, <2>3, <2>5, <3>1 DEF e
    <3>2. CASE i \in V(k)
      <4>1. place(i) \in 1..n /\ params[place(i)] = Gathered(user, defs[i])
        BY <2>3, <3>2
      <4> QED
        BY <2>5, <4>1
    <3> QED
      BY <2>2, <3>1, <3>2
  <2>8. ASSUME NEW v \in 1..Len(longer) PROVE \E i \in V(k + 1) : v = place(i)
    <3>1. CASE v = n + 1
      BY <2>2, <2>3, <3>1
    <3>2. CASE v \in 1..n
      BY <2>2, <2>3, <3>2
    <3> QED
      BY <2>5, <3>1, <3>2
  <2>9. CollectedBy(longer, defs, user, k + 1)
    BY <2>5, <2>6, <2>7, <2>8 DEF CollectedBy, V, place
  <2> QED
    BY <2>1, <2>9
<1> QED
  BY <1>1, <1>2

\* What is collected.
LEMMA CollectedAll ==
    ASSUME NEW defs, NEW user, IsList(defs)
    PROVE  CollectedBy(CollectParams(defs, user), defs, user, Len(defs))
<1> DEFINE n == Len(defs)
<1>1. n \in Nat
  BY DEF IsList
<1>2. PICK stage : CollectStages(stage, defs, user) /\ CollectParams(defs, user) = stage[n]
  BY CollectFold, Zenon
<1>3. /\ stage[0] = << >>
      /\ \A k \in 0..(n - 1) : stage[k + 1] = Collected(user, stage[k], defs[k + 1])
  BY <1>2 DEF CollectStages
<1> DEFINE good == {k \in Nat : k <= n => CollectedBy(stage[k], defs, user, k)}
<1> HIDE DEF n
<1>4. 0 \in good
  <2>1. Valued(defs, user, 0) = {}
    BY DEF Valued
  <2>2. Cardinality({}) = 0
    BY FS_EmptySet
  <2>3. Len(<< >>) = 0 /\ IsSequence(<< >>) /\ 1..0 = {}
    BY DEF IsSequence
  <2>4. CollectedBy(<< >>, defs, user, 0)
    BY <2>1, <2>2, <2>3 DEF CollectedBy
  <2> QED
    BY <1>3, <2>4
<1>5. ASSUME NEW k \in good PROVE k + 1 \in good
  <2> SUFFICES ASSUME k + 1 <= n PROVE CollectedBy(stage[k + 1], defs, user, k + 1)
    OBVIOUS
  <2>1. k \in Nat /\ k \in 0..(n - 1) /\ k <= n
    BY <1>1
  <2>2. CollectedBy(stage[k], defs, user, k)
    BY <2>1
  <2>3. stage[k + 1] = Collected(user, stage[k], defs[k + 1])
    BY <1>3, <2>1
  <2> QED
    BY <2>1, <2>2, <2>3, CollectedMore
<1> HIDE DEF good
<1>6. good = Nat
  <2>1. good \in SUBSET Nat
    BY DEF good
  <2> QED
    BY <1>4, <1>5, <2>1, SetInduction
<1>7. n \in good
  BY <1>1, <1>6
<1>8. CollectedBy(stage[n], defs, user, n)
  BY <1>1, <1>7 DEF good
<1> QED
  BY <1>2, <1>8 DEF n

-----------------------------------------------------------------------------
(* Patterns and numbers.                                                    *)

\* What a sequence is without its first element.
LEMMA TailIs ==
    ASSUME NEW S, NEW p \in Seq(S), Len(p) >= 1
    PROVE  /\ Tail(p) \in Seq(S) /\ Len(Tail(p)) = Len(p) - 1
           /\ \A i \in 1..(Len(p) - 1) : Tail(p)[i] = p[i + 1]
<1>1. p # << >>
  OBVIOUS
<1>2. Tail(p) \in Seq(S)
  BY <1>1
<1>3. Len(Tail(p)) = Len(p) - 1
  BY <1>1
<1>4. \A i \in 1..(Len(p) - 1) : Tail(p)[i] = p[i + 1]
  BY <1>1
<1> QED
  BY <1>2, <1>3, <1>4

\* A part of a sequence.
LEMMA SubSeqIs ==
    ASSUME NEW S, NEW p \in Seq(S), NEW a \in Nat, NEW b \in Nat, 1 <= a, a <= b + 1, b <= Len(p)
    PROVE  /\ SubSeq(p, a, b) \in Seq(S) /\ Len(SubSeq(p, a, b)) = b - a + 1
           /\ \A i \in 1..(b - a + 1) : SubSeq(p, a, b)[i] = p[a + i - 1]
<1>1. SubSeq(p, a, b) \in Seq(S)
  OBVIOUS
<1>2. Len(SubSeq(p, a, b)) = b - a + 1
  OBVIOUS
<1>3. \A i \in 1..(b - a + 1) : SubSeq(p, a, b)[i] = p[a + i - 1]
  OBVIOUS
<1> QED
  BY <1>1, <1>2, <1>3

\* Sequences are equal element by element.
LEMMA SameSequence ==
    ASSUME NEW S, NEW x \in Seq(S), NEW y \in Seq(S), Len(x) = Len(y),
           \A i \in 1..Len(x) : x[i] = y[i]
    PROVE  x = y
  OBVIOUS

\* Stripping the anchors of a pattern, and cutting what is between them.
LEMMA LiteralIs ==
    ASSUME NEW S, NEW p \in Seq(S)
    PROVE  Inner(p) = Literal(p)
<1> DEFINE n == Len(p)
           t == Tail(p)
<1>1. n \in Nat /\ (p = << >> <=> n = 0)
  OBVIOUS
<1>2. CASE p = << >>
  BY <1>2 DEF Inner, Headless, Literal
<1>3. CASE p # << >> /\ p[1] # "^"
  <2>1. Headless(p) = p
    BY <1>3, Zenon DEF Headless
  <2>2. Inner(p) = IF p[n] = "$" THEN SubSeq(p, 1, n - 1) ELSE p
    BY <1>3, <2>1, Zenon DEF Inner
  <2>3. Literal(p) = SubSeq(p, 1, IF p[n] = "$" THEN n - 1 ELSE n)
    BY <1>3, Zenon DEF Literal
  <2>4. SubSeq(p, 1, n) = p
    OBVIOUS
  <2> HIDE DEF n
  <2>5. CASE p[n] = "$"
    BY <2>2, <2>3, <2>5
  <2>6. CASE p[n] # "$"
    <3>1. Inner(p) = p
      BY <2>2, <2>6
    <3>2. Literal(p) = SubSeq(p, 1, n)
      BY <2>3, <2>6
    <3> QED
      BY <2>4, <3>1, <3>2 DEF n
  <2> QED
    BY <2>5, <2>6
<1>4. CASE p # << >> /\ p[1] = "^"
  <2>1. Headless(p) = t
    BY <1>4, Zenon DEF Headless
  <2>2. n >= 1
    BY <1>1, <1>4
  <2>3. /\ t \in Seq(S) /\ Len(t) = n - 1
        /\ \A i \in 1..(n - 1) : t[i] = p[i + 1]
    BY <2>2, TailIs
  <2>4. Literal(p) = SubSeq(p, 2, IF p[n] = "$" THEN n - 1 ELSE n)
    BY <1>4, Zenon DEF Literal
  <2>5. Inner(p) = IF t # << >> /\ t[Len(t)] = "$" THEN SubSeq(t, 1, Len(t) - 1) ELSE t
    BY <2>1, Zenon DEF Inner
  <2> HIDE DEF t
  <2>6. t = << >> <=> Len(t) = 0
    BY <2>3
  <2>7. CASE n = 1
    <3>1. p[n] # "$"
      BY <1>4, <2>7
    <3>2. t = << >>
      BY <2>3, <2>6, <2>7
    <3>3. Literal(p) = SubSeq(p, 2, n)
      BY <2>4, <3>1
    <3>4. SubSeq(p, 2, n) \in Seq(S) /\ Len(SubSeq(p, 2, n)) = 0
      <4>1. n \in Nat /\ 2 <= n + 1
        BY <2>7
      <4>2. n - 2 + 1 = 0
        BY <2>7
      <4>3. n <= Len(p)
        BY <1>1
      <4> HIDE DEF n
      <4> QED
        BY <4>1, <4>2, <4>3, SubSeqIs
    <3> DEFINE y == SubSeq(p, 2, n)
    <3>5. y = << >>
      <4>1. y \in Seq(S) /\ Len(y) = 0
        BY <3>4
      <4> HIDE DEF y
      <4> QED
        BY <4>1
    <3> QED
      BY <2>5, <3>2, <3>3, <3>5
  <2>8. CASE n >= 2
    <3>1. t # << >> /\ t[Len(t)] = p[n]
      <4>1. n - 1 \in 1..(n - 1) /\ n - 1 + 1 = n /\ n - 1 # 0
        <5>1. n \in Nat /\ n >= 2
          BY <1>1, <2>8
        <5> HIDE DEF n
        <5> QED
          BY <5>1
      <4> HIDE DEF n
      <4> QED
        BY <2>3, <2>6, <4>1
    <3>2. CASE p[n] = "$"
      <4> DEFINE x == SubSeq(t, 1, Len(t) - 1)
                 y == SubSeq(p, 2, n - 1)
      <4>1. Inner(p) = x /\ Literal(p) = y
        BY <2>4, <2>5, <3>1, <3>2, Zenon
      <4>2. x \in Seq(S) /\ Len(x) = n - 2 /\ \A i \in 1..(n - 2) : x[i] = t[i]
        <5> DEFINE b == Len(t) - 1
        <5>1. b = n - 2 /\ b \in Nat /\ 1 <= b + 1 /\ b <= Len(t)
          BY <1>1, <2>3, <2>8
        <5> HIDE DEF b
        <5>2. /\ SubSeq(t, 1, b) \in Seq(S) /\ Len(SubSeq(t, 1, b)) = b - 1 + 1
              /\ \A i \in 1..(b - 1 + 1) : SubSeq(t, 1, b)[i] = t[1 + i - 1]
          BY <2>3, <5>1, SubSeqIs
        <5>3. b - 1 + 1 = b /\ \A i \in 1..b : 1 + i - 1 = i
          BY <5>1
        <5>4. /\ SubSeq(t, 1, b) \in Seq(S) /\ Len(SubSeq(t, 1, b)) = b
              /\ \A i \in 1..b : SubSeq(t, 1, b)[i] = t[i]
          BY <5>2, <5>3
        <5> HIDE DEF n
        <5> QED
          BY <5>1, <5>4 DEF b
      <4>3. y \in Seq(S) /\ Len(y) = n - 2 /\ \A i \in 1..(n - 2) : y[i] = p[i + 1]
        <5>1. n - 1 \in Nat /\ 2 <= n - 1 + 1 /\ n - 1 <= Len(p)
          BY <1>1, <2>8
        <5>2. /\ y \in Seq(S) /\ Len(y) = n - 1 - 2 + 1
              /\ \A i \in 1..(n - 1 - 2 + 1) : y[i] = p[2 + i - 1]
          <6> HIDE DEF n
          <6> QED
            BY <5>1, SubSeqIs
        <5>3. n - 1 - 2 + 1 = n - 2 /\ \A i \in 1..(n - 2) : 2 + i - 1 = i + 1
          BY <1>1
        <5> HIDE DEF n, y
        <5> QED
          BY <5>2, <5>3
      <4>4. \A i \in 1..(n - 2) : t[i] = p[i + 1]
        BY <1>1, <2>3
      <4> HIDE DEF x, y, n
      <4>5. x = y
        BY <4>2, <4>3, <4>4, SameSequence
      <4> QED
        BY <4>1, <4>5
    <3>3. CASE p[n] # "$"
      <4> DEFINE y == SubSeq(p, 2, n)
      <4>1. Inner(p) = t /\ Literal(p) = y
        BY <2>4, <2>5, <3>1, <3>3, Zenon
      <4>3. y \in Seq(S) /\ Len(y) = n - 1 /\ \A i \in 1..(n - 1) : y[i] = p[i + 1]
        <5>1. n \in Nat /\ 2 <= n + 1 /\ n <= Len(p)
          BY <1>1, <2>8
        <5>2. /\ y \in Seq(S) /\ Len(y) = n - 2 + 1
              /\ \A i \in 1..(n - 2 + 1) : y[i] = p[2 + i - 1]
          <6> HIDE DEF n
          <6> QED
            BY <5>1, SubSeqIs
        <5>3. n - 2 + 1 = n - 1 /\ \A i \in 1..(n - 1) : 2 + i - 1 = i + 1
          BY <1>1
        <5> HIDE DEF n, y
        <5> QED
          BY <5>2, <5>3
      <4> HIDE DEF y, n
      <4>5. t = y
        BY <2>3, <4>3, SameSequence
      <4> QED
        BY <4>1, <4>5
    <3> QED
      BY <3>2, <3>3
  <2>9. n = 1 \/ n >= 2
    <3> HIDE DEF n
    <3> QED
      BY <1>1, <2>2
  <2> QED
    BY <2>7, <2>8, <2>9
<1> QED
  BY <1>2, <1>3, <1>4

\* A pattern holds of its own literal, if that is plain.
LEMMA PatternHoldsIs ==
    ASSUME NEW S, NEW p \in Seq(S), NEW text
    PROVE  PatternHolds(text, p) <=> text = Literal(p) /\ Plain(text)
<1>1. PatternHolds(text, p)
        <=> (\A i \in DOMAIN Inner(p) : Inner(p)[i] \notin Meta) /\ text = Inner(p)
  BY Zenon DEF PatternHolds, Last, Front, Inner, Headless
<1>2. Inner(p) = Literal(p)
  BY LiteralIs
<1> QED
  BY <1>1, <1>2, Zenon DEF Plain

\* What a text spells is what it parses to.
LEMMA SpelledIs ==
    ASSUME NEW text
    PROVE  /\ Spelled(text) = Number(text)
           /\ ~(text # << >> /\ text[1] = "-") => Unsigned(text) = Spelled(text)
<1> DEFINE signed == text # << >> /\ text[1] \in {"+", "-"}
           d == IF signed THEN Tail(text) ELSE text
<1>1. Spelled(text) = IF ~IsDigits(d) THEN {}
                      ELSE IF signed /\ text[1] = "-" THEN {-Value(d)} ELSE {Value(d)}
  BY Zenon DEF Spelled
<1>2. Unsigned(text) = LET u == IF text # << >> /\ text[1] = "+" THEN Tail(text) ELSE text
                       IN  IF IsDigits(u) THEN {Value(u)} ELSE {}
  BY Zenon DEF Unsigned
<1>3. CASE text # << >> /\ text[1] = "-"
  <2>1. Number(text) = {-Value(x) : x \in {t \in {Tail(text)} : IsDigits(t)}}
    BY <1>3, Zenon DEF Number
  <2>2. signed /\ d = Tail(text)
    BY <1>3
  <2> QED
    BY <1>1, <1>3, <2>1, <2>2
<1>4. CASE ~(text # << >> /\ text[1] = "-")
  <2>1. Number(text) = Unsigned(text)
    BY <1>4, Zenon DEF Number
  <2>2. signed <=> text # << >> /\ text[1] = "+"
    BY <1>4
  <2> DEFINE u == IF text # << >> /\ text[1] = "+" THEN Tail(text) ELSE text
  <2>3. d = u
    BY <2>2
  <2>4. Unsigned(text) = IF IsDigits(u) THEN {Value(u)} ELSE {}
    BY <1>2
  <2>5. ~(signed /\ text[1] = "-")
    BY <1>4
  <2> HIDE DEF u, d, signed
  <2>6. Spelled(text) = Unsigned(text)
    BY <1>1, <2>3, <2>4, <2>5
  <2> QED
    BY <1>4, <2>1, <2>6
<1> QED
  BY <1>3, <1>4

\* A negative number is no length.
LEMMA NegativeUnsigned ==
    ASSUME NEW S, NEW text \in Seq(S), text # << >>, text[1] = "-"
    PROVE  Unsigned(text) = {}
<1>1. 1 \in DOMAIN text
  OBVIOUS
<1>2. "-" \notin DOMAIN Digit
  BY DEF Digit
<1>3. ~IsDigits(text)
  BY <1>1, <1>2 DEF IsDigits
<1> QED
  BY <1>3 DEF Unsigned

-----------------------------------------------------------------------------
(* Validation.                                                              *)

\* What is acceptable, one constraint after the other.
LEMMA AcceptableIs ==
    ASSUME NEW def, NEW text
    PROVE  Acceptable(def, text) <=>
              /\ TypeHolds(text, def.type)
              /\ AcceptedByPattern(def, text)
              /\ AcceptedByMin(def, text) /\ AcceptedByMax(def, text)
              /\ EnumHolds(text, def.options)
  BY Zenon DEF Acceptable, AcceptedByPattern, AcceptedByMin, AcceptedByMax, Sizes, Bounds,
               Literal, Plain, EnumHolds

\* The sizes and bounds that are compared are the spelled ones.
LEMMA SizesAndBounds ==
    ASSUME NEW def, NEW text, NEW S, NEW m \in Seq(S)
    PROVE  Size(text, def.type) = Sizes(def, text) /\ Bound(m, def.type) = Bounds(def, m)
<1>1. Size(text, def.type) = Sizes(def, text)
  BY SpelledIs DEF Size, Sizes
<1>2. Bound(m, def.type) = Bounds(def, m)
  <2>1. CASE def.type = "number"
    BY <2>1, SpelledIs DEF Bound, Bounds
  <2>2. CASE def.type # "number" /\ m # << >> /\ m[1] = "-"
    BY <2>2, NegativeUnsigned DEF Bound, Bounds
  <2>3. CASE def.type # "number" /\ ~(m # << >> /\ m[1] = "-")
    <3>1. Bound(m, def.type) = Unsigned(m)
      BY <2>3, Zenon DEF Bound
    <3>2. Bounds(def, m) = Spelled(m)
      BY <2>3, Zenon DEF Bounds
    <3> QED
      BY <2>3, <3>1, <3>2, SpelledIs
  <2> QED
    BY <2>1, <2>2, <2>3
<1> QED
  BY <1>1, <1>2

\* The code's bounds and patterns accept what those of the reference accept.
LEMMA MinAndMax ==
    ASSUME NEW def, NEW text, Spells(def)
    PROVE  /\ (\A m \in def.min : MinHolds(text, m, def.type)) <=> AcceptedByMin(def, text)
           /\ (\A m \in def.max : MaxHolds(text, m, def.type)) <=> AcceptedByMax(def, text)
           /\ (\A p \in def.pattern : PatternHolds(text, p)) <=> AcceptedByPattern(def, text)
<1>1. ASSUME NEW m \in def.min \cup def.max
      PROVE  Size(text, def.type) = Sizes(def, text) /\ Bound(m, def.type) = Bounds(def, m)
  BY SizesAndBounds DEF Spells
<1>2. (\A m \in def.min : MinHolds(text, m, def.type)) <=> AcceptedByMin(def, text)
  <2>1. ASSUME NEW m \in def.min
        PROVE  MinHolds(text, m, def.type)
                 <=> \A size \in Sizes(def, text), bound \in Bounds(def, m) : size >= bound
    BY <1>1, Zenon DEF MinHolds
  <2> QED
    BY <2>1, Zenon DEF AcceptedByMin
<1>3. (\A m \in def.max : MaxHolds(text, m, def.type)) <=> AcceptedByMax(def, text)
  <2>1. ASSUME NEW m \in def.max
        PROVE  MaxHolds(text, m, def.type)
                 <=> \A size \in Sizes(def, text), bound \in Bounds(def, m) : size <= bound
    BY <1>1, Zenon DEF MaxHolds
  <2> QED
    BY <2>1, Zenon DEF AcceptedByMax
<1>4. ASSUME NEW p \in def.pattern
      PROVE  PatternHolds(text, p) <=> text = Literal(p) /\ Plain(text)
  BY PatternHoldsIs DEF Spells
<1>5. (\A p \in def.pattern : PatternHolds(text, p)) <=> AcceptedByPattern(def, text)
  BY <1>4, Zenon DEF AcceptedByPattern
<1> QED
  BY <1>2, <1>3, <1>5

\* All checks hold of the values that are acceptable.
LEMMA ChecksHold ==
    ASSUME NEW def, NEW text, Spells(def)
    PROVE  /\ IsList(Checks(def, text))
           /\ \A i \in 1..Len(Checks(def, text)) : Checks(def, text)[i].constraint # "ok"
           /\ (\A i \in 1..Len(Checks(def, text)) : Checks(def, text)[i].holds)
                <=> Acceptable(def, text)
<1> DEFINE h1 == TypeHolds(text, def.type)
           h2 == \A p \in def.pattern : PatternHolds(text, p)
           h3 == \A m \in def.min : MinHolds(text, m, def.type)
           h4 == \A m \in def.max : MaxHolds(text, m, def.type)
           h5 == EnumHolds(text, def.options)
           c == <<[constraint |-> "type", holds |-> h1], [constraint |-> "pattern", holds |-> h2],
                  [constraint |-> "min", holds |-> h3], [constraint |-> "max", holds |-> h4],
                  [constraint |-> "enum", holds |-> h5]>>
<1>1. Checks(def, text) = c
  BY Zenon DEF Checks
<1>2. h1 /\ h2 /\ h3 /\ h4 /\ h5 <=> Acceptable(def, text)
  BY AcceptableIs, MinAndMax
<1> HIDE DEF h1, h2, h3, h4, h5
<1>3. /\ Len(c) = 5 /\ DOMAIN c = 1..5
      /\ c[1].constraint = "type" /\ c[2].constraint = "pattern" /\ c[3].constraint = "min"
      /\ c[4].constraint = "max" /\ c[5].constraint = "enum"
  OBVIOUS
<1>4. (c[1].holds <=> h1) /\ (c[2].holds <=> h2) /\ (c[3].holds <=> h3)
      /\ (c[4].holds <=> h4) /\ (c[5].holds <=> h5)
  OBVIOUS
<1> HIDE DEF c
<1>5. 1..5 = {1, 2, 3, 4, 5}
  OBVIOUS
<1>6. IsList(c)
  BY <1>3 DEF IsList
<1>7. \A i \in 1..5 : c[i].constraint # "ok"
  BY <1>3, <1>5
<1>8. (\A i \in 1..5 : c[i].holds) <=> h1 /\ h2 /\ h3 /\ h4 /\ h5
  BY <1>4, <1>5, Zenon
<1>9. (\A i \in 1..5 : c[i].holds) <=> Acceptable(def, text)
  BY <1>2, <1>8, Zenon
<1> QED
  BY <1>1, <1>3, <1>6, <1>7, <1>9, Zenon

\* A loop that stops at the first check that fails ends well if all hold.
LEMMA VerdictIs ==
    ASSUME NEW checks, IsList(checks), \A i \in 1..Len(checks) : checks[i].constraint # "ok"
    PROVE  FoldLeft(FirstFailed, "ok", checks) = "ok" <=> \A i \in 1..Len(checks) : checks[i].holds
<1> DEFINE n == Len(checks)
           H(i) == checks[i].holds
<1>1. n \in Nat
  BY DEF IsList
<1>2. PICK stage : TestedStages(stage, checks)
                   /\ FoldLeft(FirstFailed, "ok", checks) = stage[n]
  BY ChecksFold, Zenon
<1>3. /\ stage[0] = "ok"
      /\ \A k \in 0..(n - 1) : stage[k + 1] = FirstFailed(stage[k], checks[k + 1])
  BY <1>2 DEF TestedStages
<1> DEFINE good == {k \in Nat : k <= n => (stage[k] = "ok" <=> \A i \in 1..k : H(i))}
<1> HIDE DEF n, H
<1>4. 0 \in good
  <2>1. 1..0 = {}
    OBVIOUS
  <2>2. \A i \in 1..0 : H(i)
    BY <2>1
  <2> QED
    BY <1>3, <2>2
<1>5. ASSUME NEW k \in good PROVE k + 1 \in good
  <2> SUFFICES ASSUME k + 1 <= n PROVE stage[k + 1] = "ok" <=> \A i \in 1..(k + 1) : H(i)
    OBVIOUS
  <2>1. k \in Nat /\ k \in 0..(n - 1) /\ k <= n /\ k + 1 \in 1..n
    BY <1>1
  <2>2. stage[k] = "ok" <=> \A i \in 1..k : H(i)
    BY <2>1
  <2>3. stage[k + 1] = FirstFailed(stage[k], checks[k + 1])
    BY <1>3, <2>1
  <2>4. checks[k + 1].constraint # "ok"
    BY <2>1 DEF n
  <2>5. stage[k + 1] = "ok" <=> stage[k] = "ok" /\ H(k + 1)
    <3>1. CASE stage[k] = "ok" /\ ~H(k + 1)
      <4>1. stage[k + 1] = checks[k + 1].constraint
        BY <2>3, <3>1, Zenon DEF FirstFailed, H
      <4> QED
        BY <2>4, <3>1, <4>1
    <3>2. CASE ~(stage[k] = "ok" /\ ~H(k + 1))
      <4>1. stage[k + 1] = stage[k]
        BY <2>3, <3>2, Zenon DEF FirstFailed, H
      <4> QED
        BY <3>2, <4>1
    <3> QED
      BY <3>1, <3>2
  <2>6. 1..(k + 1) = (1..k) \cup {k + 1}
    BY <2>1
  <2> QED
    BY <2>2, <2>5, <2>6
<1> HIDE DEF good
<1>6. good = Nat
  <2>1. good \in SUBSET Nat
    BY DEF good
  <2> QED
    BY <1>4, <1>5, <2>1, SetInduction
<1>7. n \in good
  BY <1>1, <1>6
<1>8. stage[n] = "ok" <=> \A i \in 1..n : H(i)
  BY <1>1, <1>7 DEF good
<1> QED
  BY <1>2, <1>8, Zenon DEF n, H

\* One definition's validation.
LEMMA ParamValidated ==
    ASSUME NEW def, NEW value, Spells(def)
    PROVE  ValidateParam(def, value) = "ok"
             <=> IF value = {} THEN ~def.required ELSE Acceptable(def, Only(value))
<1>1. CASE value = {}
  BY <1>1 DEF ValidateParam
<1>2. CASE value # {}
  <2>1. ValidateParam(def, value) = FoldLeft(FirstFailed, "ok", Checks(def, Only(value)))
    BY <1>2, Zenon DEF ValidateParam
  <2> DEFINE checks == Checks(def, Only(value))
  <2>2. /\ IsList(checks)
        /\ \A i \in 1..Len(checks) : checks[i].constraint # "ok"
        /\ (\A i \in 1..Len(checks) : checks[i].holds) <=> Acceptable(def, Only(value))
    BY ChecksHold
  <2> HIDE DEF checks
  <2>3. FoldLeft(FirstFailed, "ok", checks) = "ok" <=> Acceptable(def, Only(value))
    BY <2>2, VerdictIs, Zenon
  <2> QED
    BY <1>2, <2>1, <2>3, Zenon DEF checks
<1> QED
  BY <1>1, <1>2

\* The verdict over all definitions is that of the first that is violated.
LEMMA ParamsValidated ==
    ASSUME NEW defs, IsList(defs), NEW params
    PROVE  LET verdict == ValidateParams(defs, params)
               ok(i) == ValidateParam(defs[i], FirstNamed(params, defs[i].name)) = "ok"
           IN  /\ verdict.constraint = "ok" => \A i \in 1..Len(defs) : ok(i)
               /\ verdict.constraint # "ok" =>
                     \E i \in 1..Len(defs) : verdict.param = defs[i].name /\ ~ok(i)
<1> DEFINE n == Len(defs)
           verdict == ValidateParams(defs, params)
           ok(i) == ValidateParam(defs[i], FirstNamed(params, defs[i].name)) = "ok"
<1>1. n \in Nat
  BY DEF IsList
<1>2. PICK stage : VerdictStages(stage, defs, params) /\ verdict = stage[n]
  BY ValidateFold, Zenon
<1>3. /\ stage[0] = [param |-> "", constraint |-> "ok"]
      /\ \A k \in 0..(n - 1) : stage[k + 1] = Validated(params, stage[k], defs[k + 1])
  BY <1>2 DEF VerdictStages
<1> DEFINE Right(k) == /\ stage[k].constraint = "ok" => \A i \in 1..k : ok(i)
                       /\ stage[k].constraint # "ok" =>
                             \E i \in 1..k : stage[k].param = defs[i].name /\ ~ok(i)
           good == {k \in Nat : k <= n => Right(k)}
<1> HIDE DEF n, ok, verdict
<1>4. 0 \in good
  <2>a. stage[0].constraint = "ok"
    <3>1. stage[0] = [param |-> "", constraint |-> "ok"]
      BY <1>3
    <3>2. \A x : [param |-> x, constraint |-> "ok"].constraint = "ok"
      OBVIOUS
    <3> QED
      BY <3>1, <3>2, Zenon
  <2>b. 1..0 = {}
    OBVIOUS
  <2>1. 1..0 = {} /\ stage[0].constraint = "ok"
    BY <2>a, <2>b
  <2>2. Right(0)
    BY <2>1
  <2> QED
    BY <2>2
<1>5. ASSUME NEW k \in good PROVE k + 1 \in good
  <2> SUFFICES ASSUME k + 1 <= n PROVE Right(k + 1)
    OBVIOUS
  <2>1. k \in Nat /\ k \in 0..(n - 1) /\ k <= n /\ k + 1 \in 1..n
    BY <1>1
  <2>2. Right(k)
    BY <2>1
  <2>3. stage[k + 1] = Validated(params, stage[k], defs[k + 1])
    BY <1>3, <2>1
  <2>4. 1..(k + 1) = (1..k) \cup {k + 1}
    BY <2>1
  <2>5. CASE stage[k].constraint # "ok"
    <3>1. stage[k + 1] = stage[k]
      BY <2>3, <2>5, Zenon DEF Validated
    <3> QED
      BY <2>2, <2>4, <2>5, <3>1
  <2>6. CASE stage[k].constraint = "ok"
    <3> DEFINE v == ValidateParam(defs[k + 1], FirstNamed(params, defs[k + 1].name))
    <3>1. stage[k + 1] = [param |-> defs[k + 1].name, constraint |-> v]
      BY <2>3, <2>6, Zenon DEF Validated
    <3>2. ok(k + 1) <=> v = "ok"
      BY Zenon DEF ok
    <3> HIDE DEF v
    <3>3. stage[k + 1].param = defs[k + 1].name /\ stage[k + 1].constraint = v
      BY <3>1
    <3> QED
      BY <2>2, <2>4, <2>6, <3>2, <3>3
  <2> QED
    BY <2>5, <2>6
<1> HIDE DEF good
<1>6. good = Nat
  <2>1. good \in SUBSET Nat
    BY DEF good
  <2> QED
    BY <1>4, <1>5, <2>1, SetInduction
<1>7. n \in good
  BY <1>1, <1>6
<1>8. Right(n)
  BY <1>1, <1>7 DEF good
<1> HIDE DEF Right
<1>9. /\ verdict.constraint = "ok" => \A i \in 1..n : ok(i)
      /\ verdict.constraint # "ok" =>
            \E i \in 1..n : verdict.param = defs[i].name /\ ~ok(i)
  BY <1>2, <1>8, Zenon DEF Right
<1> QED
  BY <1>9, Zenon DEF n, verdict, ok

-----------------------------------------------------------------------------
(* Execution.                                                               *)

\* What is collected, in terms of what the calls meant.
LEMMA CollectedAsMeant ==
    ASSUME NEW defs, IsList(defs), NEW calls, NEW params,
           \A i \in DOMAIN defs : ValueOf(params, defs[i]) = Meant(defs[i], calls)
    PROVE  ValuesAsMeant(CollectParams(defs, params), defs, calls)
<1> DEFINE n == Len(defs)
           values == CollectParams(defs, params)
           due == DueOf(defs, calls)
           place(i) == PlaceOf(defs, calls, i)
           V(i) == Valued(defs, params, i)
<1>1. n \in Nat /\ DOMAIN defs = 1..n
  BY DEF IsList
<1>2. due = V(n)
  BY <1>1 DEF Valued, DueOf
<1>3. ASSUME NEW i \in due PROVE {j \in due : j <= i} = V(i)
  <2>1. i \in 1..n
    BY <1>1 DEF DueOf
  <2>2. \A j : j \in 1..n /\ j <= i <=> j \in 1..i
    BY <1>1, <2>1
  <2>3. \A j \in 1..n : j \in due <=> ValueOf(params, defs[j]) # {}
    BY <1>1 DEF DueOf
  <2>4. due \subseteq 1..n
    BY <1>1 DEF DueOf
  <2> HIDE DEF due, n
  <2> QED
    BY <2>2, <2>3, <2>4 DEF Valued
<1>4. \A i \in due : place(i) = Cardinality(V(i))
  BY <1>3, Zenon DEF PlaceOf
<1>5. CollectedBy(values, defs, params, n)
  BY CollectedAll
<1>6. IsSequence(values)
  BY <1>5 DEF CollectedBy
<1>7. DOMAIN values = 1..Len(values) /\ Len(values) \in Nat
  <2>1. PICK S : values \in Seq(S)
    BY <1>6 DEF IsSequence
  <2> HIDE DEF values
  <2> QED
    BY <2>1
<1> HIDE DEF values, due, place, V
<1>8. /\ Len(values) = Cardinality(V(n))
      /\ \A i \in V(n) : /\ Cardinality(V(i)) \in 1..Len(values)
                         /\ values[Cardinality(V(i))] = Gathered(params, defs[i])
      /\ \A v \in 1..Len(values) : \E i \in V(n) : v = Cardinality(V(i))
  BY <1>5, Zenon DEF CollectedBy, V
<1>9. ASSUME NEW i \in due
      PROVE  /\ place(i) \in DOMAIN values /\ values[place(i)].name = defs[i].name
             /\ values[place(i)].value = Only(Meant(defs[i], calls))
             /\ values[place(i)].type = defs[i].type
  <2>1. place(i) \in DOMAIN values /\ values[place(i)] = Gathered(params, defs[i])
    BY <1>2, <1>4, <1>7, <1>8
  <2>2. ValueOf(params, defs[i]) = Meant(defs[i], calls)
    BY DEF due, DueOf
  <2>3. values[place(i)].name = defs[i].name
        /\ values[place(i)].value = Only(ValueOf(params, defs[i]))
        /\ values[place(i)].type = defs[i].type
    BY <2>1 DEF Gathered
  <2> QED
    BY <2>1, <2>2, <2>3
<1>10. \A v \in DOMAIN values : \E i \in due : v = place(i)
  BY <1>2, <1>4, <1>7, <1>8
<1>11. Len(values) = Cardinality(due)
  BY <1>2, <1>8
<1> QED
  BY <1>7, <1>9, <1>10, <1>11, Zenon DEF values, due, place, ValuesAsMeant

\* The first value of a name is one of a definition of that name; of the only one, it is
\* its own.
LEMMA FirstNamedIs ==
    ASSUME NEW defs, IsList(defs), NEW calls, NEW params,
           \A i \in DOMAIN defs : ValueOf(params, defs[i]) = Meant(defs[i], calls),
           NEW i \in DOMAIN defs
    PROVE  FirstAsMeant(FirstNamed(CollectParams(defs, params), defs[i].name), defs, calls, i)
<1> DEFINE values == CollectParams(defs, params)
           due == DueOf(defs, calls)
           place(j) == PlaceOf(defs, calls, j)
           named == {v \in DOMAIN values : values[v].name = defs[i].name}
           first == FirstNamed(values, defs[i].name)
<1>1. /\ DOMAIN values = 1..Len(values) /\ Len(values) \in Nat
      /\ \A j \in due : /\ place(j) \in DOMAIN values
                        /\ values[place(j)].name = defs[j].name
                        /\ values[place(j)].value = Only(Meant(defs[j], calls))
      /\ \A v \in DOMAIN values : \E j \in due : v = place(j)
  <2>1. ValuesAsMeant(values, defs, calls)
    BY CollectedAsMeant
  <2> HIDE DEF values
  <2> QED
    BY <2>1, Zenon DEF ValuesAsMeant
<1> HIDE DEF values
<1>2. first = IF named = {} THEN {} ELSE {values[Min(named)].value}
  BY Zenon DEF FirstNamed
<1>3. i \in due <=> Meant(defs[i], calls) # {}
  BY DEF DueOf
<1> HIDE DEF due, place
<1>4. CASE named = {}
  <2>1. i \notin due
    BY <1>1, <1>4
  <2> HIDE DEF named
  <2>2. first = {}
    BY <1>2, <1>4
  <2> HIDE DEF first
  <2>3. (first = {} => Meant(defs[i], calls) = {}) /\ first = {}
    BY <1>3, <2>1, <2>2
  <2> QED
    BY <2>3, Zenon DEF first, values, FirstAsMeant
<1>5. CASE named # {}
  <2> DEFINE v == Min(named)
  <2>1. v \in named
    <3>1. named \in SUBSET Nat
      BY <1>1
    <3> HIDE DEF named
    <3> QED
      BY <1>5, <3>1, MinIs
  <2>2. v \in DOMAIN values /\ values[v].name = defs[i].name
    BY <2>1
  <2>3. first = {values[v].value}
    BY <1>2, <1>5, Zenon
  <2> HIDE DEF v, first
  <2>4. PICK j \in due : v = place(j)
    BY <1>1, <2>2
  <2>5. defs[j].name = defs[i].name /\ values[v].value = Only(Meant(defs[j], calls))
    BY <1>1, <2>2, <2>4
  <2>6. first # {} /\ first = {Only(Meant(defs[j], calls))}
    BY <2>3, <2>5
  <2> QED
    BY <2>4, <2>5, <2>6, Zenon DEF first, due, values, FirstAsMeant
<1> QED
  BY <1>4, <1>5

\* What is executed is sent as meant, or rejected for a reason.
LEMMA ExecutedFairly ==
    ASSUME NEW action, NEW params, NEW consent, NEW calls, IsList(calls),
           Carries(params, calls, Len(calls)),
           IsList(action.params), \A i \in DOMAIN action.params : Spells(action.params[i])
    PROVE  LET defs == action.params
               r == Execute(Building(action, params, consent))
           IN  \/ r.outcome = "sent" /\ SentFairly(defs, calls, r.values)
               \/ r.outcome = "rejected" /\ RejectedFairly(defs, calls, r.param)
<1> DEFINE defs == action.params
           b == Building(action, params, consent)
           r == Execute(b)
           n == Len(defs)
           values == CollectParams(defs, params)
           verdict == ValidateParams(defs, values)
           missing == MissingParams(b)
           M(i) == Meant(defs[i], calls)
           due == DueOf(defs, calls)
           place(i) == PlaceOf(defs, calls, i)
           first(i) == FirstNamed(values, defs[i].name)
           ok(i) == ValidateParam(defs[i], first(i)) = "ok"
<1>1. n \in Nat /\ DOMAIN defs = 1..n
  BY DEF IsList
<1>2. \A i \in DOMAIN defs : ValueOf(params, defs[i]) = M(i)
  BY MeantIs
<1>3. /\ Len(values) = Cardinality(due)
      /\ \A i \in due : /\ place(i) \in DOMAIN values
                        /\ values[place(i)].name = defs[i].name
                        /\ values[place(i)].value = Only(M(i))
      /\ \A v \in DOMAIN values : \E i \in due : v = place(i)
  <2>1. ValuesAsMeant(values, defs, calls)
    BY <1>2, CollectedAsMeant
  <2> HIDE DEF values
  <2> QED
    BY <2>1, Zenon DEF ValuesAsMeant
<1>4. \A i \in DOMAIN defs :
         /\ first(i) = {} => M(i) = {}
         /\ first(i) # {} => \E j \in due : defs[j].name = defs[i].name /\ first(i) = {Only(M(j))}
  <2>1. \A i \in DOMAIN defs : FirstAsMeant(first(i), defs, calls, i)
    BY <1>2, FirstNamedIs
  <2> HIDE DEF first
  <2> QED
    BY <2>1, Zenon DEF FirstAsMeant
<1>5. \A i \in DOMAIN defs :
         ok(i) <=> IF first(i) = {} THEN ~defs[i].required
                   ELSE Acceptable(defs[i], Only(first(i)))
  BY ParamValidated
<1>6. /\ verdict.constraint = "ok" => \A i \in 1..n : ok(i)
      /\ verdict.constraint # "ok" => \E i \in 1..n : verdict.param = defs[i].name /\ ~ok(i)
  BY ParamsValidated
<1>7. b.action = action /\ b.params = params
  BY DEF Building
<1>8. missing = {i \in DOMAIN defs : /\ defs[i].required /\ defs[i].default = {}
                                     /\ \A k \in DOMAIN params : params[k].name # defs[i].name}
  <2> HIDE DEF b
  <2>1. MissingParams(b)
          = {i \in DOMAIN action.params :
                LET def == action.params[i]
                IN  /\ def.required /\ def.default = {}
                    /\ \A k \in DOMAIN params : params[k].name # def.name}
    BY <1>7, Zenon DEF MissingParams
  <2> QED
    BY <2>1
<1>9. ASSUME NEW i \in missing PROVE defs[i].required /\ M(i) = {}
  <2>1. ValueOf(params, defs[i]) = defs[i].default
    BY <1>8 DEF ValueOf, UserValue
  <2> QED
    BY <1>2, <1>8, <2>1
<1>9b. ASSUME missing = {}, NEW i \in DOMAIN defs, defs[i].required PROVE M(i) # {}
  <2>1. defs[i].default # {} \/ \E k \in DOMAIN params : params[k].name = defs[i].name
    BY <1>8, <1>9b
  <2>2. ValueOf(params, defs[i]) # {}
    BY <2>1 DEF ValueOf, UserValue
  <2> QED
    BY <1>2, <2>2
<1>10. \/ missing # {} /\ r = Rejected(defs[Min(missing)].name, "required")
       \/ missing = {} /\ verdict.constraint # "ok" /\ r = Rejected(verdict.param, verdict.constraint)
       \/ missing = {} /\ verdict.constraint = "ok"
          /\ r = [outcome |-> "sent", values |-> values,
                  body |-> EncodeBody(action.enctype, values)]
  <2> HIDE DEF b
  <2>1. r = CASE missing # {} -> Rejected(defs[Min(missing)].name, "required")
              [] missing = {} /\ verdict.constraint # "ok" ->
                    Rejected(verdict.param, verdict.constraint)
              [] OTHER -> [outcome |-> "sent", values |-> values,
                           body |-> EncodeBody(action.enctype, values)]
    BY <1>7, Zenon DEF Execute
  <2> HIDE DEF missing, verdict, values, r
  <2> QED
    BY <2>1
<1> HIDE DEF b, values, verdict, missing, due, place, first, ok, M, r
<1>11. \A i \in DOMAIN defs : i \in due <=> M(i) # {}
  BY DEF due, DueOf, M
<1>12. CASE missing # {} /\ r = Rejected(defs[Min(missing)].name, "required")
  <2> DEFINE i == Min(missing)
  <2>1. missing \in SUBSET Nat /\ missing \subseteq DOMAIN defs
    BY <1>1, <1>8
  <2>2. i \in missing
    BY <1>12, <2>1, MinIs
  <2> HIDE DEF i
  <2>3. i \in DOMAIN defs /\ defs[i].required /\ M(i) = {}
    BY <1>9, <2>1, <2>2
  <2>4. r.outcome = "rejected" /\ r.param = defs[i].name
    BY <1>12 DEF Rejected, i
  <2>5. RejectedFairly(defs, calls, r.param)
    BY <2>3, <2>4 DEF RejectedFairly, M
  <2> QED
    BY <2>4, <2>5 DEF r, b
<1>13. CASE verdict.constraint # "ok" /\ r = Rejected(verdict.param, verdict.constraint)
  <2>1. PICK i \in 1..n : verdict.param = defs[i].name /\ ~ok(i)
    BY <1>6, <1>13
  <2>2. r.outcome = "rejected" /\ r.param = defs[i].name
    BY <1>13, <2>1 DEF Rejected
  <2>3. ASSUME first(i) = {} PROVE RejectedFairly(defs, calls, r.param)
    <3>1. defs[i].required /\ M(i) = {}
      BY <1>1, <1>4, <1>5, <2>1, <2>3
    <3> QED
      BY <1>1, <2>1, <2>2, <3>1 DEF RejectedFairly, M
  <2>4. ASSUME first(i) # {} PROVE RejectedFairly(defs, calls, r.param)
    <3>1. PICK j \in due : defs[j].name = defs[i].name /\ first(i) = {Only(M(j))}
      BY <1>1, <1>4, <2>4
    <3>2. j \in DOMAIN defs /\ M(j) # {}
      BY DEF due, DueOf, M
    <3>3. Only(M(j)) \in M(j)
      BY <3>2 DEF Only
    <3>4. Only(first(i)) = Only(M(j))
      BY <3>1 DEF Only
    <3>5. ~Acceptable(defs[i], Only(M(j)))
      BY <1>1, <1>5, <2>1, <2>4, <3>4
    <3>6. RejectedFairly(defs, calls, r.param)
      BY <1>1, <2>1, <2>2, <3>1, <3>2, <3>3, <3>5 DEF RejectedFairly, M
    <3> QED
      BY <3>6
  <2>5. RejectedFairly(defs, calls, r.param)
    BY <2>3, <2>4
  <2> QED
    BY <2>2, <2>5 DEF r, b
<1>14. CASE /\ missing = {} /\ verdict.constraint = "ok"
            /\ r = [outcome |-> "sent", values |-> values,
                    body |-> EncodeBody(action.enctype, values)]
  <2>1. r.outcome = "sent" /\ r.values = values
    BY <1>14
  <2>2. \A i \in 1..n : ok(i)
    BY <1>6, <1>14
  <2>3. \A i \in DOMAIN defs : defs[i].required => i \in due
    BY <1>9b, <1>11, <1>14
  <2>4. ASSUME OwnNames(defs), NEW i \in due PROVE Acceptable(defs[i], Only(M(i)))
    <3>1. i \in DOMAIN defs /\ M(i) # {}
      BY DEF due, DueOf, M
    <3>2. first(i) # {}
      BY <1>4, <3>1
    <3>3. PICK j \in due : defs[j].name = defs[i].name /\ first(i) = {Only(M(j))}
      BY <1>4, <3>1, <3>2
    <3>4. j \in DOMAIN defs
      BY DEF due, DueOf
    <3>5. j = i
      BY <2>4, <3>1, <3>3, <3>4 DEF OwnNames
    <3>6. Only(first(i)) = Only(M(i))
      BY <3>3, <3>5 DEF Only
    <3>7. Acceptable(defs[i], Only(first(i)))
      BY <1>1, <1>5, <2>2, <3>1, <3>2
    <3> QED
      BY <3>6, <3>7
  <2>5. /\ Len(values) = Cardinality(due)
        /\ \A i \in due : /\ values[place(i)].name = defs[i].name
                          /\ values[place(i)].value = Only(M(i))
        /\ \A i \in DOMAIN defs : defs[i].required => i \in due
        /\ OwnNames(defs) => \A i \in due : Acceptable(defs[i], Only(M(i)))
    BY <1>3, <2>3, <2>4
  <2>6. SentFairly(defs, calls, values)
    BY <2>5, Zenon DEF SentFairly, due, DueOf, place, PlaceOf, M
  <2> QED
    BY <2>1, <2>6 DEF r, b
<1> QED
  BY <1>10, <1>12, <1>13, <1>14

\* Whatever an application calls, a request carries for each declared parameter the value
\* it was last given, or its default, in document order, none that is required is missing,
\* and each is acceptable; and a parameter it is refused for lacks a value it needs or has
\* one that is not acceptable.
THEOREM RequestsAsMeant == Spec => []SentAsMeant
<1>1. Answered => SentAsMeant
  <2> SUFFICES ASSUME Answered, Returned("request") PROVE SentAsMeant
    BY DEF SentAsMeant, Sent, Refused
  <2> DEFINE actions == call.actions
             id == call.id
             calls == call.calls
             action == Only(FindAction(actions, id))
             b == Build(actions, id, calls)
             defs == RequestedAction.params
  <2>1. /\ IsList(actions) /\ IsList(calls)
        /\ \A k \in DOMAIN calls : calls[k].op \in RequestOps
        /\ \A a \in DOMAIN actions :
              /\ IsList(actions[a].params)
              /\ \A i \in DOMAIN actions[a].params : Spells(actions[a].params[i])
    BY RequestAssumption DEF Answered, Returned, RequestOps, SetterOps, Spells
  <2>2. result = IF b.outcome = "building" THEN Execute(b) ELSE b
    BY Zenon DEF Answered, Request
  <2>3. \/ Stopped(b)
        \/ /\ FindAction(actions, id) # {}
           /\ \E params, consent : /\ b = Building(action, params, consent)
                                   /\ Carries(params, calls, Len(calls))
    BY <2>1, RequestBuilt
  <2> HIDE DEF b
  <2>4. CASE Stopped(b)
    <3>1. result = b /\ result.outcome = "rejected" /\ result.param \in {"", "consent_basis"}
      BY <2>2, <2>4 DEF Stopped
    <3> QED
      BY <3>1 DEF SentAsMeant, Sent, Refused
  <2>5. CASE /\ FindAction(actions, id) # {}
             /\ \E params, consent : /\ b = Building(action, params, consent)
                                     /\ Carries(params, calls, Len(calls))
    <3>1. PICK params, consent : /\ b = Building(action, params, consent)
                                 /\ Carries(params, calls, Len(calls))
      BY <2>5
    <3>2. action = RequestedAction /\ \E a \in DOMAIN actions : action = actions[a]
      <4>1. RequestedAction = FirstAction(actions, id)
        BY Zenon DEF RequestedAction, FirstAction
      <4> HIDE DEF actions
      <4> QED
        BY <2>1, <2>5, <4>1, ActionFound
    <3> HIDE DEF action, actions
    <3>3. IsList(action.params) /\ \A i \in DOMAIN action.params : Spells(action.params[i])
      BY <2>1, <3>2
    <3>4. result = Execute(Building(action, params, consent))
      BY <2>2, <3>1 DEF Building
    <3>5. \/ result.outcome = "sent" /\ SentFairly(action.params, calls, result.values)
          \/ result.outcome = "rejected" /\ RejectedFairly(action.params, calls, result.param)
      BY <2>1, <3>1, <3>3, <3>4, ExecutedFairly
    <3>6. \/ result.outcome = "sent" /\ SentFairly(defs, calls, result.values)
          \/ result.outcome = "rejected" /\ RejectedFairly(defs, calls, result.param)
      BY <3>2, <3>5
    <3>7. result.outcome = "sent" => SentFairly(defs, calls, result.values)
      BY <3>6
    <3>8. result.outcome = "rejected" => RejectedFairly(defs, calls, result.param)
      BY <3>6
    <3> QED
      BY <3>7, <3>8, Zenon DEF SentAsMeant, Sent, Refused, SentFairly, RejectedFairly
  <2> QED
    BY <2>3, <2>4, <2>5
<1> QED
  BY <1>1, AnsweredAlways, PTL

-----------------------------------------------------------------------------
(* Folds of a request's body.                                               *)

\* The number that the first digits spell.
LEMMA NumberFold ==
    ASSUME NEW digits, IsList(digits)
    PROVE  \E stage : SpelledStages(stage, digits) /\ Value(digits) = stage[Len(digits)]
<1> DEFINE n == Len(digits)
           how == [fold |-> "number"]
           Nothing == 0
           Added(prior, item) == 10 * prior + Digit[item]
           Original(g) == g = [S \in SUBSET (DOMAIN digits) |->
               IF S = {} THEN Nothing ELSE Added(g[S \ {Max(S)}], digits[Max(S)])]
           iter == CHOOSE g : Original(g)
<1>1. n \in Nat /\ DOMAIN digits = 1..n
  BY DEF IsList
<1>2. /\ Start(how) = Nothing
      /\ \A prior, item : Stepped(how, prior, item) = Added(prior, item)
  BY Zenon DEF Start, Stepped
<1>3. Value(digits) = iter[DOMAIN digits]
  BY Zenon DEF Value, FoldLeft, MapThenFoldSet
<1> HIDE DEF how, Nothing, Added
<1>4. \A g : Original(g) <=> IsUnfolding(how, g, digits, n)
  BY <1>1, <1>2, Zenon DEF IsUnfolding, Unfolding
<1> HIDE DEF Original
<1>5. \E g : Original(g)
  <2>1. \E g : IsUnfolding(how, g, digits, n)
    BY <1>1, UnfoldingExists, Zenon
  <2> QED
    BY <1>4, <2>1, Zenon
<1>6. Original(iter)
  BY <1>5, Zenon
<1> HIDE DEF iter
<1>7. PICK stage : Folded(how, digits, n, stage) /\ iter[1..n] = stage[n]
  BY <1>1, <1>4, <1>6, UnfoldingStages
<1>8. /\ stage[0] = Nothing
      /\ \A k \in 0..(n - 1) : stage[k + 1] = Added(stage[k], digits[k + 1])
  BY <1>2, <1>7, Zenon DEF Folded
<1>9. SpelledStages(stage, digits)
  BY <1>8, Zenon DEF SpelledStages, Nothing, Added
<1>10. Value(digits) = stage[n]
  BY <1>1, <1>3, <1>7
<1> QED
  BY <1>9, <1>10, Zenon

\* The bytes of the first characters.
LEMMA TextFold ==
    ASSUME NEW text, IsList(text)
    PROVE  \E stage : WrittenStages(stage, text) /\ BytesOf(text) = stage[Len(text)]
<1> DEFINE n == Len(text)
           how == [fold |-> "text"]
           Nothing == << >>
           Added(prior, item) == prior \o Bytes(item)
           Original(g) == g = [S \in SUBSET (DOMAIN text) |->
               IF S = {} THEN Nothing ELSE Added(g[S \ {Max(S)}], text[Max(S)])]
           iter == CHOOSE g : Original(g)
<1>1. n \in Nat /\ DOMAIN text = 1..n
  BY DEF IsList
<1>2. /\ Start(how) = Nothing
      /\ \A prior, item : Stepped(how, prior, item) = Added(prior, item)
  BY Zenon DEF Start, Stepped
<1>3. BytesOf(text) = iter[DOMAIN text]
  BY Zenon DEF BytesOf, FoldLeft, MapThenFoldSet
<1> HIDE DEF how, Nothing, Added
<1>4. \A g : Original(g) <=> IsUnfolding(how, g, text, n)
  BY <1>1, <1>2, Zenon DEF IsUnfolding, Unfolding
<1> HIDE DEF Original
<1>5. \E g : Original(g)
  <2>1. \E g : IsUnfolding(how, g, text, n)
    BY <1>1, UnfoldingExists, Zenon
  <2> QED
    BY <1>4, <2>1, Zenon
<1>6. Original(iter)
  BY <1>5, Zenon
<1> HIDE DEF iter
<1>7. PICK stage : Folded(how, text, n, stage) /\ iter[1..n] = stage[n]
  BY <1>1, <1>4, <1>6, UnfoldingStages
<1>8. /\ stage[0] = Nothing
      /\ \A k \in 0..(n - 1) : stage[k + 1] = Added(stage[k], text[k + 1])
  BY <1>2, <1>7, Zenon DEF Folded
<1>9. WrittenStages(stage, text)
  BY <1>8, Zenon DEF WrittenStages, Nothing, Added
<1>10. BytesOf(text) = stage[n]
  BY <1>1, <1>3, <1>7
<1> QED
  BY <1>9, <1>10, Zenon

\* The body after each pair.
LEMMA PairsFold ==
    ASSUME NEW params, IsList(params)
    PROVE  \E stage : PairStages(stage, params) /\ EncodeUrlencoded(params) = stage[Len(params)]
<1> DEFINE n == Len(params)
           how == [fold |-> "pairs"]
           Nothing == << >>
           Added(prior, item) == Joined(prior, item)
           Original(g) == g = [S \in SUBSET (DOMAIN params) |->
               IF S = {} THEN Nothing ELSE Added(g[S \ {Max(S)}], params[Max(S)])]
           iter == CHOOSE g : Original(g)
<1>1. n \in Nat /\ DOMAIN params = 1..n
  BY DEF IsList
<1>2. /\ Start(how) = Nothing
      /\ \A prior, item : Stepped(how, prior, item) = Added(prior, item)
  BY Zenon DEF Start, Stepped
<1>3. EncodeUrlencoded(params) = iter[DOMAIN params]
  BY Zenon DEF EncodeUrlencoded, FoldLeft, MapThenFoldSet
<1> HIDE DEF how, Nothing, Added
<1>4. \A g : Original(g) <=> IsUnfolding(how, g, params, n)
  BY <1>1, <1>2, Zenon DEF IsUnfolding, Unfolding
<1> HIDE DEF Original
<1>5. \E g : Original(g)
  <2>1. \E g : IsUnfolding(how, g, params, n)
    BY <1>1, UnfoldingExists, Zenon
  <2> QED
    BY <1>4, <2>1, Zenon
<1>6. Original(iter)
  BY <1>5, Zenon
<1> HIDE DEF iter
<1>7. PICK stage : Folded(how, params, n, stage) /\ iter[1..n] = stage[n]
  BY <1>1, <1>4, <1>6, UnfoldingStages
<1>8. /\ stage[0] = Nothing
      /\ \A k \in 0..(n - 1) : stage[k + 1] = Added(stage[k], params[k + 1])
  BY <1>2, <1>7, Zenon DEF Folded
<1>9. PairStages(stage, params)
  BY <1>8, Zenon DEF PairStages, Nothing, Added
<1>10. EncodeUrlencoded(params) = stage[n]
  BY <1>1, <1>3, <1>7
<1> QED
  BY <1>9, <1>10, Zenon

\* The values of a name among the first parameters.
LEMMA ValuesFold ==
    ASSUME NEW name, NEW params, IsList(params)
    PROVE  \E stage : ValueStages(stage, name, params) /\ GatheredOf(params, name) = stage[Len(params)]
<1> DEFINE n == Len(params)
           how == [fold |-> "values", name |-> name]
           Nothing == << >>
           Added(prior, item) == Gathers(name, prior, item)
           Original(g) == g = [S \in SUBSET (DOMAIN params) |->
               IF S = {} THEN Nothing ELSE Added(g[S \ {Max(S)}], params[Max(S)])]
           iter == CHOOSE g : Original(g)
<1>1. n \in Nat /\ DOMAIN params = 1..n
  BY DEF IsList
<1>2. /\ Start(how) = Nothing
      /\ \A prior, item : Stepped(how, prior, item) = Added(prior, item)
  BY Zenon DEF Start, Stepped
<1>3. GatheredOf(params, name) = iter[DOMAIN params]
  BY Zenon DEF GatheredOf, FoldLeft, MapThenFoldSet
<1> HIDE DEF how, Nothing, Added
<1>4. \A g : Original(g) <=> IsUnfolding(how, g, params, n)
  BY <1>1, <1>2, Zenon DEF IsUnfolding, Unfolding
<1> HIDE DEF Original
<1>5. \E g : Original(g)
  <2>1. \E g : IsUnfolding(how, g, params, n)
    BY <1>1, UnfoldingExists, Zenon
  <2> QED
    BY <1>4, <2>1, Zenon
<1>6. Original(iter)
  BY <1>5, Zenon
<1> HIDE DEF iter
<1>7. PICK stage : Folded(how, params, n, stage) /\ iter[1..n] = stage[n]
  BY <1>1, <1>4, <1>6, UnfoldingStages
<1>8. /\ stage[0] = Nothing
      /\ \A k \in 0..(n - 1) : stage[k + 1] = Added(stage[k], params[k + 1])
  BY <1>2, <1>7, Zenon DEF Folded
<1>9. ValueStages(stage, name, params)
  BY <1>8, Zenon DEF ValueStages, Nothing, Added
<1>10. GatheredOf(params, name) = stage[n]
  BY <1>1, <1>3, <1>7
<1> QED
  BY <1>9, <1>10, Zenon

\* The members after each parameter.
LEMMA MembersFold ==
    ASSUME NEW params, IsList(params)
    PROVE  \E stage : MemberStages(stage, params) /\ EncodeJson(params) = stage[Len(params)]
<1> DEFINE n == Len(params)
           how == [fold |-> "members", params |-> params]
           Nothing == << >>
           Added(prior, item) == Emitted(params, prior, item)
           Original(g) == g = [S \in SUBSET (DOMAIN params) |->
               IF S = {} THEN Nothing ELSE Added(g[S \ {Max(S)}], params[Max(S)])]
           iter == CHOOSE g : Original(g)
<1>1. n \in Nat /\ DOMAIN params = 1..n
  BY DEF IsList
<1>2. /\ Start(how) = Nothing
      /\ \A prior, item : Stepped(how, prior, item) = Added(prior, item)
  BY Zenon DEF Start, Stepped
<1>3. EncodeJson(params) = iter[DOMAIN params]
  BY Zenon DEF EncodeJson, FoldLeft, MapThenFoldSet
<1> HIDE DEF how, Nothing, Added
<1>4. \A g : Original(g) <=> IsUnfolding(how, g, params, n)
  BY <1>1, <1>2, Zenon DEF IsUnfolding, Unfolding
<1> HIDE DEF Original
<1>5. \E g : Original(g)
  <2>1. \E g : IsUnfolding(how, g, params, n)
    BY <1>1, UnfoldingExists, Zenon
  <2> QED
    BY <1>4, <2>1, Zenon
<1>6. Original(iter)
  BY <1>5, Zenon
<1> HIDE DEF iter
<1>7. PICK stage : Folded(how, params, n, stage) /\ iter[1..n] = stage[n]
  BY <1>1, <1>4, <1>6, UnfoldingStages
<1>8. /\ stage[0] = Nothing
      /\ \A k \in 0..(n - 1) : stage[k + 1] = Added(stage[k], params[k + 1])
  BY <1>2, <1>7, Zenon DEF Folded
<1>9. MemberStages(stage, params)
  BY <1>8, Zenon DEF MemberStages, Nothing, Added
<1>10. EncodeJson(params) = stage[n]
  BY <1>1, <1>3, <1>7
<1> QED
  BY <1>9, <1>10, Zenon

-----------------------------------------------------------------------------
(* Digits and numerals.                                                     *)

\* The digits are the ten that stand for 0 to 9.
LEMMA DigitType ==
    /\ DOMAIN Digit = DigitSet
    /\ \A d \in DigitSet : Digit[d] \in 0..9
    /\ \A n \in 0..9 : Digits[n + 1] \in DigitSet
<1>1. DOMAIN Digit = DigitSet
  BY DEF Digit, DigitSet
<1>2. \A n \in 0..9 : Digits[n + 1] \in DigitSet
  BY DEF Digits, DigitSet
<1>3. /\ Digits[0 + 1] = "0" /\ Digits[1 + 1] = "1" /\ Digits[2 + 1] = "2" /\ Digits[3 + 1] = "3"
      /\ Digits[4 + 1] = "4" /\ Digits[5 + 1] = "5" /\ Digits[6 + 1] = "6" /\ Digits[7 + 1] = "7"
      /\ Digits[8 + 1] = "8" /\ Digits[9 + 1] = "9"
  BY DEF Digits
<1>4. \A d \in DigitSet : \E n \in 0..9 : Digits[n + 1] = d
  BY <1>3 DEF DigitSet
<1>5. \A d \in DigitSet : Digit[d] \in 0..9
  <2> TAKE d \in DigitSet
  <2>1. Digit[d] = CHOOSE n \in 0..9 : Digits[n + 1] = d
    BY DEF Digit, DigitSet
  <2> QED
    BY <1>4, <2>1
<1> QED
  BY <1>1, <1>2, <1>5

\* A text of digits spells a natural number.
LEMMA ValueType ==
    ASSUME NEW digits, IsList(digits), \A i \in DOMAIN digits : digits[i] \in DOMAIN Digit
    PROVE  Value(digits) \in Nat
<1> DEFINE n == Len(digits)
<1>1. n \in Nat /\ DOMAIN digits = 1..n
  BY DEF IsList
<1>2. PICK stage : SpelledStages(stage, digits) /\ Value(digits) = stage[n]
  BY NumberFold, Zenon
<1>3. /\ stage[0] = 0
      /\ \A k \in 0..(n - 1) : stage[k + 1] = 10 * stage[k] + Digit[digits[k + 1]]
  BY <1>2 DEF SpelledStages
<1>4. \A k \in 0..(n - 1) : Digit[digits[k + 1]] \in Nat
  <2> TAKE k \in 0..(n - 1)
  <2>1. k + 1 \in 1..n
    BY <1>1
  <2>2. digits[k + 1] \in DigitSet
    BY <1>1, <2>1, DigitType
  <2>3. Digit[digits[k + 1]] \in 0..9
    BY <2>2, DigitType, Zenon
  <2> QED
    BY <2>3
<1> DEFINE good == {k \in Nat : k <= n => stage[k] \in Nat}
<1> HIDE DEF n
<1>5. 0 \in good
  BY <1>3
<1>6. ASSUME NEW k \in good PROVE k + 1 \in good
  <2> SUFFICES ASSUME k + 1 <= n PROVE stage[k + 1] \in Nat
    OBVIOUS
  <2>1. k \in 0..(n - 1) /\ k <= n
    BY <1>1
  <2>2. stage[k] \in Nat
    BY <2>1
  <2> QED
    BY <1>3, <1>4, <2>1, <2>2
<1> HIDE DEF good
<1>7. good = Nat
  <2>1. good \in SUBSET Nat
    BY DEF good
  <2> QED
    BY <1>5, <1>6, <2>1, SetInduction
<1> QED
  BY <1>1, <1>2, <1>7 DEF good, n

\* A number of two digits or more loses one when it is divided by ten.
LEMMA TenthIsLess ==
    ASSUME NEW n \in Nat
    PROVE  /\ n \div 10 \in Nat /\ n \div 10 <= n /\ n % 10 \in 0..9
           /\ n >= 10 => n \div 10 < n
  OBVIOUS

\* There is one such function on each initial part of the naturals.
LEMMA DecimalOnParts ==
    ASSUME NEW n \in Nat
    PROVE  \E f : IsDecimal(f, n)
<1> DEFINE good == {k \in Nat : \E f : IsDecimal(f, k)}
<1>1. 0 \in good
  <2> DEFINE f == [i \in 0..0 |-> Spelling(i, << >>)]
  <2>1. \A i \in 0..0 : Spelling(i, << >>) = Spelling(i, f[i \div 10])
    BY DEF Spelling
  <2>2. f = [i \in 0..0 |-> Spelling(i, f[i \div 10])]
    BY <2>1
  <2> HIDE DEF f
  <2> QED
    BY <2>2 DEF IsDecimal
<1>2. ASSUME NEW k \in good PROVE k + 1 \in good
  <2>1. PICK f : IsDecimal(f, k)
    BY <1>2
  <2>2. k \in Nat
    OBVIOUS
  <2> DEFINE g == [i \in 0..(k + 1) |-> IF i = k + 1 THEN Spelling(i, f[i \div 10]) ELSE f[i]]
  <2>3. \A i \in 0..k : g[i] = f[i] /\ f[i] = Spelling(i, f[i \div 10])
    BY <2>1, <2>2 DEF IsDecimal
  <2>4. ASSUME NEW i \in 0..(k + 1) PROVE g[i] = Spelling(i, g[i \div 10])
    <3>1. g[i] = Spelling(i, f[i \div 10])
      <4>1. CASE i = k + 1
        BY <4>1
      <4>2. CASE i # k + 1
        <5>1. i \in 0..k
          BY <2>2, <4>2
        <5> HIDE DEF g
        <5> QED
          BY <2>3, <5>1
      <4> QED
        BY <4>1, <4>2
    <3>2. i \in Nat
      BY <2>2
    <3> HIDE DEF g
    <3>3. CASE i < 10
      BY <3>1, <3>3 DEF Spelling
    <3>4. CASE ~(i < 10)
      <4>1. i \div 10 \in 0..k
        BY <2>2, <3>2, <3>4, TenthIsLess
      <4> QED
        BY <2>3, <3>1, <4>1
    <3> QED
      BY <3>3, <3>4
  <2>5. g = [i \in 0..(k + 1) |-> Spelling(i, g[i \div 10])]
    BY <2>4
  <2> HIDE DEF g
  <2> QED
    BY <2>2, <2>5 DEF IsDecimal
<1>3. good = Nat
  <2> HIDE DEF good
  <2>1. good \in SUBSET Nat
    BY DEF good
  <2> QED
    BY <1>1, <1>2, <2>1, SetInduction
<1> QED
  BY <1>3

\* The parts agree.
LEMMA DecimalUnique ==
    ASSUME NEW n \in Nat, NEW m \in Nat, NEW f, NEW g, IsDecimal(f, n), IsDecimal(g, m),
           NEW i \in Nat, i <= n, i <= m
    PROVE  f[i] = g[i]
<1> DEFINE bad == {k \in Nat : k <= n /\ k <= m /\ f[k] # g[k]}
<1> SUFFICES ASSUME bad # {} PROVE FALSE
  OBVIOUS
<1>1. bad \in SUBSET Nat
  OBVIOUS
<1>2. PICK k \in bad : \A l \in bad : k <= l
  <2> HIDE DEF bad
  <2> QED
    BY <1>1, SmallestNat
<1>3. /\ k \in Nat /\ k <= n /\ k <= m /\ f[k] # g[k]
      /\ f[k] = Spelling(k, f[k \div 10]) /\ g[k] = Spelling(k, g[k \div 10])
  BY DEF IsDecimal
<1>4. k >= 10
  BY <1>3 DEF Spelling
<1>5. k \div 10 \in Nat /\ k \div 10 < k
  BY <1>3, <1>4, TenthIsLess
<1>6. f[k \div 10] = g[k \div 10]
  BY <1>2, <1>3, <1>5
<1> QED
  BY <1>3, <1>6

\* Each numeral is the one of the tenth and one digit more.
LEMMA DecimalIs == \A n \in Nat : Decimal[n] = Spelling(n, Decimal[n \div 10])
<1> DEFINE Original(f) == f = [n \in Nat |->
               IF n < 10 THEN <<Digits[n + 1]>> ELSE Append(f[n \div 10], Digits[(n % 10) + 1])]
           part(n) == CHOOSE f : IsDecimal(f, n)
           whole == [n \in Nat |-> part(n)[n]]
<1>1. Decimal = CHOOSE f : Original(f)
  BY Zenon DEF Decimal
<1>2. \A f : Original(f) <=> f = [n \in Nat |-> Spelling(n, f[n \div 10])]
  BY Zenon DEF Spelling
<1>3. \A n \in Nat : IsDecimal(part(n), n)
  BY DecimalOnParts, Zenon
<1> HIDE DEF part
<1>4. ASSUME NEW n \in Nat PROVE whole[n] = Spelling(n, whole[n \div 10])
  <2>1. part(n)[n] = Spelling(n, part(n)[n \div 10])
    <3>1. IsDecimal(part(n), n) /\ n \in 0..n
      BY <1>3
    <3> QED
      BY <3>1 DEF IsDecimal
  <2>2. n \div 10 \in Nat /\ n \div 10 <= n
    BY TenthIsLess
  <2>3. part(n)[n \div 10] = part(n \div 10)[n \div 10]
    BY <1>3, <2>2, DecimalUnique
  <2>4. whole[n] = part(n)[n] /\ whole[n \div 10] = part(n \div 10)[n \div 10]
    BY <2>2
  <2> HIDE DEF whole
  <2> QED
    BY <2>1, <2>3, <2>4
<1>5. whole = [n \in Nat |-> Spelling(n, whole[n \div 10])]
  BY <1>4
<1> HIDE DEF whole, Original
<1>6. Original(whole)
  BY <1>2, <1>5
<1>7. Original(Decimal)
  BY <1>1, <1>6, Zenon
<1>8. Decimal = [n \in Nat |-> Spelling(n, Decimal[n \div 10])]
  BY <1>2, <1>7
<1> QED
  BY <1>8

\* A numeral is made of digits.
LEMMA DecimalType == \A n \in Nat : Decimal[n] \in Seq(DigitSet)
<1> DEFINE bad == {n \in Nat : Decimal[n] \notin Seq(DigitSet)}
<1> SUFFICES ASSUME bad # {} PROVE FALSE
  OBVIOUS
<1>1. bad \in SUBSET Nat
  OBVIOUS
<1>2. PICK n \in bad : \A m \in bad : n <= m
  <2> HIDE DEF bad
  <2> QED
    BY <1>1, SmallestNat
<1>3. n \in Nat /\ Decimal[n] \notin Seq(DigitSet)
  OBVIOUS
<1>4. Decimal[n] = Spelling(n, Decimal[n \div 10])
  BY <1>3, DecimalIs
<1>5. CASE n < 10
  <2>1. Digits[n + 1] \in DigitSet
    BY <1>3, <1>5, DigitType
  <2>2. Decimal[n] = <<Digits[n + 1]>>
    BY <1>4, <1>5 DEF Spelling
  <2> QED
    BY <1>3, <2>1, <2>2
<1>6. CASE ~(n < 10)
  <2>1. n \div 10 \in Nat /\ n \div 10 < n /\ n % 10 \in 0..9
    BY <1>3, <1>6, TenthIsLess
  <2>2. Decimal[n \div 10] \in Seq(DigitSet)
    BY <1>2, <1>3, <2>1
  <2>3. Digits[(n % 10) + 1] \in DigitSet
    BY <2>1, DigitType
  <2>4. Decimal[n] = Append(Decimal[n \div 10], Digits[(n % 10) + 1])
    BY <1>4, <1>6 DEF Spelling
  <2> QED
    BY <1>3, <2>2, <2>3, <2>4
<1> QED
  BY <1>5, <1>6

-----------------------------------------------------------------------------
(* Characters and bytes.                                                    *)

\* The characters that the model itself writes are characters.
LEMMA CharacterHas ==
    /\ DigitSet \subseteq Character /\ Unreserved \subseteq Character
    /\ "-" \in Character /\ "true" \in Character /\ "false" \in Character
  BY DigitType DEF Character, Byte, Unreserved, OtherBytes, DigitSet

\* A sequence over a set is one over a larger set.
LEMMA SeqMonotone ==
    ASSUME NEW S, NEW T, S \subseteq T, NEW s \in Seq(S)
    PROVE  s \in Seq(T)
  OBVIOUS

\* A number is written in characters.
LEMMA NumeralType == \A n \in Int : Numeral(n) \in Seq(Character)
<1> TAKE n \in Int
<1>1. CASE n < 0
  <2>1. Decimal[-n] \in Seq(DigitSet)
    BY <1>1, DecimalType
  <2>2. Decimal[-n] \in Seq(Character)
    BY <2>1, CharacterHas, SeqMonotone
  <2>3. <<"-">> \in Seq(Character)
    BY CharacterHas
  <2>4. Numeral(n) = <<"-">> \o Decimal[-n]
    BY <1>1 DEF Numeral
  <2> QED
    BY <2>2, <2>3, <2>4
<1>2. CASE ~(n < 0)
  <2>1. Decimal[n] \in Seq(DigitSet)
    BY <1>2, DecimalType
  <2> QED
    BY <1>2, <2>1, CharacterHas, SeqMonotone DEF Numeral
<1> QED
  BY <1>1, <1>2

\* What an unsigned text parses to is a natural number.
LEMMA UnsignedType ==
    ASSUME NEW S, NEW text \in Seq(S)
    PROVE  Unsigned(text) \subseteq Nat
<1> DEFINE digits == IF text # << >> /\ text[1] = "+" THEN Tail(text) ELSE text
<1>1. digits \in Seq(S)
  OBVIOUS
<1>2. Unsigned(text) = IF IsDigits(digits) THEN {Value(digits)} ELSE {}
  BY Zenon DEF Unsigned
<1> HIDE DEF digits
<1>3. ASSUME IsDigits(digits) PROVE Value(digits) \in Nat
  <2>1. IsList(digits)
    BY <1>1 DEF IsList
  <2>2. \A i \in DOMAIN digits : digits[i] \in DOMAIN Digit
    BY <1>3, Zenon DEF IsDigits
  <2> QED
    BY <2>1, <2>2, ValueType
<1> QED
  BY <1>2, <1>3

\* What a text parses to is an integer.
LEMMA NumberType ==
    ASSUME NEW S, NEW text \in Seq(S)
    PROVE  Number(text) \subseteq Int
<1>1. CASE text # << >> /\ text[1] = "-"
  <2>1. Tail(text) \in Seq(S)
    BY <1>1
  <2>2. ASSUME IsDigits(Tail(text)) PROVE Value(Tail(text)) \in Nat
    <3> DEFINE digits == Tail(text)
    <3> HIDE DEF digits
    <3>1. IsList(digits)
      BY <2>1 DEF IsList, digits
    <3>2. \A i \in DOMAIN digits : digits[i] \in DOMAIN Digit
      BY <2>2, Zenon DEF IsDigits, digits
    <3> QED
      BY <3>1, <3>2, ValueType DEF digits
  <2>3. Number(text) = {-Value(digits) : digits \in {t \in {Tail(text)} : IsDigits(t)}}
    BY <1>1, Zenon DEF Number
  <2>4. \A v \in Number(text) : IsDigits(Tail(text)) /\ v = -Value(Tail(text))
    BY <2>3
  <2> QED
    BY <2>2, <2>4
<1>2. CASE ~(text # << >> /\ text[1] = "-")
  <2>1. Number(text) = Unsigned(text)
    BY <1>2, Zenon DEF Number
  <2> QED
    BY <2>1, UnsignedType
<1> QED
  BY <1>1, <1>2

\* A canonical form is made of characters as its text is.
LEMMA CanonicalNumberType ==
    ASSUME NEW text \in Seq(Character)
    PROVE  CanonicalNumber(text) \in Seq(Character)
<1>1. CASE Number(text) # {}
  <2>1. Only(Number(text)) \in Int
    <3>1. Only(Number(text)) \in Number(text)
      BY <1>1 DEF Only
    <3> QED
      BY <3>1, NumberType
  <2>2. CanonicalNumber(text) = Numeral(Only(Number(text)))
    BY <1>1, Zenon DEF CanonicalNumber
  <2> QED
    BY <2>1, <2>2, NumeralType
<1>2. CASE Number(text) = {}
  BY <1>2, Zenon DEF CanonicalNumber
<1> QED
  BY <1>1, <1>2

\* So is the canonical form of a boolean.
LEMMA CanonicalBooleanType ==
    ASSUME NEW text \in Seq(Character)
    PROVE  CanonicalBoolean(text) \in Seq(Character)
<1> DEFINE yes == Trim(text) \in {<<"true">>, <<"True">>, <<"1">>}
           no == Trim(text) \in {<<"false">>, <<"0">>}
<1>1. CanonicalBoolean(text) = CASE yes -> <<"true">> [] no -> <<"false">> [] OTHER -> text
  BY Zenon DEF CanonicalBoolean
<1>2. <<"true">> \in Seq(Character) /\ <<"false">> \in Seq(Character)
  BY CharacterHas
<1> HIDE DEF yes, no
<1>3. CanonicalBoolean(text) \in {<<"true">>, <<"false">>, text}
  BY <1>1
<1> QED
  BY <1>2, <1>3

\* So is that of a value of any type.
LEMMA CanonicalType ==
    ASSUME NEW p, p.value \in Seq(Character)
    PROVE  Canonical(p) \in Seq(Character)
<1>1. Canonical(p) \in {CanonicalNumber(p.value), CanonicalBoolean(p.value), p.value}
  BY DEF Canonical, CanonicalValue
<1> QED
  BY <1>1, CanonicalNumberType, CanonicalBooleanType

\* What is left of a text without the blanks around it is a text.
LEMMA TrimType ==
    ASSUME NEW text \in Seq(Character)
    PROVE  Trim(text) \in Seq(Character)
<1> DEFINE kept == {i \in DOMAIN text : text[i] \notin {" ", "crlf"}}
<1>1. Trim(text) = IF kept = {} THEN << >> ELSE SubSeq(text, Min(kept), Max(kept))
  BY Zenon DEF Trim
<1> DEFINE n == Len(text)
<1>2. kept \subseteq 1..n /\ n \in Nat
  <2>1. DOMAIN text = 1..n /\ n \in Nat
    OBVIOUS
  <2> HIDE DEF n
  <2> QED
    BY <2>1
<1> HIDE DEF kept
<1>2a. kept \in SUBSET Nat /\ kept \in SUBSET (0..n) /\ \A i \in kept : i \in Int
  BY <1>2
<1>3. CASE kept # {}
  <2>1. Min(kept) \in 1..Len(text)
    BY <1>2, <1>2a, <1>3, MinIs
  <2>2. Max(kept) \in 1..Len(text)
    <3>1. PICK m \in kept : \A i \in kept : i <= m
      <4> HIDE DEF n
      <4> QED
        BY <1>2, <1>2a, <1>3, LargestNat
    <3>2. Max(kept) = m
      BY <1>2a, <3>1, MaxIs
    <3> QED
      BY <1>2, <3>1, <3>2
  <2>3. SubSeq(text, Min(kept), Max(kept)) \in Seq(Character)
    BY <2>1, <2>2
  <2> QED
    BY <1>1, <1>3, <2>3
<1> QED
  BY <1>1, <1>3

\* The bytes of a text are bytes.
LEMMA BytesType ==
    ASSUME NEW text \in Seq(Character)
    PROVE  BytesOf(text) \in Seq(Byte)
<1> DEFINE n == Len(text)
<1>1. n \in Nat /\ DOMAIN text = 1..n /\ IsList(text)
  BY DEF IsList
<1>2. PICK stage : WrittenStages(stage, text) /\ BytesOf(text) = stage[n]
  BY <1>1, TextFold, Zenon
<1>3. /\ stage[0] = << >>
      /\ \A k \in 0..(n - 1) : stage[k + 1] = stage[k] \o Bytes(text[k + 1])
  BY <1>2 DEF WrittenStages
<1>4. \A ch \in Character : Bytes(ch) \in Seq(Byte)
  <2> TAKE ch \in Character
  <2>1. ch = "eacute" \/ ch = "crlf" \/ ch \in Byte
    BY DEF Character
  <2>2. "C3" \in Byte /\ "A9" \in Byte /\ "CR" \in Byte /\ "LF" \in Byte
    BY DEF Byte, OtherBytes
  <2> HIDE DEF Byte
  <2>3. <<"C3", "A9">> \in Seq(Byte) /\ <<"CR", "LF">> \in Seq(Byte)
    BY <2>2
  <2>4. CASE ch = "eacute"
    <3>1. Bytes(ch) = <<"C3", "A9">>
      BY <2>4 DEF Bytes
    <3> QED
      BY <2>3, <3>1
  <2>5. CASE ch = "crlf"
    <3>1. Bytes(ch) = <<"CR", "LF">>
      BY <2>5 DEF Bytes
    <3> QED
      BY <2>3, <3>1
  <2>6. CASE ch # "eacute" /\ ch # "crlf"
    <3>1. Bytes(ch) = <<ch>> /\ ch \in Byte
      BY <2>1, <2>6 DEF Bytes
    <3> QED
      BY <3>1
  <2> QED
    BY <2>4, <2>5, <2>6
<1>5. \A k \in 0..(n - 1) : Bytes(text[k + 1]) \in Seq(Byte)
  <2> TAKE k \in 0..(n - 1)
  <2>1. k + 1 \in 1..n
    BY <1>1
  <2>2. text[k + 1] \in Character
    BY <1>1, <2>1
  <2> QED
    BY <1>4, <2>2
<1> DEFINE good == {k \in Nat : k <= n => stage[k] \in Seq(Byte)}
<1> HIDE DEF n
<1>6. 0 \in good
  <2>1. << >> \in Seq(Byte)
    OBVIOUS
  <2> QED
    BY <1>3, <2>1
<1>7. ASSUME NEW k \in good PROVE k + 1 \in good
  <2> SUFFICES ASSUME k + 1 <= n PROVE stage[k + 1] \in Seq(Byte)
    OBVIOUS
  <2>1. k \in 0..(n - 1) /\ k <= n
    BY <1>1
  <2>2. stage[k] \in Seq(Byte) /\ Bytes(text[k + 1]) \in Seq(Byte)
    BY <1>5, <2>1
  <2>3. stage[k] \o Bytes(text[k + 1]) \in Seq(Byte)
    BY <2>2
  <2>4. stage[k + 1] = stage[k] \o Bytes(text[k + 1])
    BY <1>3, <2>1
  <2> QED
    BY <2>3, <2>4
<1> HIDE DEF good
<1>8. good = Nat
  <2>1. good \in SUBSET Nat
    BY DEF good
  <2> QED
    BY <1>6, <1>7, <2>1, SetInduction
<1> QED
  BY <1>1, <1>2, <1>8 DEF good, n

-----------------------------------------------------------------------------
(* Percent-encoding.                                                        *)

\* The escapes, one by one.
LEMMA EscapedIs ==
    /\ DOMAIN Escaped = OtherBytes
    /\ Escaped["&"] = "%26" /\ Escaped["="] = "%3D" /\ Escaped["+"] = "%2B"
    /\ Escaped["%"] = "%25" /\ Escaped["C3"] = "%C3" /\ Escaped["A9"] = "%A9"
    /\ Escaped["quote"] = "%22" /\ Escaped["\\"] = "%5C"
    /\ Escaped["CR"] = "%0D" /\ Escaped["LF"] = "%0A"
<1>1. DOMAIN Escaped = OtherBytes
  BY DEF Escaped
<1>2. Escaped["&"] = "%26" /\ Escaped["="] = "%3D" /\ Escaped["+"] = "%2B"
  BY DEF Escaped, OtherBytes
<1>3. Escaped["%"] = "%25" /\ Escaped["C3"] = "%C3" /\ Escaped["A9"] = "%A9"
  BY DEF Escaped, OtherBytes
<1>4. Escaped["quote"] = "%22" /\ Escaped["\\"] = "%5C"
  BY DEF Escaped, OtherBytes
<1>5. Escaped["CR"] = "%0D" /\ Escaped["LF"] = "%0A"
  BY DEF Escaped, OtherBytes
<1> QED
  BY <1>1, <1>2, <1>3, <1>4, <1>5

\* No byte is written as what separates pairs, or a name from its value, and each is read
\* back from what it is written as.
LEMMA EncodedIs ==
    ASSUME NEW byte \in Byte
    PROVE  Encoded(byte) \notin {"&", "="} /\ DecodeByte(Encoded(byte)) = byte
<1> DEFINE escapes(symbol) == {b \in OtherBytes : Escaped[b] = symbol}
<1>1. \A symbol : DecodeByte(symbol) = IF symbol = "+" THEN " "
                                       ELSE IF escapes(symbol) = {} THEN symbol
                                            ELSE Only(escapes(symbol))
  BY Zenon DEF DecodeByte
<1>2. CASE byte = " "
  <2>1. Encoded(byte) = "+"
    <3>1. byte \notin Unreserved
      BY <1>2, DigitType DEF Unreserved, DigitSet
    <3> QED
      BY <1>2, <3>1 DEF Encoded
  <2> QED
    BY <1>1, <1>2, <2>1
<1>3. CASE byte \in Unreserved
  <2>1. byte \notin {" ", "+", "&", "="}
    BY <1>3, DigitType DEF Unreserved, DigitSet
  <2>2. byte \notin {"%26", "%3D", "%2B", "%25", "%C3", "%A9", "%22", "%5C", "%0D", "%0A"}
    BY <1>3, DigitType DEF Unreserved, DigitSet
  <2>3. Encoded(byte) = byte
    BY <1>3, <2>1 DEF Encoded
  <2>4. escapes(byte) = {}
    BY <2>2, EscapedIs DEF OtherBytes
  <2> QED
    BY <1>1, <2>1, <2>3, <2>4
<1>4. CASE byte \in OtherBytes
  <2>1. byte \notin Unreserved /\ byte # " "
    BY <1>4, DigitType DEF Unreserved, OtherBytes, DigitSet
  <2>2. Encoded(byte) = Escaped[byte]
    BY <2>1 DEF Encoded
  <2>3. Escaped[byte] \notin {"&", "=", "+"}
    BY <1>4, EscapedIs DEF OtherBytes
  <2>4. \A b \in OtherBytes : Escaped[b] = Escaped[byte] => b = byte
    BY <1>4, EscapedIs DEF OtherBytes
  <2>5. escapes(Escaped[byte]) = {byte}
    BY <1>4, <2>4
  <2>6. Only({byte}) = byte
    BY DEF Only
  <2> HIDE DEF escapes
  <2> QED
    BY <1>1, <2>2, <2>3, <2>5, <2>6
<1> QED
  BY <1>2, <1>3, <1>4 DEF Byte

\* A text is percent-encoded byte by byte, with no separator, and can be read back.
LEMMA PercentEncodeIs ==
    ASSUME NEW text \in Seq(Character)
    PROVE  Encodes(PercentEncode(text), text)
<1> DEFINE bytes == BytesOf(text)
           e == PercentEncode(text)
           n == Len(bytes)
<1>1. bytes \in Seq(Byte)
  BY BytesType
<1>2. e = [i \in DOMAIN bytes |-> Encoded(bytes[i])]
  BY Zenon DEF PercentEncode
<1> HIDE DEF bytes, e
<1>3. n \in Nat /\ DOMAIN bytes = 1..n /\ \A i \in 1..n : bytes[i] \in Byte
  BY <1>1
<1> HIDE DEF n
<1>4. \A i \in 1..n : /\ Encoded(bytes[i]) \in Symbols /\ Encoded(bytes[i]) \notin {"&", "="}
                      /\ DecodeByte(Encoded(bytes[i])) = bytes[i]
  BY <1>3, EncodedIs DEF Symbols
<1>5. e = [i \in 1..n |-> Encoded(bytes[i])]
  BY <1>2, <1>3
<1>6. e \in Seq(Symbols) /\ Len(e) = n /\ DOMAIN e = 1..n
  <2>1. \A i \in 1..n : Encoded(bytes[i]) \in Symbols
    BY <1>4
  <2> HIDE DEF e
  <2>2. e \in [1..n -> Symbols]
    BY <1>5, <2>1
  <2> QED
    BY <1>3, <2>2
<1>7. bytes = [i \in 1..n |-> DecodeByte(e[i])]
  <2>1. bytes = [i \in 1..n |-> bytes[i]]
    BY <1>1, <1>3
  <2>2. \A i \in 1..n : bytes[i] = DecodeByte(e[i])
    BY <1>4, <1>5
  <2> QED
    BY <2>1, <2>2
<1>8. \A i \in 1..Len(e) : e[i] \notin {"&", "="}
  BY <1>4, <1>5, <1>6
<1> QED
  BY <1>6, <1>7, <1>8 DEF Encodes, bytes, e

-----------------------------------------------------------------------------
(* A body is cut where it was joined.                                       *)

\* A member that is no greater than any is the least.
LEMMA MinEquals ==
    ASSUME NEW S \in SUBSET Nat, NEW m \in S, \A i \in S : m <= i
    PROVE  Min(S) = m
<1>1. Min(S) \in S /\ \A i \in S : Min(S) <= i
  BY MinIs
<1>2. Min(S) <= m /\ m <= Min(S) /\ m \in Nat /\ Min(S) \in Nat
  BY <1>1
<1> QED
  BY <1>2

\* A text, a separator and another text.
LEMMA Separated ==
    ASSUME NEW S, NEW x \in Seq(S), NEW ch \in S, NEW y \in Seq(S)
    PROVE  LET all == x \o <<ch>> \o y
               n == Len(x)
           IN  /\ all \in Seq(S) /\ Len(all) = n + 1 + Len(y)
               /\ all[n + 1] = ch
               /\ \A i \in 1..n : all[i] = x[i]
               /\ \A i \in 1..Len(y) : all[n + 1 + i] = y[i]
               /\ \A a, b \in Nat : 1 <= a /\ a <= b + 1 /\ b <= n =>
                      SubSeq(all, a, b) = SubSeq(x, a, b)
               /\ SubSeq(all, n + 2, Len(all)) = y
<1> DEFINE front == x \o <<ch>>
           all == front \o y
           n == Len(x)
<1>1. front \in Seq(S) /\ Len(front) = n + 1 /\ n \in Nat /\ Len(y) \in Nat
  OBVIOUS
<1>2. front[n + 1] = ch /\ \A i \in 1..n : front[i] = x[i]
  OBVIOUS
<1> HIDE DEF front
<1>3. all \in Seq(S) /\ Len(all) = n + 1 + Len(y)
  BY <1>1
<1>4. \A i \in 1..(n + 1) : all[i] = front[i]
  BY <1>1
<1>5. \A i \in 1..Len(y) : all[n + 1 + i] = y[i]
  BY <1>1
<1> HIDE DEF all, n
<1>6. all[n + 1] = ch /\ \A i \in 1..n : all[i] = x[i]
  BY <1>1, <1>2, <1>4
<1>7. ASSUME NEW a \in Nat, NEW b \in Nat, 1 <= a, a <= b + 1, b <= n
      PROVE  SubSeq(all, a, b) = SubSeq(x, a, b)
  <2> DEFINE s == SubSeq(all, a, b)
             t == SubSeq(x, a, b)
  <2>1. b <= Len(all) /\ b <= Len(x)
    BY <1>1, <1>3, <1>7 DEF n
  <2>2. /\ s \in Seq(S) /\ Len(s) = b - a + 1
        /\ \A i \in 1..(b - a + 1) : s[i] = all[a + i - 1]
    BY <1>3, <1>7, <2>1, SubSeqIs
  <2>3. /\ t \in Seq(S) /\ Len(t) = b - a + 1
        /\ \A i \in 1..(b - a + 1) : t[i] = x[a + i - 1]
    BY <1>7, <2>1, SubSeqIs
  <2> HIDE DEF s, t
  <2>4. \A i \in 1..(b - a + 1) : a + i - 1 \in 1..n
    BY <1>1, <1>7
  <2>5. \A i \in 1..(b - a + 1) : s[i] = t[i]
    BY <1>6, <2>2, <2>3, <2>4
  <2>6. s = t
    BY <2>2, <2>3, <2>5, SameSequence
  <2> QED
    BY <2>6 DEF s, t
<1>8. SubSeq(all, n + 2, Len(all)) = y
  <2> DEFINE s == SubSeq(all, n + 2, Len(all))
  <2>1. n + 2 \in Nat /\ Len(all) \in Nat /\ 1 <= n + 2 /\ n + 2 <= Len(all) + 1 /\ Len(all) <= Len(all)
    BY <1>1, <1>3
  <2>2. /\ s \in Seq(S) /\ Len(s) = Len(all) - (n + 2) + 1
        /\ \A i \in 1..(Len(all) - (n + 2) + 1) : s[i] = all[(n + 2) + i - 1]
    BY <1>3, <2>1, SubSeqIs
  <2>3. Len(all) - (n + 2) + 1 = Len(y) /\ \A i \in 1..Len(y) : (n + 2) + i - 1 = n + 1 + i
    BY <1>1, <1>3
  <2> HIDE DEF s
  <2>4. Len(s) = Len(y) /\ \A i \in 1..Len(y) : s[i] = y[i]
    BY <1>5, <2>2, <2>3
  <2>5. s = y
    BY <2>2, <2>4, SameSequence
  <2> QED
    BY <2>5 DEF s
<1>9. \A a, b \in Nat : 1 <= a /\ a <= b + 1 /\ b <= n => SubSeq(all, a, b) = SubSeq(x, a, b)
  BY <1>7
<1> QED
  BY <1>3, <1>5, <1>6, <1>8, <1>9 DEF all, front, n

\* Joined to another, a text without the separator is one piece more.
LEMMA SplitAppended ==
    \A S, text, ch, last : OnePiece(S, text, ch, last) => AddsPiece(text, ch, last)
<1> SUFFICES ASSUME NEW S, NEW text \in Seq(S), NEW ch \in S, NEW last \in Seq(S),
                    \A i \in 1..Len(last) : last[i] # ch
             PROVE  Split(text \o <<ch>> \o last, ch) = Split(text, ch) \o <<last>>
  BY ZenonT(60) DEF OnePiece, AddsPiece
<1> DEFINE all == text \o <<ch>> \o last
           n == Len(text)
           N(i) == NextCuts(text, ch, i)
           M(i) == NextCuts(all, ch, i)
<1>1. /\ all \in Seq(S) /\ Len(all) = n + 1 + Len(last) /\ all[n + 1] = ch
      /\ \A i \in 1..n : all[i] = text[i]
      /\ \A i \in 1..Len(last) : all[n + 1 + i] = last[i]
      /\ \A a, b \in Nat : 1 <= a /\ a <= b + 1 /\ b <= n => SubSeq(all, a, b) = SubSeq(text, a, b)
      /\ SubSeq(all, n + 2, Len(all)) = last
  BY Separated
<1>2. n \in Nat /\ Len(last) \in Nat /\ Len(all) \in Nat
  BY <1>1
<1> HIDE DEF all
<1>3. PICK f : IsSplit(text, ch, 1, f) /\ Split(text, ch) = f[1]
  BY <1>2, SplitIs
<1>4. PICK g : IsSplit(all, ch, 1, g) /\ Split(all, ch) = g[1]
  BY <1>2, SplitIs
<1>5. \A i \in 1..(n + 1) : f[i] = Cutting(text, ch, i, f[Min(N(i)) + 1])
  BY <1>2, <1>3 DEF IsSplit
<1>6. \A i \in 1..(Len(all) + 1) : g[i] = Cutting(all, ch, i, g[Min(M(i)) + 1])
  BY <1>2, <1>4 DEF IsSplit
<1>7. \A i \in 1..(n + 1) : f[i] \in Seq(Seq(S))
  BY <1>3, SplitTyped
<1>8. \A i \in Nat \ {0} : N(i) # {} => /\ Min(N(i)) \in i..n /\ Min(N(i)) + 1 \in (i + 1)..(n + 1)
                                        /\ Min(N(i)) \in N(i) /\ \A j \in N(i) : Min(N(i)) <= j
  <2> TAKE i \in Nat \ {0}
  <2>1. N(i) # {} => Min(N(i)) \in i..n /\ Min(N(i)) + 1 \in (i + 1)..(n + 1)
    BY <1>2, NextCutAhead
  <2>2. N(i) \in SUBSET Nat
    BY <1>2 DEF NextCuts
  <2> HIDE DEF N
  <2>3. N(i) # {} => Min(N(i)) \in N(i) /\ \A j \in N(i) : Min(N(i)) <= j
    BY <2>2, MinIs
  <2> QED
    BY <2>1, <2>3
<1>9. g[n + 2] = <<last>>
  <2>1. M(n + 2) = {}
    <3>1. \A j \in (n + 2)..Len(all) : all[j] # ch
      <4> TAKE j \in (n + 2)..Len(all)
      <4>1. j - n - 1 \in 1..Len(last) /\ n + 1 + (j - n - 1) = j
        BY <1>1, <1>2
      <4> QED
        BY <1>1, <4>1, SMTT(30)
    <3> QED
      BY <3>1 DEF NextCuts
  <2>2. n + 2 \in 1..(Len(all) + 1)
    BY <1>1, <1>2
  <2> QED
    BY <1>1, <1>6, <2>1, <2>2 DEF Cutting
<1>10. ASSUME NEW i \in 1..(n + 1)
       PROVE  /\ M(i) # {}
              /\ N(i) = {} => Min(M(i)) = n + 1
              /\ N(i) # {} => Min(M(i)) = Min(N(i))
  <2>1. \A j : j \in N(i) => j \in M(i)
    BY <1>1, <1>2 DEF NextCuts
  <2>2. n + 1 \in M(i)
    BY <1>1, <1>2 DEF NextCuts
  <2>3. \A j \in M(i) : j \in Nat /\ (j <= n => j \in N(i))
    BY <1>1, <1>2 DEF NextCuts
  <2>4. i \in Nat \ {0}
    OBVIOUS
  <2> HIDE DEF N, M
  <2>5. CASE N(i) = {}
    <3>1. \A j \in M(i) : n + 1 <= j
      BY <1>2, <2>3, <2>5
    <3> QED
      BY <2>2, <2>3, <2>5, <3>1, MinEquals
  <2>6. CASE N(i) # {}
    <3>1. /\ Min(N(i)) \in i..n /\ Min(N(i)) \in N(i) /\ \A j \in N(i) : Min(N(i)) <= j
      BY <1>8, <2>4, <2>6
    <3>2. Min(N(i)) \in M(i)
      BY <2>1, <3>1
    <3>3. \A j \in M(i) : Min(N(i)) <= j
      <4> TAKE j \in M(i)
      <4>1. CASE j <= n
        BY <2>3, <3>1, <4>1
      <4>2. CASE ~(j <= n)
        BY <1>2, <2>3, <3>1, <4>2
      <4> QED
        BY <4>1, <4>2
    <3> QED
      BY <2>2, <2>3, <2>6, <3>2, <3>3, MinEquals
  <2> QED
    BY <2>5, <2>6
<1> DEFINE P(i) == g[i] = f[i] \o <<last>>
<1>11. ASSUME NEW i \in 1..(n + 1), N(i) # {} => P(Min(N(i)) + 1)
       PROVE  P(i)
  <2>1. g[i] = <<SubSeq(all, i, Min(M(i)) - 1)>> \o g[Min(M(i)) + 1]
    <3>1. i \in 1..(Len(all) + 1)
      BY <1>1, <1>2
    <3> QED
      BY <1>6, <1>10, <3>1 DEF Cutting
  <2>2. CASE N(i) = {}
    <3>1. Min(M(i)) = n + 1 /\ n + 1 - 1 = n /\ n + 1 + 1 = n + 2
      BY <1>2, <1>10, <2>2
    <3>2. f[i] = <<SubSeq(text, i, n)>>
      BY <1>5, <2>2 DEF Cutting
    <3>3. SubSeq(all, i, n) = SubSeq(text, i, n)
      BY <1>1, <1>2
    <3>4. g[i] = <<SubSeq(all, i, n)>> \o g[n + 2]
      <4> DEFINE m == Min(M(i))
      <4>1. g[i] = <<SubSeq(all, i, m - 1)>> \o g[m + 1]
        BY <2>1
      <4>2. m - 1 = n /\ m + 1 = n + 2
        BY <1>2, <3>1
      <4> HIDE DEF m
      <4> QED
        BY <4>1, <4>2
    <3> HIDE DEF M, N
    <3> QED
      BY <1>9, <3>2, <3>3, <3>4
  <2>3. CASE N(i) # {}
    <3> DEFINE m == Min(N(i))
               rest == f[m + 1]
               piece == SubSeq(text, i, m - 1)
    <3>1. Min(M(i)) = m /\ m \in i..n /\ m + 1 \in (i + 1)..(n + 1)
      BY <1>8, <1>10, <2>3
    <3>2. f[i] = <<piece>> \o rest
      BY <1>5, <2>3 DEF Cutting
    <3>3. g[m + 1] = rest \o <<last>>
      BY <1>11, <2>3
    <3>4. SubSeq(all, i, m - 1) = piece
      <4> HIDE DEF m
      <4>1. m - 1 \in Nat /\ i \in Nat /\ 1 <= i /\ i <= (m - 1) + 1 /\ m - 1 <= n
        BY <1>2, <3>1
      <4> QED
        BY <1>1, <4>1
    <3>5. rest \in Seq(Seq(S)) /\ piece \in Seq(S)
      <4>1. m + 1 \in 1..(n + 1)
        BY <1>2, <3>1
      <4>2. m - 1 \in Int /\ m - 1 <= n /\ i \in 1..(n + 1)
        BY <1>2, <3>1
      <4> HIDE DEF m
      <4> QED
        BY <1>7, <4>1, <4>2
    <3> HIDE DEF m, rest, piece, M, N
    <3>6. g[i] = <<piece>> \o (rest \o <<last>>)
      BY <2>1, <3>1, <3>3, <3>4
    <3>7. <<piece>> \o (rest \o <<last>>) = (<<piece>> \o rest) \o <<last>>
      BY <3>5
    <3> QED
      BY <3>2, <3>6, <3>7
  <2> QED
    BY <2>2, <2>3
<1> DEFINE D == {d \in Nat : \A i \in 1..(n + 1) : n + 1 - d <= i => P(i)}
<1>12. \A d : d \in D <=> d \in Nat /\ \A i \in 1..(n + 1) : n + 1 - d <= i => P(i)
  OBVIOUS
<1> HIDE DEF D, P, N, M, n
<1>13. 0 \in D
  <2> SUFFICES ASSUME NEW i \in 1..(n + 1), n + 1 - 0 <= i PROVE P(i)
    BY <1>12
  <2>1. i = n + 1 /\ i \in Nat \ {0}
    BY <1>2
  <2>2. N(i) = {}
    <3>1. i..n = {}
      BY <1>2, <2>1
    <3> QED
      BY <1>8, <2>1, <3>1
  <2> QED
    BY <1>11, <2>2
<1>14. \A d \in D : d + 1 \in D
  <2> SUFFICES ASSUME NEW d \in D, NEW i \in 1..(n + 1), n + 1 - (d + 1) <= i
               PROVE  P(i)
    BY <1>12
  <2>1. d \in Nat /\ \A j \in 1..(n + 1) : n + 1 - d <= j => P(j)
    BY <1>12
  <2>2. N(i) # {} => P(Min(N(i)) + 1)
    <3>1. \A j \in (i + 1)..(n + 1) : j \in 1..(n + 1) /\ n + 1 - d <= j
      BY <1>2, <2>1
    <3>2. i \in Nat \ {0}
      BY <1>2
    <3> QED
      BY <1>8, <2>1, <3>1, <3>2
  <2> QED
    BY <1>11, <2>2
<1>15. n + 1 \in D
  <2>1. D \subseteq Nat
    BY <1>12
  <2>2. D = Nat
    BY <1>13, <1>14, <2>1, SetInduction
  <2> QED
    BY <1>2, <2>2
<1>16. P(1)
  <2>1. 1 \in 1..(n + 1) /\ n + 1 - (n + 1) <= 1
    BY <1>2
  <2> QED
    BY <1>12, <1>15, <2>1
<1> QED
  BY <1>3, <1>4, <1>16 DEF P, all

\* A text without the separator is one piece.
LEMMA SplitWhole ==
    ASSUME NEW S, NEW text \in Seq(S), NEW ch, \A i \in 1..Len(text) : text[i] # ch
    PROVE  Split(text, ch) = <<text>>
<1>1. Len(text) \in Nat
  OBVIOUS
<1>2. PICK f : IsSplit(text, ch, 1, f) /\ Split(text, ch) = f[1]
  BY <1>1, SplitIs
<1>3. f[1] = Cutting(text, ch, 1, f[Min(NextCuts(text, ch, 1)) + 1])
  BY <1>1, <1>2 DEF IsSplit
<1>4. NextCuts(text, ch, 1) = {}
  BY DEF NextCuts
<1>5. f[1] = <<SubSeq(text, 1, Len(text))>>
  BY <1>3, <1>4 DEF Cutting
<1>6. SubSeq(text, 1, Len(text)) = text
  OBVIOUS
<1> QED
  BY <1>2, <1>5, <1>6

\* A pair has no separator of pairs, and is read at its only sign of equality.
LEMMA PairIs ==
    ASSUME NEW p, Readable(p)
    PROVE  /\ Pair(p) \in Seq(Symbols) /\ Pair(p) # << >>
           /\ \A i \in 1..Len(Pair(p)) : Pair(p)[i] # "&"
           /\ DecodedPair(Pair(p)) = ReadBack(p)
<1> DEFINE x == PercentEncode(<<p.name>>)
           y == PercentEncode(Canonical(p))
           q == x \o <<"=">> \o y
           n == Len(x)
<1>1. Encodes(x, <<p.name>>)
  <2>1. <<p.name>> \in Seq(Character)
    BY DEF Readable
  <2> QED
    BY <2>1, PercentEncodeIs
<1>2. Encodes(y, Canonical(p))
  BY CanonicalType, PercentEncodeIs DEF Readable
<1>3. q = Pair(p)
  BY Zenon DEF Pair
<1> HIDE DEF x, y
<1>4. /\ x \in Seq(Symbols) /\ BytesOf(<<p.name>>) = DecodedText(x)
      /\ \A i \in 1..Len(x) : x[i] # "&" /\ x[i] # "="
      /\ y \in Seq(Symbols) /\ BytesOf(Canonical(p)) = DecodedText(y)
      /\ \A i \in 1..Len(y) : y[i] # "&" /\ y[i] # "="
  BY <1>1, <1>2 DEF Encodes, DecodedText
<1>5. "=" \in Symbols
  BY DEF Symbols
<1>6. /\ q \in Seq(Symbols) /\ Len(q) = n + 1 + Len(y) /\ q[n + 1] = "="
      /\ \A i \in 1..n : q[i] = x[i]
      /\ \A i \in 1..Len(y) : q[n + 1 + i] = y[i]
      /\ \A a, b \in Nat : 1 <= a /\ a <= b + 1 /\ b <= n => SubSeq(q, a, b) = SubSeq(x, a, b)
      /\ SubSeq(q, n + 2, Len(q)) = y
  BY <1>4, <1>5, Separated
<1>7. n \in Nat /\ Len(y) \in Nat
  BY <1>4
<1> HIDE DEF q
<1>8. SubSeq(q, 1, n) = x
  <2>1. SubSeq(q, 1, n) = SubSeq(x, 1, n)
    BY <1>6, <1>7
  <2>2. SubSeq(x, 1, Len(x)) = x
    BY <1>4
  <2> QED
    BY <2>1, <2>2
<1> HIDE DEF n
<1>9. \A i \in 1..Len(q) : q[i] # "&"
  <2> TAKE i \in 1..Len(q)
  <2>1. CASE i \in 1..n
    BY <1>4, <1>6, <2>1 DEF n
  <2>2. CASE i = n + 1
    BY <1>6, <2>2
  <2>3. CASE i > n + 1
    <3>1. i - n - 1 \in 1..Len(y) /\ i = n + 1 + (i - n - 1)
      BY <1>6, <1>7, <2>3
    <3> QED
      BY <1>4, <1>6, <3>1
  <2> QED
    BY <1>6, <1>7, <2>1, <2>2, <2>3
<1>10. SelectInSeq(q, LAMBDA ch : ch = "=") = n + 1
  <2> DEFINE I == {i \in 1..Len(q) : q[i] = "="}
  <2>1. SelectInSeq(q, LAMBDA ch : ch = "=") = IF I # {} THEN Min(I) ELSE 0
    BY Zenon DEF SelectInSeq
  <2>2. n + 1 \in I
    BY <1>6, <1>7
  <2>3. \A i \in I : n + 1 <= i
    <3> TAKE i \in I
    <3>1. i \in 1..n => q[i] # "="
      BY <1>4, <1>6 DEF n
    <3> QED
      BY <1>6, <1>7, <3>1
  <2>4. I \in SUBSET Nat
    OBVIOUS
  <2> HIDE DEF I
  <2>5. Min(I) = n + 1
    BY <2>2, <2>3, <2>4, MinEquals
  <2> QED
    BY <2>1, <2>2, <2>5
<1>11. DecodedPair(q) = [name |-> DecodedText(x), bytes |-> DecodedText(y)]
  <2> DEFINE at == SelectInSeq(q, LAMBDA ch : ch = "=")
  <2>1. DecodedPair(q) = [name |-> DecodedText(SubSeq(q, 1, at - 1)),
                          bytes |-> DecodedText(SubSeq(q, at + 1, Len(q)))]
    BY Zenon DEF DecodedPair
  <2>2. at - 1 = n /\ at + 1 = n + 2
    BY <1>7, <1>10
  <2> HIDE DEF at
  <2>3. SubSeq(q, 1, at - 1) = x /\ SubSeq(q, at + 1, Len(q)) = y
    BY <1>6, <1>8, <2>2
  <2> QED
    BY <2>1, <2>3
<1>12. DecodedPair(q) = ReadBack(p)
  BY <1>4, <1>11 DEF ReadBack
<1>13. q # << >>
  <2>1. Len(q) # 0
    BY <1>6, <1>7
  <2>2. Len(<< >>) = 0
    OBVIOUS
  <2> QED
    BY <2>1, <2>2
<1> QED
  BY <1>3, <1>6, <1>9, <1>12, <1>13

LEMMA PieceMore ==
    ASSUME NEW pieces \in Seq(Seq(Symbols)), NEW pair \in Seq(Symbols)
    PROVE  HasOneMore(pieces, pair)
<1> DEFINE Texts == Seq(Symbols)
<1>1. pieces \in Seq(Texts) /\ pair \in Texts
  OBVIOUS
<1> HIDE DEF Texts
<1>2. /\ pieces \o <<pair>> \in Seq(Texts) /\ Len(pieces \o <<pair>>) = Len(pieces) + 1
      /\ (pieces \o <<pair>>)[Len(pieces) + 1] = pair
      /\ \A i \in 1..Len(pieces) : (pieces \o <<pair>>)[i] = pieces[i]
  BY <1>1
<1> QED
  BY <1>2, Zenon DEF HasOneMore, Texts

\* One more pair joined to a body of k makes a body of k + 1.
LEMMA CarriedMore ==
    ASSUME NEW params, NEW k \in Nat, NEW body, Readable(params[k + 1]),
           Begun(body, params, k)
    PROVE  Carried(Joined(body, params[k + 1]), params, k + 1)
<1> DEFINE pair == Pair(params[k + 1])
           joined == Joined(body, params[k + 1])
<1>1. pair \in Seq(Symbols) /\ pair # << >> /\ \A i \in 1..Len(pair) : pair[i] # "&"
  BY PairIs
<1>2. joined = IF body = << >> THEN pair ELSE body \o <<"&">> \o pair
  BY Zenon DEF Joined
<1> HIDE DEF pair, joined
<1>3. CASE body = << >>
  <2>1. k = 0
    BY <1>3 DEF Begun, Carried
  <2>2. joined = pair
    BY <1>2, <1>3
  <2>3. Split(joined, "&") = <<pair>>
    BY <1>1, <2>2, SplitWhole
  <2>4. \A i \in 1..1 : i = 1
    OBVIOUS
  <2>5. <<pair>> \in Seq(Seq(Symbols)) /\ Len(<<pair>>) = 1 /\ <<pair>>[1] = pair
    BY <1>1
  <2>6. \A i \in 1..1 : <<pair>>[i] = Pair(params[i])
    <3>1. pair = Pair(params[1])
      BY <2>1 DEF pair
    <3> QED
      BY <2>4, <2>5, <3>1
  <2>7. Carried(joined, params, 1)
    BY <1>1, <2>2, <2>3, <2>5, <2>6 DEF Carried
  <2> QED
    BY <2>1, <2>7 DEF joined
<1>4. CASE body # << >>
  <2>1. Carried(body, params, k)
    BY <1>4 DEF Begun
  <2> DEFINE pieces == Split(body, "&")
  <2>2. /\ body \in Seq(Symbols) /\ pieces \in Seq(Seq(Symbols)) /\ Len(pieces) = k
        /\ \A i \in 1..k : pieces[i] = Pair(params[i])
    BY <2>1 DEF Carried
  <2>3. "&" \in Symbols
    BY DEF Symbols
  <2>4. joined = body \o <<"&">> \o pair
    BY <1>2, <1>4
  <2>5. joined \in Seq(Symbols) /\ Len(joined) = Len(body) + 1 + Len(pair)
    BY <1>1, <2>2, <2>3, <2>4, Separated
  <2>6. joined # << >>
    <3>1. Len(joined) # 0
      BY <1>1, <2>2, <2>5
    <3>2. Len(<< >>) = 0
      OBVIOUS
    <3> QED
      BY <3>1, <3>2
  <2>7. Split(joined, "&") = pieces \o <<pair>>
    <3>1. Split(body \o <<"&">> \o pair, "&") = Split(body, "&") \o <<pair>>
      <4>1. OnePiece(Symbols, body, "&", pair)
        BY <1>1, <2>2, <2>3 DEF OnePiece
      <4>2. AddsPiece(body, "&", pair)
        BY <4>1, SplitAppended, Zenon
      <4> HIDE DEF pieces
      <4> QED
        BY <4>2, Zenon DEF AddsPiece
    <3> QED
      BY <2>4, <3>1
  <2> HIDE DEF pieces
  <2>8. /\ pieces \o <<pair>> \in Seq(Seq(Symbols)) /\ Len(pieces \o <<pair>>) = k + 1
        /\ (pieces \o <<pair>>)[k + 1] = pair
        /\ \A i \in 1..k : (pieces \o <<pair>>)[i] = pieces[i]
    <3>1. pair \in Seq(Symbols)
      BY <1>1
    <3>2. HasOneMore(pieces, pair)
      BY <2>2, <3>1, PieceMore
    <3> QED
      BY <2>2, <3>2 DEF HasOneMore
  <2>10. \A i \in 1..(k + 1) : i = k + 1 \/ i \in 1..k
    OBVIOUS
  <2>11. \A i \in 1..(k + 1) : (pieces \o <<pair>>)[i] = Pair(params[i])
    BY <2>2, <2>8, <2>10 DEF pair
  <2> QED
    BY <2>5, <2>6, <2>7, <2>8, <2>11 DEF Carried, joined
<1> QED
  BY <1>3, <1>4

\* A service reads what was sent.
LEMMA UrlencodedReadBack ==
    ASSUME NEW params, IsList(params), \A i \in DOMAIN params : Readable(params[i])
    PROVE  DecodeUrlencoded(EncodeUrlencoded(params)) = [i \in DOMAIN params |-> ReadBack(params[i])]
<1> DEFINE n == Len(params)
           body == EncodeUrlencoded(params)
           pairs == IF body = << >> THEN << >> ELSE Split(body, "&")
<1>1. n \in Nat /\ DOMAIN params = 1..n
  BY DEF IsList
<1>2. PICK stage : PairStages(stage, params) /\ body = stage[n]
  BY PairsFold, Zenon
<1>3. /\ stage[0] = << >>
      /\ \A k \in 0..(n - 1) : stage[k + 1] = Joined(stage[k], params[k + 1])
  BY <1>2 DEF PairStages
<1> DEFINE Right(k) == Begun(stage[k], params, k)
           good == {k \in Nat : k <= n => Right(k)}
<1> HIDE DEF n
<1>4. 0 \in good
  BY <1>3 DEF Begun
<1>5. ASSUME NEW k \in good PROVE k + 1 \in good
  <2> SUFFICES ASSUME k + 1 <= n PROVE Right(k + 1)
    OBVIOUS
  <2>1. k \in Nat /\ k \in 0..(n - 1) /\ k + 1 \in 1..n /\ Right(k)
    BY <1>1
  <2>2. Readable(params[k + 1])
    BY <1>1, <2>1
  <2>3. Carried(Joined(stage[k], params[k + 1]), params, k + 1)
    BY <2>1, <2>2, CarriedMore
  <2>4. stage[k + 1] = Joined(stage[k], params[k + 1])
    BY <1>3, <2>1
  <2> QED
    BY <2>1, <2>3, <2>4 DEF Begun
<1>6. Right(n)
  <2> HIDE DEF good, Right
  <2>1. good \in SUBSET Nat
    BY DEF good
  <2>2. good = Nat
    BY <1>4, <1>5, <2>1, SetInduction
  <2> QED
    BY <1>1, <2>2 DEF good
<1>7. DecodeUrlencoded(body) = [i \in DOMAIN pairs |-> DecodedPair(pairs[i])]
  BY Zenon DEF DecodeUrlencoded, DecodedPair, DecodedText
<1>8. DOMAIN pairs = 1..n /\ \A i \in 1..n : pairs[i] = Pair(params[i])
  <2>1. CASE n = 0
    <3>1. body = << >>
      BY <1>2, <1>6, <2>1 DEF Begun
    <3>2. pairs = << >>
      BY <3>1
    <3> QED
      BY <2>1, <3>2
  <2>2. CASE n # 0
    <3>1. Carried(body, params, n)
      BY <1>2, <1>6, <2>2 DEF Begun
    <3>2. pairs = Split(body, "&")
      BY <3>1 DEF Carried
    <3> HIDE DEF pairs, body
    <3>3. pairs \in Seq(Seq(Symbols)) /\ Len(pairs) = n /\ \A i \in 1..n : pairs[i] = Pair(params[i])
      BY <3>1, <3>2 DEF Carried
    <3> QED
      BY <3>3
  <2> QED
    BY <2>1, <2>2
<1> HIDE DEF pairs, body
<1>9. \A i \in 1..n : DecodedPair(pairs[i]) = ReadBack(params[i])
  BY <1>1, <1>8, PairIs
<1> QED
  BY <1>1, <1>7, <1>8, <1>9 DEF body

-----------------------------------------------------------------------------
(* A multipart body is cut at its delimiters.                                *)

\* The body after each part.
LEMMA PartsFold ==
    ASSUME NEW params, IsList(params)
    PROVE  \E stage : PartStages(stage, params) /\ PartsOf(params) = stage[Len(params)]
<1> DEFINE n == Len(params)
           how == [fold |-> "parts"]
           Nothing == << >>
           Added(prior, item) == Parted(prior, item)
           Original(g) == g = [S \in SUBSET (DOMAIN params) |->
               IF S = {} THEN Nothing ELSE Added(g[S \ {Max(S)}], params[Max(S)])]
           iter == CHOOSE g : Original(g)
<1>1. n \in Nat /\ DOMAIN params = 1..n
  BY DEF IsList
<1>2. /\ Start(how) = Nothing
      /\ \A prior, item : Stepped(how, prior, item) = Added(prior, item)
  BY Zenon DEF Start, Stepped
<1>3. PartsOf(params) = iter[DOMAIN params]
  BY Zenon DEF PartsOf, FoldLeft, MapThenFoldSet
<1> HIDE DEF how, Nothing, Added
<1>4. \A g : Original(g) <=> IsUnfolding(how, g, params, n)
  BY <1>1, <1>2, Zenon DEF IsUnfolding, Unfolding
<1> HIDE DEF Original
<1>5. \E g : Original(g)
  <2>1. \E g : IsUnfolding(how, g, params, n)
    BY <1>1, UnfoldingExists, Zenon
  <2> QED
    BY <1>4, <2>1, Zenon
<1>6. Original(iter)
  BY <1>5, Zenon
<1> HIDE DEF iter
<1>7. PICK stage : Folded(how, params, n, stage) /\ iter[1..n] = stage[n]
  BY <1>1, <1>4, <1>6, UnfoldingStages
<1>8. /\ stage[0] = Nothing
      /\ \A k \in 0..(n - 1) : stage[k + 1] = Added(stage[k], params[k + 1])
  BY <1>2, <1>7, Zenon DEF Folded
<1>9. PartStages(stage, params)
  BY <1>8, Zenon DEF PartStages, Nothing, Added
<1>10. PartsOf(params) = stage[n]
  BY <1>1, <1>3, <1>7
<1> QED
  BY <1>9, <1>10, Zenon

\* What surrounds a value in its part.
LEMMA PartShape ==
    ASSUME NEW p, Readable(p)
    PROVE  LET part == Part(p)
               value == Canonical(p)
           IN  /\ value \in Seq(Symbols) /\ part \in Seq(Symbols) /\ Len(part) = Len(value) + 8
               /\ part[1] = "crlf" /\ part[2] = "disposition" /\ part[3] = "quote"
               /\ part[4] = p.name /\ part[5] = "quote" /\ part[6] = "crlf" /\ part[7] = "crlf"
               /\ \A i \in 1..Len(value) : part[7 + i] = value[i]
               /\ part[Len(value) + 8] = "crlf"
<1> DEFINE head == <<"crlf", "disposition", "quote", p.name, "quote", "crlf", "crlf">>
           value == Canonical(p)
           m == Len(value)
           part == Part(p)
<1>1. Character \subseteq Symbols /\ "disposition" \in Symbols
  BY DEF Symbols
<1>2. "quote" \in Character /\ "crlf" \in Character
  BY DigitType DEF Character, Byte, OtherBytes
<1>3. p.name \in Character /\ value \in Seq(Character)
  BY CanonicalType DEF Readable
<1>4. value \in Seq(Symbols)
  BY <1>1, <1>3, SeqMonotone
<1>5. part = head \o value \o <<"crlf">>
  BY Zenon DEF Part
<1> HIDE DEF value, part
<1>6. "quote" \in Symbols /\ "crlf" \in Symbols /\ p.name \in Symbols
  BY <1>1, <1>2, <1>3
<1>7. /\ head \in Seq(Symbols) /\ Len(head) = 7
      /\ head[1] = "crlf" /\ head[2] = "disposition" /\ head[3] = "quote"
      /\ head[4] = p.name /\ head[5] = "quote" /\ head[6] = "crlf" /\ head[7] = "crlf"
  BY <1>1, <1>6
<1> HIDE DEF head
<1> DEFINE front == head \o value
<1>8. /\ front \in Seq(Symbols) /\ Len(front) = 7 + m /\ m \in Nat
      /\ \A i \in 1..7 : front[i] = head[i]
      /\ \A i \in 1..m : front[7 + i] = value[i]
  <2>1. /\ front \in Seq(Symbols) /\ Len(front) = Len(head) + Len(value)
        /\ \A i \in 1..Len(head) : front[i] = head[i]
        /\ \A i \in 1..Len(value) : front[Len(head) + i] = value[i]
    <3>1. head \in Seq(Symbols) /\ value \in Seq(Symbols)
      BY <1>4, <1>7
    <3> HIDE DEF front
    <3>2. front = head \o value
      BY Zenon DEF front
    <3> QED
      BY <3>1, <3>2, ConcatEffect
  <2> HIDE DEF front
  <2>2. Len(value) \in Nat
    BY <1>4
  <2> QED
    BY <1>7, <2>1, <2>2
<1>9. part = front \o <<"crlf">>
  BY <1>5
<1> HIDE DEF front, m
<1>10. /\ front \o <<"crlf">> \in Seq(Symbols) /\ Len(front \o <<"crlf">>) = 8 + m
       /\ \A i \in 1..(7 + m) : (front \o <<"crlf">>)[i] = front[i]
       /\ (front \o <<"crlf">>)[8 + m] = "crlf"
  BY <1>6, <1>8
<1>11. part \in Seq(Symbols) /\ Len(part) = m + 8 /\ part[m + 8] = "crlf"
  BY <1>8, <1>9, <1>10
<1>12. \A i \in 1..7 : part[i] = head[i]
  BY <1>8, <1>9, <1>10
<1>13. \A i \in 1..m : part[7 + i] = value[i]
  BY <1>8, <1>9, <1>10
<1>14. /\ part[1] = "crlf" /\ part[2] = "disposition" /\ part[3] = "quote"
       /\ part[4] = p.name /\ part[5] = "quote" /\ part[6] = "crlf" /\ part[7] = "crlf"
  BY <1>7, <1>12
<1> QED
  BY <1>4, <1>11, <1>13, <1>14 DEF value, part, m

\* No character is the delimiter.
LEMMA DelimiterApart == /\ Delimiter \notin Character /\ Delimiter \in Symbols
                        /\ Delimiter \notin {"crlf", "disposition", "quote", "--"}
<1>1. Delimiter \notin Character
  BY DigitType DEF Delimiter, Character, Byte, Unreserved, OtherBytes, DigitSet
<1>2. Delimiter \notin {"crlf", "disposition", "quote", "--"}
  BY DEF Delimiter
<1> QED
  BY <1>1, <1>2 DEF Symbols

\* A part has no delimiter, and is read at the quotes and the empty line it has itself.
LEMMA PartIs ==
    ASSUME NEW p, Readable(p), PlainName(p)
    PROVE  /\ Part(p) \in Seq(Symbols)
           /\ \A i \in 1..Len(Part(p)) : Part(p)[i] # Delimiter
           /\ DecodePart(Part(p)) = PartRead(p)
<1> DEFINE part == Part(p)
           value == Canonical(p)
           m == Len(value)
<1>1. /\ value \in Seq(Symbols) /\ part \in Seq(Symbols) /\ Len(part) = m + 8
      /\ part[1] = "crlf" /\ part[2] = "disposition" /\ part[3] = "quote"
      /\ part[4] = p.name /\ part[5] = "quote" /\ part[6] = "crlf" /\ part[7] = "crlf"
      /\ \A i \in 1..m : part[7 + i] = value[i]
      /\ part[m + 8] = "crlf"
  BY PartShape
<1>2. p.name \in Character /\ value \in Seq(Character)
  BY CanonicalType DEF Readable
<1>3. p.name # "quote" /\ p.name # "crlf"
  BY DEF PlainName
<1> HIDE DEF part, value
<1>4. m \in Nat /\ \A i \in 1..m : value[i] \in Character
  BY <1>2
<1> HIDE DEF m
<1>5. \A i \in 1..Len(part) : part[i] # Delimiter
  <2> TAKE i \in 1..Len(part)
  <2>1. CASE i \in 1..7
    <3>1. i = 1 \/ i = 2 \/ i = 3 \/ i = 4 \/ i = 5 \/ i = 6 \/ i = 7
      BY <2>1
    <3> QED
      BY <1>1, <1>2, <3>1, DelimiterApart
  <2>2. CASE i \in 8..(m + 7)
    <3>1. i - 7 \in 1..m /\ i = 7 + (i - 7)
      BY <1>4, <2>2
    <3>2. part[7 + (i - 7)] = value[i - 7]
      BY <1>1, <3>1
    <3> QED
      BY <1>4, <3>1, <3>2, DelimiterApart
  <2>3. CASE i = m + 8
    BY <1>1, <2>3, DelimiterApart
  <2> QED
    BY <1>1, <1>4, <2>1, <2>2, <2>3
<1> DEFINE quotes(i) == {j \in i..Len(part) : part[j] = "quote"}
           blank == {i \in 1..(Len(part) - 1) : part[i] = "crlf" /\ part[i + 1] = "crlf"}
<1>6. Min(quotes(1)) = 3
  <2>1. quotes(1) \in SUBSET Nat /\ 3 \in quotes(1)
    BY <1>1, <1>4
  <2>2. \A i \in quotes(1) : 3 <= i
    BY <1>1
  <2> HIDE DEF quotes
  <2> QED
    BY <2>1, <2>2, MinEquals
<1>7. Min(quotes(4)) = 5
  <2>1. quotes(4) \in SUBSET Nat /\ 5 \in quotes(4)
    BY <1>1, <1>4
  <2>2. \A i \in quotes(4) : 5 <= i
    <3> TAKE i \in quotes(4)
    <3>1. i >= 4 /\ i # 4 /\ i \in Nat
      BY <1>1, <1>3, <2>1
    <3> QED
      BY <3>1
  <2> HIDE DEF quotes
  <2> QED
    BY <2>1, <2>2, MinEquals
<1>8. Min(blank) = 6
  <2>1. blank \in SUBSET Nat /\ 6 \in blank
    BY <1>1, <1>4
  <2>2. \A i \in blank : 6 <= i
    <3> TAKE i \in blank
    <3>1. i # 1 /\ i # 2 /\ i # 3 /\ i # 4 /\ i # 5
      BY <1>1, <1>3
    <3>2. i \in Nat /\ i >= 1
      OBVIOUS
    <3> QED
      BY <3>1, <3>2
  <2> HIDE DEF blank
  <2> QED
    BY <2>1, <2>2, MinEquals
<1>9. DecodePart(part) = [name |-> SubSeq(part, Min(quotes(1)) + 1, Min(quotes(Min(quotes(1)) + 1)) - 1),
                          value |-> SubSeq(part, Min(blank) + 2, Len(part) - 1)]
  BY Zenon DEF DecodePart
<1> HIDE DEF quotes, blank
<1>10. 3 + 1 = 4 /\ 5 - 1 = 4 /\ 6 + 2 = 8
  OBVIOUS
<1>11. DecodePart(part) = [name |-> SubSeq(part, 4, 4), value |-> SubSeq(part, 8, Len(part) - 1)]
  BY <1>6, <1>7, <1>8, <1>9, <1>10, Zenon
<1>12. SubSeq(part, 4, 4) = <<p.name>>
  <2> DEFINE s == SubSeq(part, 4, 4)
  <2>1. s \in Seq(Symbols) /\ Len(s) = 4 - 4 + 1 /\ \A i \in 1..(4 - 4 + 1) : s[i] = part[4 + i - 1]
    BY <1>1, <1>4, SubSeqIs
  <2> HIDE DEF s
  <2>2. Len(s) = 1 /\ s[1] = p.name
    BY <1>1, <2>1
  <2>3. s = <<p.name>>
    BY <2>1, <2>2
  <2> QED
    BY <2>3 DEF s
<1>13. SubSeq(part, 8, Len(part) - 1) = value
  <2> DEFINE b == m + 7
             s == SubSeq(part, 8, b)
  <2>1. part \in Seq(Symbols) /\ 8 \in Nat /\ 1 <= 8 /\ b \in Nat /\ 8 <= b + 1 /\ b <= Len(part)
        /\ Len(part) - 1 = b /\ b - 8 + 1 = m /\ \A i \in 1..m : 8 + i - 1 = 7 + i
    BY <1>1, <1>4
  <2> HIDE DEF b
  <2>2. s \in Seq(Symbols) /\ Len(s) = b - 8 + 1 /\ \A i \in 1..(b - 8 + 1) : s[i] = part[8 + i - 1]
    BY <2>1, SubSeqIs
  <2> HIDE DEF s
  <2>3. Len(s) = Len(value) /\ \A i \in 1..Len(s) : s[i] = value[i]
    BY <1>1, <2>1, <2>2 DEF m
  <2>4. s = value
    BY <1>1, <2>2, <2>3, SameSequence
  <2> QED
    BY <2>1, <2>4 DEF s
<1>14. DecodePart(part) = PartRead(p)
  BY <1>11, <1>12, <1>13 DEF PartRead, value
<1> QED
  BY <1>1, <1>5, <1>14 DEF part

LEMMA PieceAdds ==
    ASSUME NEW body \in Seq(Symbols), NEW piece \in Seq(Symbols),
           \A i \in 1..Len(piece) : piece[i] # Delimiter,
           Split(body, Delimiter) \in Seq(Seq(Symbols))
    PROVE  PieceAdded(body, Split(body, Delimiter), piece)
<1> DEFINE pieces == Split(body, Delimiter)
<1>1. body \o <<Delimiter>> \o piece \in Seq(Symbols)
  BY DelimiterApart, Separated
<1>2. AddsPiece(body, Delimiter, piece)
  <2>1. OnePiece(Symbols, body, Delimiter, piece)
    BY DelimiterApart DEF OnePiece
  <2> QED
    BY <2>1, SplitAppended, Zenon
<1>3. HasOneMore(pieces, piece)
  BY PieceMore
<1> HIDE DEF pieces
<1>4. Split(body \o <<Delimiter>> \o piece, Delimiter) = pieces \o <<piece>>
  BY <1>2, Zenon DEF AddsPiece, pieces
<1> QED
  BY <1>1, <1>3, <1>4, Zenon DEF PieceAdded, pieces

\* One more part.
LEMMA PartedMore ==
    ASSUME NEW params, NEW k \in Nat, NEW body, PartedBy(body, params, k),
           Readable(params[k + 1]), PlainName(params[k + 1])
    PROVE  PartedBy(Parted(body, params[k + 1]), params, k + 1)
<1> DEFINE part == Part(params[k + 1])
           pieces == Split(body, Delimiter)
           longer == Parted(body, params[k + 1])
<1>1. part \in Seq(Symbols) /\ \A i \in 1..Len(part) : part[i] # Delimiter
  BY PartIs
<1>2. /\ body \in Seq(Symbols) /\ pieces \in Seq(Seq(Symbols)) /\ Len(pieces) = k + 1
      /\ \A i \in 1..k : pieces[i + 1] = Part(params[i])
  BY DEF PartedBy
<1>3. longer = body \o <<Delimiter>> \o part
  BY Zenon DEF Parted
<1> HIDE DEF part
<1>4. PieceAdded(body, pieces, part)
  BY <1>1, <1>2, PieceAdds
<1> HIDE DEF pieces, longer
<1>5. longer \in Seq(Symbols) /\ Split(longer, Delimiter) = pieces \o <<part>>
  BY <1>3, <1>4 DEF PieceAdded
<1>6. /\ pieces \o <<part>> \in Seq(Seq(Symbols)) /\ Len(pieces \o <<part>>) = k + 1 + 1
      /\ (pieces \o <<part>>)[k + 1 + 1] = part
      /\ \A i \in 1..(k + 1) : (pieces \o <<part>>)[i] = pieces[i]
  BY <1>2, <1>4 DEF PieceAdded, HasOneMore
<1>7. ASSUME NEW i \in 1..(k + 1) PROVE (pieces \o <<part>>)[i + 1] = Part(params[i])
  <2>1. CASE i = k + 1
    BY <1>6, <2>1 DEF part
  <2>2. CASE i # k + 1
    <3>1. i \in 1..k /\ i + 1 \in 1..(k + 1)
      BY <2>2
    <3> QED
      BY <1>2, <1>6, <3>1
  <2> QED
    BY <2>1, <2>2
<1>8. PartedBy(longer, params, k + 1)
  BY <1>5, <1>6, <1>7 DEF PartedBy
<1> QED
  BY <1>8 DEF longer

\* A multipart body is read as what was sent.
LEMMA MultipartReadBack ==
    ASSUME NEW params, IsList(params), \A i \in DOMAIN params : Readable(params[i]),
           \A i \in DOMAIN params : PlainName(params[i])
    PROVE  DecodeMultipart(EncodeMultipart(params)) = [i \in DOMAIN params |-> PartRead(params[i])]
<1> DEFINE n == Len(params)
           body == EncodeMultipart(params)
           parts == PartsOf(params)
           closing == <<"--", "crlf">>
           before == Split(parts, Delimiter)
           pieces == Split(body, Delimiter)
<1>1. n \in Nat /\ DOMAIN params = 1..n
  BY DEF IsList
<1>2. PICK stage : PartStages(stage, params) /\ parts = stage[n]
  BY PartsFold, Zenon
<1>3. /\ stage[0] = << >>
      /\ \A k \in 0..(n - 1) : stage[k + 1] = Parted(stage[k], params[k + 1])
  BY <1>2 DEF PartStages
<1>4. body = parts \o <<Delimiter>> \o closing
  BY Zenon DEF EncodeMultipart, PartsOf
<1> HIDE DEF parts, body
<1> DEFINE Right(k) == PartedBy(stage[k], params, k)
           good == {k \in Nat : k <= n => Right(k)}
<1> HIDE DEF n
<1>5. 0 \in good
  <2>1. << >> \in Seq(Symbols) /\ \A i \in 1..Len(<< >>) : << >>[i] # Delimiter
    OBVIOUS
  <2>2. Split(<< >>, Delimiter) = <<<< >>>>
    BY <2>1, SplitWhole
  <2>3. <<<< >>>> \in Seq(Seq(Symbols)) /\ Len(<<<< >>>>) = 0 + 1
    <3> DEFINE Texts == Seq(Symbols)
               none == << >>
    <3>1. none \in Texts
      BY <2>1
    <3> HIDE DEF Texts, none
    <3>2. <<none>> \in Seq(Texts) /\ Len(<<none>>) = 0 + 1
      BY <3>1
    <3> QED
      BY <3>2 DEF Texts, none
  <2>4. PartedBy(<< >>, params, 0)
    <3> DEFINE one == <<<< >>>>
    <3>1. one = Split(<< >>, Delimiter) /\ one \in Seq(Seq(Symbols)) /\ Len(one) = 0 + 1
      BY <2>2, <2>3
    <3> HIDE DEF one
    <3>2. \A i \in 1..0 : Split(<< >>, Delimiter)[i + 1] = Part(params[i])
      OBVIOUS
    <3> QED
      BY <2>1, <3>1, <3>2, Zenon DEF PartedBy
  <2> QED
    BY <1>3, <2>4
<1>6. ASSUME NEW k \in good PROVE k + 1 \in good
  <2> SUFFICES ASSUME k + 1 <= n PROVE Right(k + 1)
    OBVIOUS
  <2>1. k \in Nat /\ k \in 0..(n - 1) /\ k + 1 \in 1..n /\ Right(k)
    BY <1>1
  <2>2. Readable(params[k + 1]) /\ PlainName(params[k + 1])
    BY <1>1, <2>1
  <2>3. PartedBy(Parted(stage[k], params[k + 1]), params, k + 1)
    BY <2>1, <2>2, PartedMore
  <2>4. stage[k + 1] = Parted(stage[k], params[k + 1])
    BY <1>3, <2>1
  <2> QED
    BY <2>3, <2>4
<1>7. PartedBy(parts, params, n)
  <2> HIDE DEF good, Right
  <2>1. good \in SUBSET Nat
    BY DEF good
  <2>2. good = Nat
    BY <1>5, <1>6, <2>1, SetInduction
  <2>3. Right(n)
    BY <1>1, <2>2 DEF good
  <2> QED
    BY <1>2, <2>3 DEF Right
<1>8. /\ parts \in Seq(Symbols) /\ before \in Seq(Seq(Symbols)) /\ Len(before) = n + 1
      /\ \A i \in 1..n : before[i + 1] = Part(params[i])
  BY <1>7 DEF PartedBy
<1>9. closing \in Seq(Symbols) /\ \A i \in 1..Len(closing) : closing[i] # Delimiter
  <2>1. "--" \in Symbols /\ "crlf" \in Symbols
    <3>1. "crlf" \in Character
      BY DEF Character
    <3> QED
      BY <3>1 DEF Symbols
  <2>2. closing \in Seq(Symbols) /\ Len(closing) = 2 /\ closing[1] = "--" /\ closing[2] = "crlf"
    BY <2>1
  <2>3. \A i \in 1..2 : i = 1 \/ i = 2
    OBVIOUS
  <2> HIDE DEF closing
  <2> QED
    BY <2>2, <2>3, DelimiterApart
<1> HIDE DEF closing
<1>10. PieceAdded(parts, before, closing)
  BY <1>8, <1>9, PieceAdds
<1>11. pieces = before \o <<closing>>
  BY <1>4, <1>10, Zenon DEF PieceAdded
<1> HIDE DEF before, pieces
<1>12. Len(pieces) = n + 2 /\ \A i \in 1..(n + 1) : pieces[i] = before[i]
  <2>1. /\ Len(before \o <<closing>>) = Len(before) + 1
        /\ \A i \in 1..Len(before) : (before \o <<closing>>)[i] = before[i]
    BY <1>10 DEF PieceAdded, HasOneMore
  <2> QED
    BY <1>1, <1>8, <1>11, <2>1
<1>13. DecodeMultipart(body) = [i \in 1..(Len(pieces) - 2) |-> DecodePart(pieces[i + 1])]
  BY Zenon DEF DecodeMultipart, pieces
<1>14. Len(pieces) - 2 = n
  BY <1>1, <1>12
<1>15. ASSUME NEW i \in 1..n PROVE DecodePart(pieces[i + 1]) = PartRead(params[i])
  <2>1. i + 1 \in 1..(n + 1)
    BY <1>1
  <2>2. pieces[i + 1] = Part(params[i])
    BY <1>8, <1>12, <2>1
  <2>3. Readable(params[i]) /\ PlainName(params[i])
    BY <1>1
  <2> QED
    BY <2>2, <2>3, PartIs
<1>16. [i \in 1..n |-> DecodePart(pieces[i + 1])] = [i \in 1..n |-> PartRead(params[i])]
  BY <1>15, Zenon
<1> QED
  BY <1>1, <1>13, <1>14, <1>16 DEF body

-----------------------------------------------------------------------------
(* The values of a JSON body.                                               *)

\* A numeral has no leading zero.
LEMMA DecimalShape ==
    \A n \in Nat : /\ Len(Decimal[n]) > 0
                   /\ n > 0 => Decimal[n][1] # "0"
                   /\ n = 0 => Len(Decimal[n]) = 1
<1> DEFINE Right(n) == /\ Len(Decimal[n]) > 0
                       /\ n > 0 => Decimal[n][1] # "0"
                       /\ n = 0 => Len(Decimal[n]) = 1
           bad == {n \in Nat : ~Right(n)}
<1> SUFFICES ASSUME bad # {} PROVE FALSE
  OBVIOUS
<1>1. bad \in SUBSET Nat
  OBVIOUS
<1>2. PICK n \in bad : \A m \in bad : n <= m
  <2> HIDE DEF bad
  <2> QED
    BY <1>1, SmallestNat
<1>3. n \in Nat /\ ~Right(n)
  OBVIOUS
<1>4. Decimal[n] = Spelling(n, Decimal[n \div 10])
  BY <1>3, DecimalIs
<1>5. CASE n < 10
  <2>1. \A m \in 1..9 : Digits[m + 1] # "0"
    BY DEF Digits
  <2>2. Decimal[n] = <<Digits[n + 1]>>
    BY <1>4, <1>5 DEF Spelling
  <2>3. n > 0 => Digits[n + 1] # "0"
    BY <1>3, <1>5, <2>1
  <2>4. Len(Decimal[n]) = 1 /\ Decimal[n][1] = Digits[n + 1]
    BY <2>2
  <2> QED
    BY <1>3, <2>3, <2>4
<1>6. CASE ~(n < 10)
  <2>1. n \div 10 \in Nat /\ n \div 10 < n /\ n \div 10 > 0
    BY <1>3, <1>6, TenthIsLess
  <2>2. Right(n \div 10)
    BY <1>2, <1>3, <2>1
  <2> DEFINE rest == Decimal[n \div 10]
             digit == Digits[(n % 10) + 1]
  <2>3. rest \in Seq(DigitSet)
    BY <2>1, DecimalType
  <2>4. Decimal[n] = Append(rest, digit)
    BY <1>4, <1>6 DEF Spelling
  <2>5. Len(rest) > 0 /\ rest[1] # "0"
    BY <2>1, <2>2
  <2>6. digit \in DigitSet
    <3>1. n % 10 \in 0..9
      BY <1>3, TenthIsLess
    <3> QED
      BY <3>1, DigitType
  <2> HIDE DEF rest, digit
  <2>7. Len(Append(rest, digit)) = Len(rest) + 1 /\ Append(rest, digit)[1] = rest[1]
    BY <2>3, <2>5, <2>6
  <2>8. Len(rest) \in Nat
    BY <2>3
  <2> QED
    BY <1>3, <1>6, <2>4, <2>5, <2>7, <2>8
<1> QED
  BY <1>5, <1>6

\* So a number is written as JSON has it.
LEMMA NumeralIsJson == \A n \in Int : IsJsonNumber(Numeral(n))
<1> TAKE n \in Int
<1>1. ASSUME NEW m \in Nat
      PROVE  IsDigits(Decimal[m]) /\ (Len(Decimal[m]) > 1 => Decimal[m][1] # "0")
             /\ Decimal[m] \in Seq(DigitSet) /\ Decimal[m] # << >> /\ Decimal[m][1] # "-"
  <2> DEFINE d == Decimal[m]
  <2>1. d \in Seq(DigitSet)
    BY DecimalType
  <2>2. Len(d) > 0 /\ (m > 0 => d[1] # "0") /\ (m = 0 => Len(d) = 1)
    BY DecimalShape
  <2> HIDE DEF d
  <2>3. d # << >> /\ d[1] \in DigitSet /\ \A i \in DOMAIN d : d[i] \in DigitSet
    BY <2>1, <2>2
  <2>4. IsDigits(d)
    BY <2>3, DigitType DEF IsDigits
  <2>5. d[1] # "-"
    BY <2>3 DEF DigitSet
  <2> QED
    BY <2>1, <2>2, <2>3, <2>4, <2>5 DEF d
<1> DEFINE token == Numeral(n)
           digits == IF token # << >> /\ token[1] = "-" THEN Tail(token) ELSE token
<1>2. CASE n < 0
  <2> DEFINE d == Decimal[-n]
  <2>1. IsDigits(d) /\ (Len(d) > 1 => d[1] # "0") /\ d \in Seq(DigitSet)
    BY <1>1, <1>2
  <2>2. token = <<"-">> \o d
    BY <1>2 DEF Numeral
  <2> HIDE DEF d, token
  <2>3. token # << >> /\ token[1] = "-" /\ Tail(token) = d
    <3>1. <<"-">> \o d \in Seq(DigitSet \cup {"-"})
      BY <2>1
    <3>2. (<<"-">> \o d)[1] = "-" /\ Len(<<"-">> \o d) = Len(d) + 1
      BY <2>1
    <3>3. Tail(<<"-">> \o d) = d
      <4> DEFINE S == DigitSet \cup {"-"}
                 t == <<"-">> \o d
      <4>1. t \in Seq(S) /\ d \in Seq(S) /\ "-" \in S
        BY <2>1
      <4> HIDE DEF S
      <4>2. Len(t) = Len(d) + 1 /\ Len(d) \in Nat /\ \A i \in 1..Len(d) : t[i + 1] = d[i]
        BY <4>1
      <4> HIDE DEF t
      <4>3. Tail(t) \in Seq(S) /\ Len(Tail(t)) = Len(d) /\ \A i \in 1..Len(d) : Tail(t)[i] = t[i + 1]
        BY <4>1, <4>2
      <4>4. Tail(t) = d
        BY <4>1, <4>2, <4>3, SameSequence
      <4> QED
        BY <4>4 DEF t
    <3>4. <<"-">> \o d # << >>
      BY <2>1, <3>2
    <3> QED
      BY <2>2, <3>2, <3>3, <3>4
  <2>4. digits = d
    BY <2>3
  <2> QED
    BY <2>1, <2>4, Zenon DEF IsJsonNumber, token
<1>3. CASE ~(n < 0)
  <2>1. token = Decimal[n]
    BY <1>3 DEF Numeral
  <2>2. IsDigits(token) /\ (Len(token) > 1 => token[1] # "0") /\ token # << >> /\ token[1] # "-"
    BY <1>1, <1>3, <2>1
  <2> HIDE DEF token
  <2>3. digits = token
    BY <2>2
  <2> QED
    BY <2>2, <2>3, Zenon DEF IsJsonNumber, token
<1> QED
  BY <1>2, <1>3

\* A character is escaped if it must be, and read back from what it is written as.
LEMMA JsonEscapedIs ==
    ASSUME NEW ch \in Character
    PROVE  /\ JsonEscaped(ch) \notin {"quote", "\\", "crlf"}
           /\ Unescaped(JsonEscaped(ch)) = ch
<1>1. ch \notin {"escaped quote", "escaped backslash", "escaped crlf"}
  BY DigitType DEF Character, Byte, Unreserved, OtherBytes, DigitSet
<1>2. CASE ch = "quote"
  BY <1>2 DEF JsonEscaped, Unescaped
<1>3. CASE ch = "\\"
  BY <1>3 DEF JsonEscaped, Unescaped
<1>4. CASE ch = "crlf"
  BY <1>4 DEF JsonEscaped, Unescaped
<1>5. CASE ch \notin {"quote", "\\", "crlf"}
  <2>1. JsonEscaped(ch) = ch
    BY <1>5 DEF JsonEscaped
  <2>2. Unescaped(ch) = ch
    BY <1>1 DEF Unescaped
  <2> QED
    BY <1>5, <2>1, <2>2
<1> QED
  BY <1>2, <1>3, <1>4, <1>5

\* A text between quotes is read back.
LEMMA JsonStringRead ==
    ASSUME NEW text \in Seq(Character)
    PROVE  ReadJson(JsonString(text)) = [kind |-> "string", text |-> text]
<1> DEFINE n == Len(text)
           inner == [i \in DOMAIN text |-> JsonEscaped(text[i])]
           token == JsonString(text)
<1>1. n \in Nat /\ DOMAIN text = 1..n /\ \A i \in 1..n : text[i] \in Character
  OBVIOUS
<1>2. inner \in Seq(JsonSymbols) /\ Len(inner) = n /\ \A i \in 1..n : inner[i] = JsonEscaped(text[i])
  <2>1. \A i \in 1..n : JsonEscaped(text[i]) \in JsonSymbols
    BY <1>1 DEF JsonSymbols
  <2> HIDE DEF n
  <2>2. inner \in [1..n -> JsonSymbols]
    BY <1>1, <2>1
  <2>3. \A i \in 1..n : inner[i] = JsonEscaped(text[i])
    BY <1>1
  <2> HIDE DEF inner
  <2> QED
    BY <1>1, <2>2, <2>3
<1>3. token = <<"quote">> \o inner \o <<"quote">>
  BY Zenon DEF JsonString
<1> HIDE DEF inner, token, n
<1>4. /\ token \in Seq(JsonSymbols) /\ Len(token) = n + 2
      /\ token[1] = "quote" /\ token[n + 2] = "quote"
      /\ \A i \in 1..n : token[i + 1] = inner[i]
  <2> DEFINE front == <<"quote">> \o inner
  <2>1. "quote" \in JsonSymbols
    BY DEF JsonSymbols
  <2>2. /\ front \in Seq(JsonSymbols) /\ Len(front) = n + 1 /\ front[1] = "quote"
        /\ \A i \in 1..n : front[i + 1] = inner[i]
    BY <1>1, <1>2, <2>1
  <2> HIDE DEF front
  <2>3. /\ front \o <<"quote">> \in Seq(JsonSymbols) /\ Len(front \o <<"quote">>) = n + 2
        /\ (front \o <<"quote">>)[n + 2] = "quote"
        /\ \A i \in 1..(n + 1) : (front \o <<"quote">>)[i] = front[i]
    BY <1>1, <2>1, <2>2
  <2>4. token = front \o <<"quote">>
    BY <1>3 DEF front
  <2> QED
    BY <1>1, <2>2, <2>3, <2>4
<1>5. \A i \in 1..n : /\ token[i + 1] \notin {"quote", "\\", "crlf"}
                      /\ Unescaped(token[i + 1]) = text[i]
  BY <1>1, <1>2, <1>4, JsonEscapedIs, Zenon
<1>6. IsJsonString(token)
  <2>1. \A i \in 2..(Len(token) - 1) : token[i] \notin {"quote", "\\", "crlf"}
    <3> TAKE i \in 2..(Len(token) - 1)
    <3>1. i - 1 \in 1..n /\ (i - 1) + 1 = i
      BY <1>1, <1>4
    <3>2. token[(i - 1) + 1] \notin {"quote", "\\", "crlf"}
      BY <1>5, <3>1, Zenon
    <3> QED
      BY <3>1, <3>2, Zenon
  <2>2. Len(token) > 1 /\ token[Len(token)] = "quote"
    BY <1>1, <1>4
  <2> QED
    BY <1>4, <2>1, <2>2, Zenon DEF IsJsonString
<1>7. ~IsJsonNumber(token)
  <2>1. token[1] # "-" /\ ~(token[1] \in DOMAIN Digit)
    BY <1>4, DigitType DEF DigitSet
  <2>2. 1 \in DOMAIN token
    BY <1>1, <1>4
  <2>3. ~IsDigits(token)
    BY <2>1, <2>2, Zenon DEF IsDigits
  <2> QED
    BY <2>1, <2>3, Zenon DEF IsJsonNumber
<1>8. token \notin {<<"true">>, <<"false">>}
  <2>1. <<"true">>[1] # "quote" /\ <<"false">>[1] # "quote"
    OBVIOUS
  <2>2. token[1] = "quote"
    BY <1>4
  <2> QED
    BY <2>1, <2>2, Zenon
<1>9. ReadJson(token) = [kind |-> "string", text |-> [i \in 1..(Len(token) - 2) |-> Unescaped(token[i + 1])]]
  BY <1>6, <1>7, <1>8, Zenon DEF ReadJson
<1>10. [i \in 1..(Len(token) - 2) |-> Unescaped(token[i + 1])] = text
  <2>1. Len(token) - 2 = n
    BY <1>1, <1>4
  <2>2. text = [i \in 1..n |-> text[i]]
    BY <1>1
  <2>3. [i \in 1..n |-> Unescaped(token[i + 1])] = [i \in 1..n |-> text[i]]
    BY <1>5, Zenon
  <2> QED
    BY <2>1, <2>2, <2>3
<1> QED
  BY <1>9, <1>10 DEF token

\* A number is no string and no boolean.
LEMMA JsonNumberRead ==
    ASSUME NEW n \in Int
    PROVE  ReadJson(Numeral(n)) = [kind |-> "number", text |-> Numeral(n)]
<1> DEFINE token == Numeral(n)
<1>1. IsJsonNumber(token) /\ token \in Seq(Character)
  BY NumeralIsJson, NumeralType
<1> HIDE DEF token
<1>2. token # << >> /\ (token[1] = "-" \/ token[1] \in DigitSet)
  <2>1. CASE token # << >> /\ token[1] = "-"
    BY <2>1
  <2>2. CASE ~(token # << >> /\ token[1] = "-")
    <3>1. IsDigits(token)
      BY <1>1, <2>2, Zenon DEF IsJsonNumber
    <3>2. token # << >> /\ \A i \in DOMAIN token : token[i] \in DOMAIN Digit
      BY <3>1, Zenon DEF IsDigits
    <3>3. 1 \in DOMAIN token
      BY <1>1, <3>2
    <3> QED
      BY <3>2, <3>3, DigitType
  <2> QED
    BY <2>1, <2>2
<1>3. token[1] # "quote" /\ token[1] # "true" /\ token[1] # "false"
  BY <1>2 DEF DigitSet
<1>4. ~IsJsonString(token)
  BY <1>3, Zenon DEF IsJsonString
<1>5. token \notin {<<"true">>, <<"false">>}
  <2>1. <<"true">>[1] = "true" /\ <<"false">>[1] = "false"
    OBVIOUS
  <2> QED
    BY <1>3, <2>1, Zenon
<1>6. ReadJson(token) = [kind |-> "number", text |-> token]
  BY <1>1, <1>4, <1>5, Zenon DEF ReadJson
<1> QED
  BY <1>6 DEF token

\* A boolean that is one is its own canonical form, and no other JSON value.
LEMMA JsonBooleanRead ==
    ASSUME NEW text \in {<<"true">>, <<"false">>}
    PROVE  /\ CanonicalBoolean(text) = text
           /\ ReadJson(text) = [kind |-> "boolean", text |-> text]
<1>1. PICK word \in {"true", "false"} : text = <<word>>
  OBVIOUS
<1>2. Trim(text) = text
  <2> DEFINE kept == {i \in DOMAIN text : text[i] \notin {" ", "crlf"}}
  <2>1. DOMAIN text = {1} /\ text[1] = word
    BY <1>1
  <2>2. word # " " /\ word # "crlf"
    OBVIOUS
  <2>3. kept = {1}
    BY <2>1, <2>2
  <2>4. Trim(text) = IF kept = {} THEN << >> ELSE SubSeq(text, Min(kept), Max(kept))
    BY Zenon DEF Trim
  <2> HIDE DEF kept
  <2>5. 1 \in kept /\ kept \in SUBSET Nat /\ \A i \in kept : i \in Int /\ 1 <= i /\ i <= 1
    BY <2>3
  <2>6. Min(kept) = 1
    BY <2>5, MinEquals
  <2>7. Max(kept) = 1
    BY <2>5, MaxIs
  <2>8. kept # {}
    BY <2>5
  <2>9. Trim(text) = SubSeq(text, 1, 1)
    BY <2>4, <2>6, <2>7, <2>8
  <2>10. SubSeq(<<word>>, 1, 1) = <<word>>
    <3> DEFINE s == <<word>>
               t == SubSeq(s, 1, 1)
    <3>1. s \in Seq({"true", "false"}) /\ Len(s) = 1
      OBVIOUS
    <3> HIDE DEF s
    <3>2. t \in Seq({"true", "false"}) /\ Len(t) = 1 /\ \A i \in 1..1 : t[i] = s[1 + i - 1]
      BY <3>1
    <3> HIDE DEF t
    <3>3. \A i \in 1..1 : t[i] = s[i]
      BY <3>2
    <3>4. t = s
      BY <3>1, <3>2, <3>3, SameSequence
    <3> QED
      BY <3>4 DEF s, t
  <2> QED
    BY <1>1, <2>9, <2>10
<1>3. <<"true">> # <<"false">> /\ <<"true">> # <<"0">> /\ <<"false">> # <<"true">>
      /\ <<"false">> # <<"True">> /\ <<"false">> # <<"1">>
  OBVIOUS
<1>4. CanonicalBoolean(text) = text
  <2>1. CASE text = <<"true">>
    BY <1>2, <1>3, <2>1, Zenon DEF CanonicalBoolean
  <2>2. CASE text = <<"false">>
    BY <1>2, <1>3, <2>2, Zenon DEF CanonicalBoolean
  <2> QED
    BY <2>1, <2>2
<1>5. text[1] = word /\ word # "quote" /\ word # "-" /\ word \notin DOMAIN Digit
      /\ 1 \in DOMAIN text
  BY <1>1, DigitType DEF DigitSet
<1>6. ~IsJsonString(text)
  BY <1>5, Zenon DEF IsJsonString
<1>7. ~IsJsonNumber(text)
  <2>1. ~IsDigits(text)
    BY <1>5, Zenon DEF IsDigits
  <2> QED
    BY <1>5, <2>1, Zenon DEF IsJsonNumber
<1>8. ReadJson(text) = [kind |-> "boolean", text |-> text]
  BY <1>6, <1>7, Zenon DEF ReadJson
<1> QED
  BY <1>4, <1>8

\* A value of JSON is read as what it was meant to be.
LEMMA JsonReads ==
    ASSUME NEW p, p.value \in Seq(Character),
           p.type = "boolean" => p.value \in {<<"true">>, <<"false">>}
    PROVE  ReadJson(JsonValue(p)) = JsonMeant(p)
<1>1. CASE p.type = "number" /\ Number(p.value) # {}
  <2>1. Only(Number(p.value)) \in Int
    <3>1. Only(Number(p.value)) \in Number(p.value)
      BY <1>1 DEF Only
    <3> QED
      BY <3>1, NumberType
  <2>2. CanonicalNumber(p.value) = Numeral(Only(Number(p.value)))
    BY <1>1, Zenon DEF CanonicalNumber
  <2>3. JsonValue(p) = CanonicalNumber(p.value)
    BY <1>1 DEF JsonValue
  <2>4. Canonical(p) = CanonicalNumber(p.value)
    BY <1>1 DEF Canonical, CanonicalValue
  <2>5. ReadJson(JsonValue(p)) = [kind |-> "number", text |-> Canonical(p)]
    BY <2>1, <2>2, <2>3, <2>4, JsonNumberRead
  <2>6. JsonMeant(p) = [kind |-> "number", text |-> Canonical(p)]
    BY <1>1 DEF JsonMeant
  <2> QED
    BY <2>5, <2>6
<1>2. CASE p.type = "number" /\ Number(p.value) = {}
  <2>1. JsonValue(p) = JsonString(p.value)
    BY <1>2 DEF JsonValue
  <2>2. Canonical(p) = p.value
    BY <1>2 DEF Canonical, CanonicalValue, CanonicalNumber
  <2>3. ReadJson(JsonValue(p)) = [kind |-> "string", text |-> p.value]
    BY <2>1, JsonStringRead
  <2>4. JsonMeant(p) = [kind |-> "string", text |-> Canonical(p)]
    BY <1>2 DEF JsonMeant
  <2> QED
    BY <2>2, <2>3, <2>4
<1>3. CASE p.type = "boolean"
  <2>1. JsonValue(p) = CanonicalBoolean(p.value)
    BY <1>3 DEF JsonValue
  <2>2. Canonical(p) = CanonicalBoolean(p.value)
    BY <1>3 DEF Canonical, CanonicalValue
  <2>3. ReadJson(JsonValue(p)) = [kind |-> "boolean", text |-> Canonical(p)]
    BY <1>3, <2>1, <2>2, JsonBooleanRead
  <2>4. JsonMeant(p) = [kind |-> "boolean", text |-> Canonical(p)]
    BY <1>3 DEF JsonMeant
  <2> QED
    BY <2>3, <2>4
<1>4. CASE p.type # "number" /\ p.type # "boolean"
  <2>1. JsonValue(p) = JsonString(Canonical(p))
    BY <1>4 DEF JsonValue
  <2>2. Canonical(p) \in Seq(Character)
    BY CanonicalType
  <2>3. ReadJson(JsonValue(p)) = [kind |-> "string", text |-> Canonical(p)]
    BY <2>1, <2>2, JsonStringRead
  <2>4. JsonMeant(p) = [kind |-> "string", text |-> Canonical(p)]
    BY <1>4 DEF JsonMeant
  <2> QED
    BY <2>3, <2>4
<1> QED
  BY <1>1, <1>2, <1>3, <1>4

-----------------------------------------------------------------------------
(* The members of a JSON body.                                              *)

\* One more parameter adds its place to those of its name, and to no other's.
LEMMA NamedMore ==
    ASSUME NEW params, NEW name, NEW k \in Nat
    PROVE  /\ IsFiniteSet(NamedIn(params, name, k))
           /\ Cardinality(NamedIn(params, name, k)) \in Nat
           /\ params[k + 1].name # name =>
                 NamedIn(params, name, k + 1) = NamedIn(params, name, k)
           /\ params[k + 1].name = name =>
                 /\ NamedIn(params, name, k + 1) = NamedIn(params, name, k) \cup {k + 1}
                 /\ Cardinality(NamedIn(params, name, k + 1))
                      = Cardinality(NamedIn(params, name, k)) + 1
<1> DEFINE old == NamedIn(params, name, k)
<1>1. IsFiniteSet(1..k)
  BY FS_Interval
<1>2. old \in SUBSET (1..k)
  BY DEF NamedIn
<1>3. IsFiniteSet(old)
  BY <1>1, <1>2, FS_Subset
<1>4. Cardinality(old) \in Nat
  BY <1>3, FS_CardinalityType
<1>5. 1..(k + 1) = (1..k) \cup {k + 1}
  OBVIOUS
<1>6. params[k + 1].name # name => NamedIn(params, name, k + 1) = old
  BY <1>5 DEF NamedIn
<1>7. params[k + 1].name = name => NamedIn(params, name, k + 1) = old \cup {k + 1}
  BY <1>5 DEF NamedIn
<1>8. k + 1 \notin old
  BY <1>2
<1> HIDE DEF old
<1>9. Cardinality(old \cup {k + 1}) = Cardinality(old) + 1
  BY <1>3, <1>8, FS_AddElement
<1> QED
  BY <1>3, <1>4, <1>6, <1>7, <1>9 DEF old

\* A sequence with one more at its end.
LEMMA Longer ==
    ASSUME NEW s, IsSequence(s), NEW e
    PROVE  /\ IsSequence(Append(s, e)) /\ Len(s) \in Nat /\ Len(Append(s, e)) = Len(s) + 1
           /\ DOMAIN s = 1..Len(s) /\ DOMAIN Append(s, e) = 1..(Len(s) + 1)
           /\ \A i \in 1..Len(s) : Append(s, e)[i] = s[i]
           /\ Append(s, e)[Len(s) + 1] = e
<1>1. PICK S : s \in Seq(S)
  BY DEF IsSequence
<1>2. s \in Seq(S \cup {e}) /\ e \in S \cup {e}
  BY <1>1
<1>3. Append(s, e) \in Seq(S \cup {e})
  BY <1>2
<1>4. IsSequence(Append(s, e))
  BY <1>3 DEF IsSequence
<1> QED
  BY <1>2, <1>3, <1>4

\* One more parameter adds its value to those of its name.
LEMMA ValuesMore ==
    ASSUME NEW params, NEW name, NEW k \in Nat, NEW values, ValuesBy(values, params, name, k)
    PROVE  ValuesBy(Gathers(name, values, params[k + 1]), params, name, k + 1)
<1> DEFINE V(i) == NamedIn(params, name, i)
           place(i) == Cardinality(NamedIn(params, name, i))
           p == params[k + 1]
           e == JsonValue(p)
           longer == Append(values, e)
           n == Len(values)
<1>1. CASE p.name # name
  <2>1. Gathers(name, values, p) = values
    BY <1>1 DEF Gathers
  <2>2. V(k + 1) = V(k)
    BY <1>1, NamedMore
  <2> QED
    BY <2>1, <2>2 DEF ValuesBy
<1>2. CASE p.name = name
  <2>1. Gathers(name, values, p) = longer
    BY <1>2, Zenon DEF Gathers
  <2>2. V(k + 1) = V(k) \cup {k + 1} /\ place(k + 1) = place(k) + 1
    BY <1>2, NamedMore
  <2>3. /\ IsSequence(values) /\ n = place(k)
        /\ \A i \in V(k) : place(i) \in 1..n /\ values[place(i)] = JsonValue(params[i])
    BY DEF ValuesBy
  <2> HIDE DEF V, place, e
  <2>4. /\ IsSequence(longer) /\ n \in Nat /\ Len(longer) = n + 1
        /\ \A i \in 1..n : longer[i] = values[i]
        /\ longer[n + 1] = e
    BY <2>3, Longer
  <2> HIDE DEF longer, n
  <2>5. Len(longer) = place(k + 1)
    BY <2>2, <2>3, <2>4
  <2>6. ASSUME NEW i \in V(k + 1)
        PROVE  place(i) \in 1..Len(longer) /\ longer[place(i)] = JsonValue(params[i])
    <3>1. CASE i = k + 1
      BY <2>2, <2>3, <2>4, <3>1 DEF e
    <3>2. CASE i \in V(k)
      <4>1. place(i) \in 1..n /\ values[place(i)] = JsonValue(params[i])
        BY <2>3, <3>2
      <4> QED
        BY <2>4, <4>1
    <3> QED
      BY <2>2, <3>1, <3>2
  <2>7. ValuesBy(longer, params, name, k + 1)
    BY <2>4, <2>5, <2>6 DEF ValuesBy, V, place
  <2> QED
    BY <2>1, <2>7
<1> QED
  BY <1>1, <1>2

\* A member has all the values of its name, each at its place.
LEMMA ValuesAll ==
    ASSUME NEW params, IsList(params), NEW name
    PROVE  ValuesBy(Member(params, name).values, params, name, Len(params))
<1> DEFINE n == Len(params)
<1>1. n \in Nat
  BY DEF IsList
<1>2. PICK stage : ValueStages(stage, name, params) /\ GatheredOf(params, name) = stage[n]
  BY ValuesFold, Zenon
<1>3. /\ stage[0] = << >>
      /\ \A k \in 0..(n - 1) : stage[k + 1] = Gathers(name, stage[k], params[k + 1])
  BY <1>2 DEF ValueStages
<1>4. Member(params, name).values = GatheredOf(params, name)
  BY DEF Member, GatheredOf
<1> DEFINE good == {k \in Nat : k <= n => ValuesBy(stage[k], params, name, k)}
<1> HIDE DEF n
<1>5. 0 \in good
  <2>1. NamedIn(params, name, 0) = {}
    BY DEF NamedIn
  <2>2. Cardinality({}) = 0
    BY FS_EmptySet
  <2>3. Len(<< >>) = 0 /\ IsSequence(<< >>)
    BY DEF IsSequence
  <2>4. ValuesBy(<< >>, params, name, 0)
    BY <2>1, <2>2, <2>3 DEF ValuesBy
  <2> QED
    BY <1>3, <2>4
<1>6. ASSUME NEW k \in good PROVE k + 1 \in good
  <2> SUFFICES ASSUME k + 1 <= n PROVE ValuesBy(stage[k + 1], params, name, k + 1)
    OBVIOUS
  <2>1. k \in Nat /\ k \in 0..(n - 1) /\ k <= n
    BY <1>1
  <2>2. ValuesBy(stage[k], params, name, k)
    BY <2>1
  <2>3. stage[k + 1] = Gathers(name, stage[k], params[k + 1])
    BY <1>3, <2>1
  <2> QED
    BY <2>1, <2>2, <2>3, ValuesMore
<1> HIDE DEF good
<1>7. good = Nat
  <2>1. good \in SUBSET Nat
    BY DEF good
  <2> QED
    BY <1>5, <1>6, <2>1, SetInduction
<1>8. ValuesBy(stage[n], params, name, n)
  BY <1>1, <1>7 DEF good
<1> QED
  BY <1>2, <1>4, <1>8 DEF n

\* What is to be shown of the members.
LEMMA MembersShown ==
    ASSUME NEW params, NEW k, NEW members, IsSequence(members),
           \A m \in 1..Len(members) : /\ members[m] = Member(params, members[m].name)
                                     /\ \E i \in 1..k : params[i].name = members[m].name,
           \A i \in 1..k : \E m \in 1..Len(members) : members[m].name = params[i].name,
           \A m \in 1..Len(members) : \A l \in 1..(m - 1) : \E i \in 1..k :
              /\ params[i].name = members[l].name
              /\ \A j \in 1..Len(params) : params[j].name = members[m].name => i < j
    PROVE  MembersBy(members, params, k)
BY Zenon DEF MembersBy

\* One more parameter adds a member if its name is new.
LEMMA MembersMore ==
    ASSUME NEW params, Len(params) \in Nat, NEW k \in Nat, NEW members,
           MembersBy(members, params, k)
    PROVE  MembersBy(Emitted(params, members, params[k + 1]), params, k + 1)
<1> DEFINE p == params[k + 1]
           e == Member(params, p.name)
           n == Len(members)
           longer == Append(members, e)
           known == \E m \in DOMAIN members : members[m].name = p.name
<1>1. /\ IsSequence(longer) /\ n \in Nat /\ Len(longer) = n + 1 /\ DOMAIN members = 1..n
      /\ \A m \in 1..n : longer[m] = members[m]
      /\ longer[n + 1] = e /\ IsSequence(members)
  BY Longer DEF MembersBy
<1>2. /\ \A m \in 1..n : /\ members[m] = Member(params, members[m].name)
                         /\ \E i \in 1..k : params[i].name = members[m].name
      /\ \A i \in 1..k : \E m \in 1..n : members[m].name = params[i].name
      /\ \A m \in 1..n : \A l \in 1..(m - 1) : \E i \in 1..k :
            /\ params[i].name = members[l].name
            /\ \A j \in 1..Len(params) : params[j].name = members[m].name => i < j
  BY DEF MembersBy
<1>3. Emitted(params, members, p) = IF known THEN members ELSE longer
  BY Zenon DEF Emitted
<1>4. e.name = p.name
  BY DEF Member
<1>5. \A i \in 1..(k + 1) : i = k + 1 \/ i \in 1..k
  OBVIOUS
<1>6. 1..k \subseteq 1..(k + 1) /\ k + 1 \in 1..(k + 1)
  OBVIOUS
<1> HIDE DEF e, n, longer
<1>7. CASE known
  <2>1. Emitted(params, members, p) = members
    BY <1>3, <1>7
  <2>2. \A i \in 1..(k + 1) : \E m \in 1..n : members[m].name = params[i].name
    BY <1>1, <1>2, <1>5, <1>7
  <2>3. \A m \in 1..n : /\ members[m] = Member(params, members[m].name)
                        /\ \E i \in 1..(k + 1) : params[i].name = members[m].name
    BY <1>2, <1>6
  <2>4. \A m \in 1..n : \A l \in 1..(m - 1) : \E i \in 1..(k + 1) :
            /\ params[i].name = members[l].name
            /\ \A j \in 1..Len(params) : params[j].name = members[m].name => i < j
    BY <1>2, <1>6, Zenon
  <2> HIDE DEF known, p
  <2>5. MembersBy(members, params, k + 1)
    <3> USE DEF n
    <3>1. \A i \in 1..(k + 1) : \E m \in 1..Len(members) : members[m].name = params[i].name
      BY <2>2
    <3>2. \A m \in 1..Len(members) : /\ members[m] = Member(params, members[m].name)
                                     /\ \E i \in 1..(k + 1) : params[i].name = members[m].name
      BY <2>3
    <3>3. \A m \in 1..Len(members) : \A l \in 1..(m - 1) : \E i \in 1..(k + 1) :
            /\ params[i].name = members[l].name
            /\ \A j \in 1..Len(params) : params[j].name = members[m].name => i < j
      BY <2>4
    <3>4. IsSequence(members)
      BY <1>1
    <3> QED
      BY <3>1, <3>2, <3>3, <3>4, MembersShown
  <2> QED
    BY <2>1, <2>5 DEF p
<1>8. CASE ~known
  <2>1. Emitted(params, members, p) = longer
    BY <1>3, <1>8
  <2>2. ASSUME NEW j \in 1..Len(params), params[j].name = p.name PROVE j > k
    <3>1. ASSUME j \in 1..k PROVE FALSE
      <4>1. PICK m \in 1..n : members[m].name = params[j].name
        BY <1>2, <3>1
      <4>2. known
        BY <1>1, <2>2, <4>1
      <4> QED
        BY <1>8, <4>2
    <3>2. j \notin 1..k
      BY <3>1
    <3> QED
      BY <3>2
  <2> HIDE DEF known
  <2>3. \A m \in 1..(n + 1) : m = n + 1 \/ m \in 1..n
    BY <1>1
  <2>4. ASSUME NEW m \in 1..(n + 1)
        PROVE  /\ longer[m] = Member(params, longer[m].name)
               /\ \E i \in 1..(k + 1) : params[i].name = longer[m].name
    <3>1. CASE m = n + 1
      BY <1>1, <1>4, <1>6, <3>1 DEF e
    <3>2. CASE m \in 1..n
      <4>1. longer[m] = members[m]
        BY <1>1, <3>2
      <4> QED
        BY <1>2, <1>6, <3>2, <4>1
    <3> QED
      BY <2>3, <3>1, <3>2
  <2>5. ASSUME NEW i \in 1..(k + 1)
        PROVE  \E m \in 1..(n + 1) : longer[m].name = params[i].name
    <3>1. CASE i = k + 1
      <4>1. longer[n + 1].name = params[i].name /\ n + 1 \in 1..(n + 1)
        BY <1>1, <1>4, <3>1
      <4> QED
        BY <4>1
    <3>2. CASE i \in 1..k
      <4>1. PICK m \in 1..n : members[m].name = params[i].name
        BY <1>2, <3>2
      <4>2. longer[m] = members[m] /\ m \in 1..(n + 1)
        BY <1>1
      <4> QED
        BY <4>1, <4>2
    <3> QED
      BY <1>5, <3>1, <3>2
  <2>6. ASSUME NEW m \in 1..(n + 1), NEW l \in 1..(m - 1)
        PROVE  \E i \in 1..(k + 1) :
                  /\ params[i].name = longer[l].name
                  /\ \A j \in 1..Len(params) : params[j].name = longer[m].name => i < j
    <3>1. l \in 1..n /\ longer[l] = members[l]
      BY <1>1
    <3>2. CASE m = n + 1
      <4>1. PICK i \in 1..k : params[i].name = members[l].name
        BY <1>2, <3>1
      <4>2. longer[m].name = p.name
        BY <1>1, <1>4, <3>2
      <4>3. \A j \in 1..Len(params) : params[j].name = longer[m].name => i < j
        <5> TAKE j \in 1..Len(params)
        <5>1. params[j].name = p.name => j > k
          BY <2>2
        <5> QED
          BY <4>2, <5>1
      <4> QED
        BY <1>6, <3>1, <4>1, <4>3
    <3>3. CASE m \in 1..n
      <4>1. longer[m] = members[m]
        BY <1>1, <3>3
      <4>2. PICK i \in 1..k :
               /\ params[i].name = members[l].name
               /\ \A j \in 1..Len(params) : params[j].name = members[m].name => i < j
        BY <1>2, <3>3
      <4> QED
        BY <1>6, <3>1, <4>1, <4>2, Zenon
    <3> QED
      BY <2>3, <3>2, <3>3
  <2>7. Len(longer) = n + 1 /\ IsSequence(longer)
    BY <1>1
  <2>8. MembersBy(longer, params, k + 1)
    <3> HIDE DEF p
    <3> QED
      BY <2>4, <2>5, <2>6, <2>7, Zenon DEF MembersBy
  <2> QED
    BY <2>1, <2>8
<1> QED
  BY <1>7, <1>8

\* The members of a body are those of all its parameters.
LEMMA MembersAll ==
    ASSUME NEW params, IsList(params)
    PROVE  MembersBy(EncodeJson(params), params, Len(params))
<1> DEFINE n == Len(params)
<1>1. n \in Nat
  BY DEF IsList
<1>2. PICK stage : MemberStages(stage, params) /\ EncodeJson(params) = stage[n]
  BY MembersFold, Zenon
<1>3. /\ stage[0] = << >>
      /\ \A k \in 0..(n - 1) : stage[k + 1] = Emitted(params, stage[k], params[k + 1])
  BY <1>2 DEF MemberStages
<1> DEFINE good == {k \in Nat : k <= n => MembersBy(stage[k], params, k)}
<1>4. 0 \in good
  <2>1. Len(<< >>) = 0 /\ IsSequence(<< >>)
    BY DEF IsSequence
  <2>2. 1..0 = {}
    OBVIOUS
  <2>3. MembersBy(<< >>, params, 0)
    BY <2>1, <2>2 DEF MembersBy
  <2> QED
    BY <1>3, <2>3
<1>5. ASSUME NEW k \in good PROVE k + 1 \in good
  <2> SUFFICES ASSUME k + 1 <= n PROVE MembersBy(stage[k + 1], params, k + 1)
    OBVIOUS
  <2>1. k \in Nat /\ k \in 0..(n - 1) /\ k <= n
    BY <1>1
  <2>2. MembersBy(stage[k], params, k)
    BY <2>1
  <2>3. stage[k + 1] = Emitted(params, stage[k], params[k + 1])
    BY <1>3, <2>1
  <2> QED
    BY <1>1, <2>1, <2>2, <2>3, MembersMore
<1> HIDE DEF good
<1>6. good = Nat
  <2>1. good \in SUBSET Nat
    BY DEF good
  <2> QED
    BY <1>4, <1>5, <2>1, SetInduction
<1>7. MembersBy(stage[n], params, n)
  BY <1>1, <1>6 DEF good
<1> QED
  BY <1>2, <1>7

\* A call that sets a parameter sets it to a text.
LEMMA TextType ==
    ASSUME NEW c, c.op \in SetterOps, Speaks(c)
    PROVE  TextOf(c) \in Seq(Character)
<1>1. CASE c.op = "param_i64"
  BY <1>1, NumeralType DEF TextOf, Speaks
<1>2. CASE c.op = "param_bool"
  <2>1. <<"true">> \in Seq(Character) /\ <<"false">> \in Seq(Character)
    BY CharacterHas
  <2>2. TextOf(c) = IF c.b THEN <<"true">> ELSE <<"false">>
    BY <1>2 DEF TextOf
  <2> QED
    BY <2>1, <2>2
<1>3. CASE c.op = "param_f64"
  BY <1>3, CanonicalNumberType DEF TextOf, Speaks
<1>4. CASE c.op = "param"
  BY <1>4 DEF TextOf, Speaks
<1> QED
  BY <1>1, <1>2, <1>3, <1>4 DEF SetterOps

\* What is meant for a parameter is a text.
LEMMA MeantType ==
    ASSUME NEW def, def.default \subseteq Seq(Character),
           NEW calls, \A k \in DOMAIN calls : Speaks(calls[k])
    PROVE  Meant(def, calls) \subseteq Seq(Character)
<1> DEFINE given == {k \in DOMAIN calls : Sets(calls[k], def.name)}
           last == {k \in given : \A later \in given : later <= k}
<1>1. Meant(def, calls) = IF given = {} THEN def.default ELSE {Trim(TextOf(calls[k])) : k \in last}
  BY Zenon DEF Meant
<1>2. ASSUME NEW k \in last PROVE Trim(TextOf(calls[k])) \in Seq(Character)
  <2>1. calls[k].op \in SetterOps /\ Speaks(calls[k])
    BY DEF Sets, SetterOps
  <2> QED
    BY <2>1, TextType, TrimType
<1> HIDE DEF given, last
<1> QED
  BY <1>1, <1>2

\* A JSON body is read as what was sent.
LEMMA JsonReadBack ==
    ASSUME NEW defs, NEW values, IsList(values), \A i \in DOMAIN values : Readable(values[i]),
           Booleans(defs, values)
    PROVE  ReadFairly(defs, "json", values, EncodeJson(values))
<1> DEFINE n == Len(values)
           body == EncodeJson(values)
           named(name) == {i \in DOMAIN values : values[i].name = name}
           place(i) == Cardinality({j \in named(values[i].name) : j <= i})
           N(name, k) == NamedIn(values, name, k)
           Right(i, token) == OwnNames(defs) \/ values[i].type # "boolean" =>
                                  ReadJson(token) = JsonMeant(values[i])
<1>1. n \in Nat /\ DOMAIN values = 1..n
  BY DEF IsList
<1>2. \A name : named(name) = N(name, n)
  BY <1>1 DEF NamedIn
<1>3. ASSUME NEW i \in 1..n
      PROVE  place(i) = Cardinality(N(values[i].name, i))
  <2>1. \A j : j \in 1..n /\ j <= i <=> j \in 1..i
    BY <1>1
  <2>2. {j \in named(values[i].name) : j <= i} = N(values[i].name, i)
    BY <1>1, <2>1 DEF NamedIn
  <2> QED
    BY <2>2, Zenon
<1>4. MembersBy(body, values, n)
  BY MembersAll
<1> HIDE DEF body, n
<1>5. /\ IsSequence(body)
      /\ \A m \in 1..Len(body) : /\ body[m] = Member(values, body[m].name)
                                /\ \E i \in 1..n : values[i].name = body[m].name
      /\ \A i \in 1..n : \E m \in 1..Len(body) : body[m].name = values[i].name
      /\ \A m \in 1..Len(body) : \A l \in 1..(m - 1) : \E i \in 1..n :
            /\ values[i].name = body[l].name
            /\ \A j \in 1..n : values[j].name = body[m].name => i < j
  BY <1>4 DEF MembersBy, n
<1>6. DOMAIN body = 1..Len(body) /\ Len(body) \in Nat
  BY <1>5 DEF IsSequence
<1>7. ASSUME NEW k \in DOMAIN body
      PROVE  LET count == Cardinality(named(body[k].name))
             IN  /\ ReadJson(body[k].key) = [kind |-> "string", text |-> <<body[k].name>>]
                 /\ Len(body[k].values) = count /\ (body[k].array <=> count > 1)
                 /\ \A i \in named(body[k].name) : Right(i, body[k].values[place(i)])
  <2> DEFINE name == body[k].name
             held == body[k].values
  <2>1. body[k] = Member(values, name)
    BY <1>5, <1>6
  <2>2. ValuesBy(Member(values, name).values, values, name, n)
    BY ValuesAll DEF n
  <2>3. held = Member(values, name).values
    BY <2>1
  <2>4. body[k].array <=> Len(held) > 1
    <3>1. Member(values, name).array <=> Len(Member(values, name).values) > 1
      BY DEF Member
    <3> QED
      BY <2>1, <3>1
  <2> HIDE DEF name, held
  <2>5. /\ Len(held) = Cardinality(N(name, n))
        /\ \A i \in N(name, n) : held[Cardinality(N(name, i))] = JsonValue(values[i])
    BY <2>2, <2>3 DEF ValuesBy
  <2>6. ASSUME NEW i \in named(name) PROVE Right(i, held[place(i)])
    <3>1. i \in 1..n /\ values[i].name = name /\ i \in N(name, n)
      BY <1>1, <1>2
    <3>2. place(i) = Cardinality(N(name, i))
      BY <1>3, <3>1
    <3>3. held[place(i)] = JsonValue(values[i])
      BY <2>5, <3>1, <3>2
    <3>4. values[i].value \in Seq(Character)
      BY <1>1, <3>1 DEF Readable
    <3> SUFFICES ASSUME OwnNames(defs) \/ values[i].type # "boolean"
                 PROVE  ReadJson(held[place(i)]) = JsonMeant(values[i])
      OBVIOUS
    <3>5. values[i].type = "boolean" => values[i].value \in {<<"true">>, <<"false">>}
      BY <1>1, <3>1 DEF Booleans
    <3> QED
      BY <3>3, <3>4, <3>5, JsonReads
  <2>7. named(name) = N(name, n)
    BY <1>2
  <2>8. ReadJson(body[k].key) = [kind |-> "string", text |-> <<name>>]
    <3>1. body[k].key = JsonString(<<name>>)
      <4>1. Member(values, name).key = JsonString(<<name>>)
        BY Zenon DEF Member
      <4> QED
        BY <2>1, <4>1
    <3>2. PICK i \in 1..n : values[i].name = name
      BY <1>5, <1>6 DEF name
    <3>3. name \in Character
      BY <1>1, <3>2 DEF Readable
    <3>4. <<name>> \in Seq(Character)
      BY <3>3
    <3> QED
      BY <3>1, <3>4, JsonStringRead
  <2> HIDE DEF place, named, N, Right
  <2>9. /\ ReadJson(body[k].key) = [kind |-> "string", text |-> <<name>>]
        /\ Len(held) = Cardinality(named(name)) /\ (body[k].array <=> Cardinality(named(name)) > 1)
        /\ \A i \in named(name) : Right(i, held[place(i)])
    BY <2>4, <2>5, <2>6, <2>7, <2>8
  <2> QED
    BY <2>9, Zenon DEF held, name
<1>8. \A i \in DOMAIN values : \E k \in DOMAIN body : body[k].name = values[i].name
  BY <1>1, <1>5, <1>6
<1>9. ASSUME NEW k \in DOMAIN body, NEW l \in 1..(k - 1)
      PROVE  \E i \in named(body[l].name) : \A j \in named(body[k].name) : i < j
  <2>1. PICK i \in 1..n : /\ values[i].name = body[l].name
                          /\ \A j \in 1..n : values[j].name = body[k].name => i < j
    BY <1>5, <1>6
  <2>2. i \in named(body[l].name)
    BY <1>1, <2>1
  <2>3. \A j \in named(body[k].name) : i < j
    BY <1>1, <2>1
  <2> QED
    BY <2>2, <2>3
<1> HIDE DEF named, place, Right
<1>10. /\ \A i \in DOMAIN values : \E k \in DOMAIN body : body[k].name = values[i].name
       /\ \A k \in DOMAIN body :
             LET count == Cardinality(named(body[k].name))
             IN  /\ ReadJson(body[k].key) = [kind |-> "string", text |-> <<body[k].name>>]
                 /\ Len(body[k].values) = count /\ (body[k].array <=> count > 1)
                 /\ \A i \in named(body[k].name) : Right(i, body[k].values[place(i)])
       /\ \A k \in DOMAIN body : \A l \in 1..(k - 1) :
             \E i \in named(body[l].name) : \A j \in named(body[k].name) : i < j
  BY <1>7, <1>8, <1>9, Zenon
<1> QED
  BY <1>10, Zenon DEF ReadFairly, body, named, place, Right

\* Each body is read as what was sent.
LEMMA BodyReadBack ==
    ASSUME NEW defs, NEW values, IsList(values), \A i \in DOMAIN values : Readable(values[i]),
           Booleans(defs, values), NEW type
    PROVE  ReadFairly(defs, type, values, EncodeBody(type, values))
<1> DEFINE body == EncodeBody(type, values)
<1>1. CASE type = "json"
  <2>1. body = EncodeJson(values)
    BY <1>1 DEF EncodeBody
  <2>2. ReadFairly(defs, "json", values, EncodeJson(values))
    BY JsonReadBack
  <2> QED
    BY <1>1, <2>1, <2>2
<1>2. CASE type = "multipart"
  <2>1. body = EncodeMultipart(values)
    BY <1>2 DEF EncodeBody
  <2>2. (\A i \in DOMAIN values : values[i].name \notin {"quote", "crlf"}) =>
            DecodeMultipart(body) = [i \in DOMAIN values |-> PartRead(values[i])]
    BY <2>1, MultipartReadBack DEF PlainName
  <2> HIDE DEF body
  <2>3. (\A i \in DOMAIN values : values[i].name \notin {"quote", "crlf"}) =>
            DecodeMultipart(body)
              = [i \in DOMAIN values |-> [name |-> <<values[i].name>>, value |-> Canonical(values[i])]]
    BY <2>2, Zenon DEF PartRead
  <2> QED
    BY <1>2, <2>3 DEF ReadFairly, body
<1>3. CASE type # "json" /\ type # "multipart"
  <2>1. body = EncodeUrlencoded(values)
    BY <1>3 DEF EncodeBody
  <2>2. DecodeUrlencoded(body) = [i \in DOMAIN values |-> ReadBack(values[i])]
    BY <2>1, UrlencodedReadBack
  <2> HIDE DEF body
  <2>3. DecodeUrlencoded(body)
          = [i \in DOMAIN values |-> [name |-> BytesOf(<<values[i].name>>),
                                      bytes |-> BytesOf(Canonical(values[i]))]]
    BY <2>2, Zenon DEF ReadBack
  <2> QED
    BY <1>3, <2>3 DEF ReadFairly, body
<1> QED
  BY <1>1, <1>2, <1>3

\* What is collected has the names of the definitions, and texts as values.
LEMMA CollectedReadable ==
    ASSUME NEW defs, IsList(defs), NEW calls, IsList(calls), NEW params,
           Carries(params, calls, Len(calls)),
           \A k \in DOMAIN calls : Speaks(calls[k]),
           \A i \in DOMAIN defs :
              defs[i].name \in Character /\ defs[i].default \subseteq Seq(Character)
    PROVE  /\ IsList(CollectParams(defs, params))
           /\ \A v \in DOMAIN CollectParams(defs, params) :
                 /\ Readable(CollectParams(defs, params)[v])
                 /\ MeantBy(CollectParams(defs, params)[v], defs, calls)
<1> DEFINE values == CollectParams(defs, params)
           due == DueOf(defs, calls)
           place(i) == PlaceOf(defs, calls, i)
<1>1. \A i \in DOMAIN defs : ValueOf(params, defs[i]) = Meant(defs[i], calls)
  BY MeantIs
<1>2. ValuesAsMeant(values, defs, calls)
  BY <1>1, CollectedAsMeant
<1> HIDE DEF values
<1>3. /\ DOMAIN values = 1..Len(values) /\ Len(values) \in Nat
      /\ \A i \in due : /\ values[place(i)].name = defs[i].name
                        /\ values[place(i)].value = Only(Meant(defs[i], calls))
                        /\ values[place(i)].type = defs[i].type
      /\ \A v \in DOMAIN values : \E i \in due : v = place(i)
  BY <1>2, Zenon DEF ValuesAsMeant
<1> HIDE DEF place
<1>4. ASSUME NEW v \in DOMAIN values PROVE Readable(values[v]) /\ MeantBy(values[v], defs, calls)
  <2>1. PICK i \in due : v = place(i)
    BY <1>3
  <2>2. i \in DOMAIN defs /\ Meant(defs[i], calls) # {}
    BY DEF DueOf
  <2>3. Only(Meant(defs[i], calls)) \in Meant(defs[i], calls)
    BY <2>2 DEF Only
  <2>4. Meant(defs[i], calls) \subseteq Seq(Character)
    BY <2>2, MeantType
  <2>5. values[v].name = defs[i].name /\ values[v].value = Only(Meant(defs[i], calls))
        /\ values[v].type = defs[i].type
    BY <1>3, <2>1
  <2>6. Readable(values[v])
    BY <2>2, <2>3, <2>4, <2>5 DEF Readable
  <2> HIDE DEF due
  <2>7. MeantBy(values[v], defs, calls)
    BY <2>1, <2>5, Zenon DEF MeantBy, due
  <2> QED
    BY <2>6, <2>7
<1> QED
  BY <1>3, <1>4, Zenon DEF values, IsList

\* A boolean that is admitted is one.
LEMMA BooleansAdmitted ==
    ASSUME NEW defs, NEW calls, NEW values, SentFairly(defs, calls, values),
           \A v \in DOMAIN values : MeantBy(values[v], defs, calls)
    PROVE  Booleans(defs, values)
<1> SUFFICES ASSUME NEW v \in DOMAIN values, OwnNames(defs), values[v].type = "boolean"
             PROVE  values[v].value \in {<<"true">>, <<"false">>}
  BY DEF Booleans
<1>1. PICK i \in DueOf(defs, calls) : /\ values[v].value = Only(Meant(defs[i], calls))
                                      /\ values[v].type = defs[i].type
  BY DEF MeantBy
<1>2. i \in DOMAIN defs /\ Meant(defs[i], calls) # {}
  BY DEF DueOf
<1>3. Acceptable(defs[i], Only(Meant(defs[i], calls)))
  BY <1>2, Zenon DEF SentFairly
<1>4. TypeHolds(values[v].value, "boolean")
  BY <1>1, <1>3, Zenon DEF Acceptable
<1> QED
  BY <1>4 DEF TypeHolds

\* Whatever was set, the service that reads the body of the request finds the values that
\* were collected: an urlencoded body is split into them and nothing else, byte for byte,
\* and a multipart one whose names do not end their headers; a JSON body has each name
\* once, at its first place, with all its values in order, each of its kind and escaped as
\* it must be, the booleans if the definitions have names of their own.
THEOREM BodiesReadBack == Spec => []BodiesDecode
<1>1. Answered /\ SentAsMeant => BodiesDecode
  <2> SUFFICES ASSUME Answered, SentAsMeant, Returned("request"), result.outcome = "sent"
               PROVE  BodiesDecode
    BY DEF BodiesDecode, Sent
  <2> DEFINE actions == call.actions
             id == call.id
             calls == call.calls
             action == Only(FindAction(actions, id))
             b == Build(actions, id, calls)
  <2>1. /\ IsList(actions) /\ IsList(calls)
        /\ \A k \in DOMAIN calls : calls[k].op \in RequestOps /\ Speaks(calls[k])
        /\ \A a \in DOMAIN actions :
              /\ IsList(actions[a].params)
              /\ \A i \in DOMAIN actions[a].params :
                    /\ actions[a].params[i].name \in Character
                    /\ actions[a].params[i].default \subseteq Seq(Character)
    BY RequestAssumption DEF Answered, Returned, RequestOps, SetterOps, Speaks
  <2>2. result = IF b.outcome = "building" THEN Execute(b) ELSE b
    BY Zenon DEF Answered, Request
  <2>3. \/ Stopped(b)
        \/ /\ FindAction(actions, id) # {}
           /\ \E params, consent : /\ b = Building(action, params, consent)
                                   /\ Carries(params, calls, Len(calls))
    BY <2>1, RequestBuilt
  <2> HIDE DEF b
  <2>4. ~Stopped(b)
    BY <2>2 DEF Stopped
  <2>5. PICK params, consent : /\ b = Building(action, params, consent)
                               /\ Carries(params, calls, Len(calls))
    BY <2>3, <2>4
  <2>6. action = RequestedAction /\ \E a \in DOMAIN actions : action = actions[a]
    <3>1. RequestedAction = FirstAction(actions, id)
      BY Zenon DEF RequestedAction, FirstAction
    <3>2. FindAction(actions, id) # {}
      BY <2>3, <2>4
    <3> HIDE DEF actions
    <3> QED
      BY <2>1, <3>1, <3>2, ActionFound
  <2>7. SentFairly(RequestedAction.params, calls, result.values)
    BY Zenon DEF SentAsMeant, SentFairly, Sent
  <2> HIDE DEF action, actions
  <2> DEFINE defs == action.params
             values == CollectParams(defs, params)
             made == Building(action, params, consent)
             verdict == ValidateParams(defs, values)
  <2>8. result = Execute(made)
    BY <2>2, <2>5 DEF Building
  <2>9. made.action = action /\ made.params = params
    BY DEF Building
  <2> HIDE DEF made
  <2>10. Execute(made)
          = CASE MissingParams(made) # {} ->
                   Rejected(defs[Min(MissingParams(made))].name, "required")
              [] MissingParams(made) = {} /\ verdict.constraint # "ok" ->
                   Rejected(verdict.param, verdict.constraint)
              [] OTHER -> [outcome |-> "sent", values |-> values,
                           body |-> EncodeBody(action.enctype, values)]
    BY <2>9, Zenon DEF Execute
  <2> HIDE DEF values, verdict
  <2>11. result = [outcome |-> "sent", values |-> values, body |-> EncodeBody(action.enctype, values)]
    BY <2>8, <2>10 DEF Rejected
  <2>12. result.values = values /\ result.body = EncodeBody(RequestedAction.enctype, values)
    BY <2>6, <2>11
  <2>13. /\ IsList(defs)
         /\ \A i \in DOMAIN defs :
               defs[i].name \in Character /\ defs[i].default \subseteq Seq(Character)
    BY <2>1, <2>6
  <2>14. /\ IsList(values)
         /\ \A v \in DOMAIN values : Readable(values[v]) /\ MeantBy(values[v], defs, calls)
    BY <2>1, <2>5, <2>13, CollectedReadable DEF values
  <2>15. Booleans(defs, values)
    BY <2>6, <2>7, <2>12, <2>14, BooleansAdmitted
  <2>16. ReadFairly(defs, RequestedAction.enctype, result.values, result.body)
    BY <2>12, <2>14, <2>15, BodyReadBack
  <2>17. ReadFairly(RequestedAction.params, RequestedAction.enctype, result.values, result.body)
    BY <2>6, <2>16
  <2> QED
    BY <2>17, Zenon DEF BodiesDecode, ReadFairly
<1> QED
  BY <1>1, AnsweredAlways, RequestsAsMeant, PTL
=============================================================================
