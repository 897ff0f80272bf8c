------------------------------ MODULE Inet46 ------------------------------
(***************************************************************************)
(* Addresses as the library inet46i keeps them.  An IPv4 address is a word, *)
(* an IPv6 address four words, in network order, the first word first; a   *)
(* word has Bits bits instead of 32, and the constants keep their shares   *)
(* of it.  A socket address is a family and a host, its words; ports play   *)
(* no part.                                                                *)
(* A text is the address it spells.                                        *)
(***************************************************************************)
EXTENDS Integers, Sequences

CONSTANT Bits     \* bits of a word, 32 in the code

ASSUME BitsAssumption == Bits \in Nat /\ Bits % 4 = 0 /\ Bits > 4

Pow2(n) == 2 ^ n
Mapped == Pow2(Bits \div 2) - 1               \* 0xffff

In(word) == [family |-> "INET", host |-> <<word>>]
In6(host) == [family |-> "INET6", host |-> host]

Any6 == <<0, 0, 0, 0>>
Loopback6 == <<0, 0, 0, 1>>
INADDR_LOOPBACK == (Pow2(Bits \div 4 - 1) - 1) * Pow2(Bits - Bits \div 4) + 1

\* IN6_SET_ADDR_V4MAPPED
SetV4Mapped(a) == <<0, 0, Mapped, a[4]>>
V4Mapped(word) == <<0, 0, Mapped, word>>
IsV4Mapped(a) == SubSeq(a, 1, 3) = <<0, 0, Mapped>>

\* IN6_IS_ADDR_V4OK
V4OK(a) == a[1] = 0 /\ a[2] = 0 /\ a[3] \in {0, Mapped}

in46_is_addr_unspecified(addr) == addr.host \in {<<0>>, Any6}

\* in64_set; inet_aton64 stores a text in the same way.
in64_set(addr) == IF addr.family = "INET" THEN V4Mapped(addr.host[1]) ELSE addr.host

\* in64_get
in64_get(family, a) == IF family = "INET" THEN In(a[4]) ELSE In6(a)

sockaddr_to6(addr) == In6(in64_set(addr))

\* sockaddr_to4, as a set: none if the address cannot be converted.
sockaddr_to4(addr) ==
    IF addr.family = "INET" THEN {addr}
    ELSE {In(w) : w \in {w \in {addr.host[4]} : IsV4Mapped(addr.host)}}

\* sockaddr_same, between addresses of one family: both are what one socket
\* sends to and receives from.
sockaddr_same(a, b) == a.host = b.host

---------------------------------------------------------------------------
(* route.h.  A prefix of -1 stands for all bits. *)

\* The bits of a word that inet_tomask(prefix) hides.
HostBits(word, prefix) == IF prefix < 0 THEN 0 ELSE word % Pow2(Bits - prefix)
Masked(word, prefix) == word - HostBits(word, prefix)

inet_isnetwork4(network, prefix) == HostBits(network, prefix) = 0

inet_innetwork4(addr, network, prefix) ==
    prefix = 0 \/ Masked(addr, prefix) = Masked(network, prefix)

\* Whole words and the bits of one more.
Whole(prefix) == IF prefix < 0 THEN 4 ELSE prefix \div Bits
Rest(prefix) == IF prefix < 0 THEN 0 ELSE prefix % Bits
Used(prefix) == Whole(prefix) + (IF Rest(prefix) = 0 THEN 0 ELSE 1)

\* (mutant: the word with the rest is a host word too)
isnetwork6Whole(network, prefix) ==
    /\ \A i \in Whole(prefix) + 1 .. 4 : network[i] = 0
    /\ Rest(prefix) = 0 \/ inet_isnetwork4(network[Whole(prefix) + 1], Rest(prefix))

inet_isnetwork6(network, prefix) ==
    /\ \A i \in Used(prefix) + 1 .. 4 : network[i] = 0
    /\ Rest(prefix) = 0 \/ inet_isnetwork4(network[Whole(prefix) + 1], Rest(prefix))

\* The same words as in inet_isnetwork6, those behind the prefix, are compared.
inet_innetwork6(addr, network, prefix) ==
    \/ prefix = 0
    \/ /\ \A i \in Used(prefix) + 1 .. 4 : addr[i] = network[i]
       /\ \/ Rest(prefix) = 0
          \/ inet_innetwork4(addr[Whole(prefix) + 1], network[Whole(prefix) + 1], Rest(prefix))
===========================================================================
