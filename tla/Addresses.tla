----------------------------- MODULE Addresses -----------------------------
(***************************************************************************)
(* Where the bridge sends things.  A SIP client sends a request and the    *)
(* reply goes where its Via header says after SIPLeelen_receive has fixed  *)
(* it.  A LEELEN device, another bridge, is asked for its address, says it *)
(* (advertiser.c), is called at it (host.c, uas.c), and answers.           *)
(*                                                                         *)
(* A configuration is the family and the host of LeelenConfig.addr; a host *)
(* of zeros stands for all addresses.  `Home' is where the device really   *)
(* is.                                                                     *)
(***************************************************************************)
EXTENDS Inet46

CONSTANTS
    Clients,     \* addresses SIP clients may have
    Home4,       \* the IPv4 address of the device
    Home6,       \* and its IPv6 address
    Group4       \* the group that solicitations are sent to

\* Clients have addresses of either family.  The IPv6 address of the device is
\* not one that embeds an IPv4 address.
ASSUME AddressesAssumption ==
    /\ \A c \in Clients : c.family \in {"INET", "INET6"}
    /\ Group4 # Home4 /\ 0 \notin {Home4, Group4}
    /\ Home6 \in [1 .. 4 -> Nat] /\ ~ V4OK(Home6)

VARIABLES
    course,    \* what has happened so far
    client,    \* the SIP client
    reply,     \* where its reply goes
    caller,    \* the family of LeelenConfig.addr of the bridge that calls
    device,    \* LeelenConfig.addr of the device
    report,    \* the address it reports
    theirs     \* LeelenDialog.theirs of the bridge that calls

addressesVars == <<course, client, reply, caller, device, report, theirs>>

Nowhere == In(0)

Devices == {Nowhere, In(Home4), In6(Any6), In6(Home6), In6(Loopback6), In6(V4Mapped(Home4))}

AddressesInit ==
    /\ course = "nothing"
    /\ client = Nowhere /\ reply = Nowhere /\ caller = "INET"
    /\ device \in Devices /\ report = Nowhere /\ theirs = Nowhere

\* What a peer's address looks like on a socket of some family; an IPv6 socket
\* of this program takes IPv4 too.
OnSocket(family, addr) == IF family = "INET6" THEN sockaddr_to6(addr) ELSE addr

---------------------------------------------------------------------------
(* SIP. *)

\* (mutant: the address is read from its beginning)
FixedViaFirst(src) == In(SetV4Mapped(src.host)[1])

\* The host that goes into the Via header.  IN6_SET_ADDR_V4MAPPED does not ask
\* but makes the address an IPv4 one, and its value is always true.
FixedVia(src) == in64_get("INET", SetV4Mapped(src.host))

\* _SIPLeelen_send, for a transaction that came in on an IPv6 socket.
SentTo(host) == in64_get("INET6", in64_set(host))

\* A request: SIPLeelen_receive fixes the Via header, and the transaction takes
\* the destination of its replies from there.  The socket of SIP is an IPv6 one.
Request(c) ==
    /\ course = "nothing" /\ course' = "replied"
    /\ client' = c
    /\ reply' = SentTo(FixedVia(OnSocket("INET6", c)))
    /\ UNCHANGED <<caller, device, report, theirs>>

---------------------------------------------------------------------------
(* LEELEN. *)

\* (mutant: all addresses are reported as one)
ReportAddrAny(addr) ==
    IF addr.family = "INET6" /\ addr.host = Loopback6 THEN {In(INADDR_LOOPBACK)}
    ELSE {IF addr.family = "INET6" /\ V4OK(addr.host) THEN In(addr.host[4]) ELSE addr}

\* LeelenAdvertiser_set_report_addr, as a set: none if there is nothing to
\* report yet.
ReportAddr(addr) ==
    IF addr.family = "INET6" /\ addr.host = Loopback6 THEN {In(INADDR_LOOPBACK)}
    ELSE {a \in {IF addr.family = "INET6" /\ V4OK(addr.host) THEN In(addr.host[4]) ELSE addr} :
            ~ in46_is_addr_unspecified(a)}

\* What an IPv6 recv_dst happens to be: nobody has stored one.
Garbage == {In6(<<w, 0, 0, w>>) : w \in 0 .. 1}

\* LeelenAdvertiser_reply without an address to report says what recvfromto has
\* stored in recv_dst: the destination of the solicitation, which is the group,
\* or what happens to be there if it came by IPv6.
Reports(family) ==
    IF ReportAddr(device) # {} THEN ReportAddr(device)
    ELSE IF family = "INET" THEN {In(Group4)}
    ELSE Garbage

\* A device with all addresses that is not this program says one of them.
Foreign == IF device = In6(Any6) THEN {In(Home4), In6(Home6)} ELSE {}

\* The sockets the device gets solicitations on (LeelenDiscovery_connect).
ListensOn(family) == family = device.family \/ device = In6(Any6)

\* A solicitation arrives and is answered; LeelenHost_init takes the report.
\* Those by IPv6 are not sent to ff02::1: each hexadecimal digit of the group is
\* a byte of its own (protocol.c:18), so that it takes a network that delivers
\* 0f0f:2::1 to the device.
Discover(f, family) ==
    /\ course = "nothing" /\ course' = "discovered"
    /\ caller' = f
    /\ family = "INET6" => f = "INET6"
    /\ ListensOn(family)
    /\ report' \in Reports(family) \cup Foreign
    /\ UNCHANGED <<client, reply, device, theirs>>

\* Conversion to the family of our socket.  An IPv6 address on an IPv4 socket
\* ends the call, also when sockaddr_to4 has just converted it.
Converted(family, host) ==
    IF family = host.family THEN {host}
    ELSE IF family = "INET6" THEN {sockaddr_to6(host)}
    ELSE {}

Call ==
    /\ course = "discovered"
    /\ IF Converted(caller, report) = {}
       THEN course' = "failed" /\ UNCHANGED theirs
       ELSE course' = "called" /\ theirs' \in Converted(caller, report)
    /\ UNCHANGED <<client, reply, caller, device, report>>

\* Whether the socket of the device gets what is sent to this address.
Receives(addr) ==
    LET home == OnSocket("INET6", addr).host
    IN  \/ device = In(0) /\ home \in {V4Mapped(Home4), V4Mapped(Group4)}
        \/ device = In6(Any6) /\ home \in {V4Mapped(Home4), V4Mapped(Group4), Home6}
        \/ home = OnSocket("INET6", device).host

\* The address the device sends from.
Sender ==
    IF in46_is_addr_unspecified(device)
    THEN IF IsV4Mapped(OnSocket("INET6", theirs).host) THEN In(Home4) ELSE In6(Home6)
    ELSE device

\* SIPLeelenSession_receive: another address than that of the dialog becomes
\* the address of the dialog.
Answer ==
    /\ course = "called" /\ Receives(theirs)
    /\ course' = "answered"
    /\ LET src == OnSocket(caller, Sender)
       IN  theirs' = IF sockaddr_same(theirs, src) THEN theirs ELSE src
    /\ UNCHANGED <<client, reply, caller, device, report>>

AddressesNext ==
    \/ \E c \in Clients : Request(c)
    \/ \E f, family \in {"INET", "INET6"} : Discover(f, family)
    \/ Call \/ Answer

AddressesSpec == AddressesInit /\ [][AddressesNext]_addressesVars

---------------------------------------------------------------------------
(* Properties. *)

AddressesTypeOK ==
    /\ course \in {"nothing", "replied", "discovered", "failed", "called", "answered"}
    /\ {client.family, reply.family, caller, report.family, theirs.family} \subseteq {"INET", "INET6"}
    /\ course \in {"called", "answered"} => theirs.family = caller

\* The replies to an IPv4 client, whose address passes through an IPv6 socket,
\* a Via header and libosip2, go back to it.
RepliesReachIPv4 ==
    course = "replied" /\ client.family = "INET" => reply = OnSocket("INET6", client)

\* `Source address of the message', read only (sipleelen.h:105, 114): the
\* replies to a request go where it came from.
RepliesGoBack == course = "replied" => reply = OnSocket("INET6", client)

\* A device that is asked for its address can be called at what it says, even
\* when that is only the group it was asked in; and after its first answer the
\* dialog has its own address.  Left out are a device on ::1, which reports
\* 127.0.0.1 and does not listen there, and one that was asked by IPv6 and
\* reports garbage.
CallsReachDevice ==
    /\ course = "called" /\ device # In6(Loopback6) /\ report \notin Garbage
         => Receives(theirs)
    /\ course = "answered" => theirs \in {OnSocket(caller, In(Home4)), OnSocket(caller, In6(Home6))}

\* Bit k of an address, from the left.
BitAt(a, k) == (a[k \div Bits + 1] \div Pow2(Bits - 1 - (k % Bits))) % 2

\* Prefixes at and around the ends of words, words with bits at both ends.
Prefixes == {-1, 0, 1, Bits - 1, Bits, Bits + 1, 2 * Bits, 3 * Bits + 2, 4 * Bits}
Words == {0, 1, 3 * Pow2(Bits - 2)}
Hosts6 == Words \X Words \X Words \X Words

\* A prefix is tested bit by bit, except that inet_innetwork6 looks at the bits
\* it should ignore: of a network of whole words it accepts the addresses whose
\* own host part is zero, whatever the network.
NetworksMatch ==
    course = "nothing" /\ device = Nowhere =>
        \A n \in Hosts6, p \in Prefixes :
            /\ inet_isnetwork6(n, p) <=>
                  \A k \in (IF p < 0 THEN 4 * Bits ELSE p) .. 4 * Bits - 1 : BitAt(n, k) = 0
            /\ \A w \in Words : p \in 1 .. Bits =>
                  (inet_innetwork4(w, n[1], p) <=> \A k \in 0 .. p - 1 : BitAt(<<w>>, k) = BitAt(n, k))
            /\ inet_isnetwork6(n, p) /\ Rest(p) = 0 /\ p # 0 =>
                  \A a \in Hosts6 : inet_innetwork6(a, n, p) <=> inet_isnetwork6(a, p)
===========================================================================
