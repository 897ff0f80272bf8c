---------------------------- MODULE CommandLine ----------------------------
(***************************************************************************)
(* The command line, main() of leelen2sip.c, one option per step, in any   *)
(* order and as often as the user likes; and start_leelen2sip, which       *)
(* checks the ports and decides what is reported, up to the point where    *)
(* sockets are opened.  Lifecycle goes on from there.                      *)
(*                                                                         *)
(* The texts of options are what they stand for: an interface or address   *)
(* is a family, an interface (0 for none) and a host (0 for all); a number *)
(* is the set of the integer it spells, or empty.                          *)
(***************************************************************************)
EXTENDS Integers, FiniteSets

CONSTANTS
    Interfaces,     \* texts for an interface or address
    NumberTexts,        \* texts for a number
    IntRange,       \* how many values an int has
    MaxPort,        \* 65535
    MaxType,        \* 127, the greatest --type
    DefaultPort,    \* the port of each protocol (family.h, sipleelen.h)
    MaxOptions      \* bound: options that are given

Services == {"discovery", "voip", "control"}
Unspecified == [family |-> "UNSPEC", scope |-> 0, host |-> 0]
Addressings == [family : {"UNSPEC", "INET", "INET6", "LOCAL"}, scope : Nat, host : Nat]

ASSUME CommandLineAssumption ==
    /\ MaxPort \in Nat /\ MaxOptions \in Nat
    /\ DefaultPort \in [Services \cup {"sip"} -> 1 .. MaxPort]
    /\ IntRange \in Nat /\ IntRange > 2 * MaxPort
    /\ Unspecified \in Interfaces /\ Interfaces \subseteq Addressings

VARIABLES
    place,       \* where main() is
    number,      \* whether config.number is set
    leelen,      \* config.addr
    sip,         \* sip.addr
    sipPort,     \* its port
    dst,         \* config.discovery, .voip, .control
    src,         \* config.discovery_src, .voip_src, .control_src
    listen,      \* discovery_listen_set, voip_listen_set, control_listen_set
    flags,       \* settings that were given and have no more consequences here
    reported,    \* device->report_addr: unset, an option's, or an address
    options,     \* options so far
    last         \* history: the last values of the port options, 0 for none

commandVars ==
    <<place, number, leelen, sip, sipPort, dst, src, listen, flags, reported, options, last>>

Switches == {"daemonize", "debug", "ipv6"}
Texts == {"ua", "reply-to", "desc"}
Media == {"audio", "video", "type"}

CommandLineTypeOK ==
    /\ place \in {"parse", "check", "sync", "connect", "fail", "end"}
    /\ number \in BOOLEAN
    /\ {leelen, sip} \subseteq Addressings
    /\ sipPort \in 1 .. MaxPort
    /\ dst \in [Services -> 1 .. MaxPort] /\ src \in [Services -> 1 .. MaxPort]
    /\ listen \subseteq Services
    /\ flags \subseteq Switches \cup Texts \cup Media \cup {"interface"}
    /\ reported \in {"unset", "option", "address"}
    /\ options \in 0 .. MaxOptions
    /\ last \in [{"dst", "src"} \X Services -> 0 .. MaxPort]

\* LeelenConfig_init, SIPLeelen_init and main().
CommandLineInit ==
    /\ place = "parse"
    /\ number = FALSE
    /\ leelen = Unspecified /\ sip = Unspecified
    /\ sipPort = DefaultPort["sip"]
    /\ dst = [s \in Services |-> DefaultPort[s]] /\ src = dst
    /\ listen = {} /\ flags = {}
    /\ reported = "unset"
    /\ options = 0
    /\ last = [o \in {"dst", "src"} \X Services |-> 0]

Option == place = "parse" /\ options < MaxOptions /\ options' = options + 1
Fail == place' = "fail"
Go == UNCHANGED place
config == <<number, leelen>>
ports == <<dst, src, listen, last>>
rest == <<flags, reported>>

\* argtoi, as a set: strtol() gives a long, which is cut to an int.
argtoi(text, least, most) ==
    {i \in {((n + IntRange \div 2) % IntRange) - IntRange \div 2 : n \in text} :
        i \in least .. most}

\* argtosockaddr: the family, and the address where there is one.  The name of
\* an interface gives LOCAL and leaves INET6 in the address.
argtosockaddr(text, addr) ==
    IF text.family = "UNSPEC" THEN addr
    ELSE [text EXCEPT !.family = IF @ = "LOCAL" THEN "INET6" ELSE @]

---------------------------------------------------------------------------
(* Options. *)

\* <number>: LeelenNumber_init without a base.
Number ==
    /\ Option /\ ~ number
    /\ \/ number' = TRUE /\ Go
       \/ UNCHANGED number /\ Fail
    /\ UNCHANGED <<leelen, sip, sipPort, ports, rest>>

\* <interface>, after the number; its family is what argtosockaddr returns.
Interface(text) ==
    /\ Option /\ number /\ "interface" \notin flags
    /\ leelen' = [argtosockaddr(text, leelen) EXCEPT !.family = text.family]
    /\ flags' = flags \cup {"interface"}
    /\ IF text.family = "UNSPEC" THEN Fail ELSE Go
    /\ UNCHANGED <<number, sip, sipPort, ports, reported>>

TooMany ==
    /\ Option /\ number /\ "interface" \in flags /\ Fail
    /\ UNCHANGED <<config, sip, sipPort, ports, rest>>

\* -i: the test of its result is the wrong way round.
SipInterface(text) ==
    /\ Option
    /\ IF sip.family # "UNSPEC"
       THEN Fail /\ UNCHANGED sip
       ELSE /\ sip' = argtosockaddr(text, sip)
            /\ IF text.family = "UNSPEC" THEN Go ELSE Fail
    /\ UNCHANGED <<config, sipPort, ports, rest>>

\* -p
Port(text) ==
    /\ Option
    /\ \/ sipPort' \in argtoi(text, 1, MaxPort) /\ Go
       \/ argtoi(text, 1, MaxPort) = {} /\ UNCHANGED sipPort /\ Fail
    /\ UNCHANGED <<config, sip, ports, rest>>

\* (mutant: the port to listen on follows in any case)
SetPortAlways(s, port) ==
    /\ dst' = [dst EXCEPT ![s] = port]
    /\ src' = [src EXCEPT ![s] = port]

\* --discovery, --voip and --control: the port to listen on follows, unless it
\* has been given.
SetPort(s, port) ==
    /\ dst' = [dst EXCEPT ![s] = port]
    /\ src' = IF s \in listen THEN src ELSE [src EXCEPT ![s] = port]

ServicePort(s, text) ==
    /\ Option
    /\ \/ \E port \in argtoi(text, 1, MaxPort) :
            SetPort(s, port) /\ last' = [last EXCEPT ![<<"dst", s>>] = port] /\ Go
       \/ argtoi(text, 1, MaxPort) = {} /\ UNCHANGED <<dst, src, last>> /\ Fail
    /\ UNCHANGED <<config, sip, sipPort, listen, rest>>

\* --discovery-listen, --voip-listen and --control-listen.
ListenPort(s, text) ==
    /\ Option
    /\ \/ \E port \in argtoi(text, 1, MaxPort) :
            /\ src' = [src EXCEPT ![s] = port]
            /\ listen' = listen \cup {s}
            /\ last' = [last EXCEPT ![<<"src", s>>] = port]
            /\ Go
       \/ argtoi(text, 1, MaxPort) = {} /\ UNCHANGED <<src, listen, last>> /\ Fail
    /\ UNCHANGED <<config, sip, sipPort, dst, rest>>

\* -D, -d and -6.
Switch(o) ==
    /\ Option /\ flags' = flags \cup {o} /\ Go
    /\ UNCHANGED <<config, sip, sipPort, ports, reported>>

\* --audio, --video and --type.
MediaNumber(o, text) ==
    /\ Option
    /\ LET value == argtoi(text, 1, IF o = "type" THEN MaxType ELSE MaxPort)
       IN  \/ value # {} /\ flags' = flags \cup {o} /\ Go
           \/ value = {} /\ UNCHANGED flags /\ Fail
    /\ UNCHANGED <<config, sip, sipPort, ports, reported>>

\* --ua, --reply-to and --desc, which must not be given twice; each of them
\* may fail, by strdup() or regcomp().
Text(o) ==
    /\ Option
    /\ \/ ~ (o = "desc" /\ o \in flags) /\ flags' = flags \cup {o} /\ Go
       \/ UNCHANGED flags /\ Fail
    /\ UNCHANGED <<config, sip, sipPort, ports, reported>>

\* --report-addr
ReportAddress ==
    /\ Option
    /\ \/ reported' = "option" /\ Go
       \/ UNCHANGED reported /\ Fail
    /\ UNCHANGED <<config, sip, sipPort, ports, flags>>

\* -h, or an option that getopt_long() does not know.
HelpOrUnknown ==
    /\ Option
    /\ place' \in {"end", "fail"}
    /\ UNCHANGED <<config, sip, sipPort, ports, rest>>

\* After the last option: the description and the user agent get their
\* defaults, unless memory is short, and the addresses a family.
Parsed ==
    /\ place = "parse"
    /\ \/ number /\ place' = "check"
       \/ Fail
    /\ sip' = IF place' = "check" /\ sip.family # "INET" THEN [sip EXCEPT !.family = "INET6"] ELSE sip
    /\ leelen' =
         IF place' = "check" /\ leelen.family = "LOCAL"
         THEN [leelen EXCEPT !.family = IF "ipv6" \in flags THEN "INET6" ELSE "INET"]
         ELSE leelen
    /\ UNCHANGED <<number, sipPort, ports, rest, options>>

---------------------------------------------------------------------------
(* start_leelen2sip *)

SamePorts == \E s, t \in Services : s # t /\ src[s] = src[t]

\* The ports that are compared with that of SIP are those to send to, and that
\* of VoIP is not among them.  Without an <interface> the host that is compared
\* was never stored.
SipConflict ==
    /\ sipPort \in {dst["discovery"], dst["control"]}
    /\ leelen.family = "UNSPEC" \/ leelen.host = sip.host
    /\ sip.scope = leelen.scope

Check ==
    /\ place = "check"
    /\ \/ ~ SamePorts /\ ~ SipConflict /\ place' = "sync"
       \/ ~ SamePorts /\ SipConflict /\ leelen.family = "UNSPEC" /\ place' = "sync"
       \/ (SamePorts \/ SipConflict) /\ Fail
    /\ UNCHANGED <<config, sip, sipPort, ports, rest, options>>

\* LeelenDiscovery_sync: what is reported comes from config.addr, also when
\* --report-addr was given.
Sync ==
    /\ place = "sync" /\ place' = "connect"
    /\ reported' = IF leelen.host = 0 THEN "unset" ELSE "address"
    /\ UNCHANGED <<config, sip, sipPort, ports, flags, options>>

CommandLineNext ==
    \/ Number \/ (\E text \in Interfaces : Interface(text) \/ SipInterface(text)) \/ TooMany
    \/ \E text \in NumberTexts :
         \/ Port(text)
         \/ \E s \in Services : ServicePort(s, text) \/ ListenPort(s, text)
         \/ \E o \in Media : MediaNumber(o, text)
    \/ (\E o \in Switches : Switch(o)) \/ (\E o \in Texts : Text(o))
    \/ ReportAddress \/ HelpOrUnknown
    \/ Parsed \/ Check \/ Sync

CommandLineSpec == CommandLineInit /\ [][CommandLineNext]_commandVars

---------------------------------------------------------------------------
(* Properties. *)

\* In whatever order the options come, a service listens on its last --X-listen
\* port, without one on its last --X port, and without that on its default
\* port; and the program goes on only with three different ones.
ListenWins ==
    /\ \A s \in Services :
         src[s] = IF last[<<"src", s>>] # 0 THEN last[<<"src", s>>]
                  ELSE IF last[<<"dst", s>>] # 0 THEN last[<<"dst", s>>]
                  ELSE DefaultPort[s]
    /\ place = "connect" => Cardinality({src[s] : s \in Services}) = 3

\* `interface or address for SIP protocol' (leelen2sip.c:165): one that can be
\* parsed, given once, is taken.
InterfaceIsTaken ==
    [][\A text \in Interfaces :
          SipInterface(text) /\ sip.family = "UNSPEC" /\ text.family # "UNSPEC" => place' # "fail"]_commandVars
===========================================================================
