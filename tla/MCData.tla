------------------------------- MODULE MCData -------------------------------
(* For TLC: texts of a phone number, or a command line, or addresses.  They  *)
(* have nothing in common, and only one of them moves.                       *)
EXTENDS NumberText, CommandLine, Addresses

\* A home network and its devices; a word has 8 bits.
MCHome6 == <<32, 1, 0, 200>>
MCClients == {In(200), In(17), In6(MCHome6), In6(<<32, 1, 0, 17>>), In6(V4Mapped(17)), In6(Loopback6)}

\* Ports are 1 to 4; 16 + 4 is cut to 4.
MCDefaultPort == [discovery |-> 1, voip |-> 2, control |-> 3, sip |-> 2]
MCNumberTexts == {{}, {0}, {1}, {4}, {5}, {20}}
MCInterfaces ==
    {Unspecified,
     [family |-> "INET", scope |-> 0, host |-> 0], [family |-> "INET", scope |-> 0, host |-> 7],
     [family |-> "INET6", scope |-> 1, host |-> 8], [family |-> "LOCAL", scope |-> 1, host |-> 0]}

VARIABLE part    \* which of them moves

MCInit ==
    /\ part \in {"number", "options", "addresses"}
    /\ TextInit /\ CommandLineInit
    /\ AddressesInit /\ (part # "addresses" => device = In(Home4))

MCNext ==
    \/ part = "number" /\ TextNext /\ UNCHANGED <<part, commandVars, addressesVars>>
    \/ part = "options" /\ CommandLineNext /\ UNCHANGED <<part, text, addressesVars>>
    \/ part = "addresses" /\ AddressesNext /\ UNCHANGED <<part, text, commandVars>>

MCSpec == MCInit /\ [][MCNext]_<<part, text, commandVars, addressesVars>>

\* Numbers, the settings and the addresses keep their types.
TypesOK == NumberTypeOK /\ CommandLineTypeOK /\ AddressesTypeOK
===========================================================================
