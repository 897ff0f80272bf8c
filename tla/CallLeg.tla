------------------------------ MODULE CallLeg ------------------------------
(***************************************************************************)
(* What a LEELEN dialog promises its owner, without messages, networks or  *)
(* time stamps.  A call leg is Idle, Opening, Open or Closing, and changes *)
(* for one of three reasons only: its owner asked for it, the leg at the   *)
(* other side said so at some time, or nobody confirmed for AckTimeout.  A *)
(* leg never acts on a word its peer never said.                           *)
(* This is the contract of the comments on enum LeelenDialogState and on   *)
(* the functions of leelen/voip/dialog.h.                                  *)
(***************************************************************************)
EXTENDS Integers

CONSTANTS Legs, Other, AckTimeout, WaitMax

VARIABLES
    phase,   \* phase of each leg
    wait,    \* how long it has been Opening or Closing
    said     \* what each leg has told the other one so far

legVars == <<phase, wait, said>>

Phases == {"Idle", "Opening", "Open", "Closing"}
Waiting(l) == phase[l] \in {"Opening", "Closing"}

Words == {"open", "close", "ok"}

LegTypeOK ==
    /\ phase \in [Legs -> Phases]
    /\ wait \in [Legs -> 0 .. WaitMax]
    /\ said \in [Legs -> SUBSET Words]

LegInit ==
    /\ phase = [l \in Legs |-> "Idle"]
    /\ wait = [l \in Legs |-> 0]
    /\ said = [l \in Legs |-> {}]

To(l, p) ==
    /\ phase' = [phase EXCEPT ![l] = p]
    /\ wait' = [wait EXCEPT ![l] = 0]

Say(l, w) == said' = [said EXCEPT ![l] = @ \cup {w}]
Told(l, w) == w \in said[Other[l]]

\* The owner opens an idle leg, or renews an open one.
Open(l) == phase[l] \in {"Idle", "Open"} /\ To(l, "Opening") /\ Say(l, "open")

\* The owner closes a leg that is not closed or closing yet.
Close(l) == phase[l] \in {"Opening", "Open"} /\ To(l, "Closing") /\ Say(l, "close")

\* The closing message cannot be sent: the owner gives up at once.
Drop(l) == phase[l] \in {"Opening", "Open"} /\ To(l, "Idle") /\ UNCHANGED said

\* The other leg has confirmed something, and this one waits for a confirmation.
Confirm(l) ==
    /\ Told(l, "ok")
    /\ \/ phase[l] = "Opening" /\ To(l, "Open")
       \/ phase[l] = "Closing" /\ To(l, "Idle")
    /\ UNCHANGED said

\* The other leg opens or closes, and this one confirms and follows.
Follow(l) ==
    /\ \/ Told(l, "open") /\ To(l, "Open")
       \/ Told(l, "close") /\ To(l, "Idle")
    /\ Say(l, "ok")

\* A confirmation of something that does not change the leg.
Nod(l) == Say(l, "ok") /\ UNCHANGED <<phase, wait>>

\* Nobody confirmed, for long enough: a refused opening leaves the leg Idle,
\* a refused closing leaves it Open.
Refuse(l) ==
    /\ wait[l] >= AckTimeout
    /\ \/ phase[l] = "Opening" /\ To(l, "Idle")
       \/ phase[l] = "Closing" /\ To(l, "Open")
    /\ UNCHANGED said

LegTick ==
    /\ wait' = [l \in Legs |-> IF Waiting(l) /\ wait[l] < WaitMax
                               THEN wait[l] + 1 ELSE wait[l]]
    /\ UNCHANGED <<phase, said>>

LegNext ==
    \/ \E l \in Legs :
          \/ Open(l) \/ Close(l) \/ Drop(l) \/ Confirm(l)
          \/ Follow(l) \/ Nod(l) \/ Refuse(l)
    \/ LegTick

LegSpec == LegInit /\ [][LegNext]_legVars
===========================================================================
