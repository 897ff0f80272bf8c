----------------------------- MODULE DialogNet -----------------------------
(***************************************************************************)
(* LEELEN devices that run leelen/voip/dialog.c against each other over    *)
(* UDP.  Each end holds at most one dialog, with the same dialog ID at     *)
(* both ends; the network loses, reorders and duplicates datagrams.  Every *)
(* call of the library is one action; its callers' preconditions are those *)
(* of sipleelen/ (an invitation only from a dialog that is not             *)
(* established).                                                           *)
(***************************************************************************)
EXTENDS LeelenDialog, FiniteSets

CONSTANTS
    Ends,          \* devices
    Peer,          \* Peer[e] is the device e talks to
    InviteCodes,   \* the invitations used
    InCallCodes,   \* what is sent in a call
    Capacity       \* Capacity[e] datagrams can be on their way to e; the rest is lost

ASSUME NetAssumption ==
    /\ Peer \in [Ends -> Ends]
    /\ \A e \in Ends : Peer[e] # e /\ Peer[Peer[e]] = e
    /\ InviteCodes \subseteq Invitations
    /\ InCallCodes \subseteq {"ACCEPTED", "OPEN_GATE"}
    /\ Capacity \in [Ends -> Nat]

VARIABLES
    dialog,   \* dialog[e]: the dialog object of e
    net,      \* net[e]: datagrams on their way to e, by their code
    story,    \* history: what happened in the dialog e has now
    said      \* history: what e has ever told its peer

vars == <<dialog, net, story, said>>

NoDialog == [live |-> FALSE, state |-> "DISCONNECTED", sent |-> Never, idle |-> 0]

TypeOK ==
    /\ dialog \in [Ends -> Dialogs]
    /\ net \in [Ends -> SUBSET Codes]
    /\ story \in [Ends -> SUBSET {"answered", "byed"}]
    /\ said \in [Ends -> SUBSET {"open", "close", "ok"}]

Init ==
    /\ dialog = [e \in Ends |-> NoDialog]
    /\ net = [e \in Ends |-> {}]
    /\ story = [e \in Ends |-> {}]
    /\ said = [e \in Ends |-> {}]

State(e) == dialog[e].state
Live(e) == dialog[e].live

Put(e, box, m) == IF Cardinality(box) < Capacity[e] THEN box \cup {m} ELSE box

\* The age of last_activity is not followed here: dialog.c never reads it.
Set(e, d) == dialog' = [dialog EXCEPT ![e] = [d EXCEPT !.idle = 0]]

\* What a code tells the peer about the call leg.
Words(code) ==
    IF code \in Establishing THEN {"open"}
    ELSE IF code = "BYE" THEN {"close"}
    ELSE IF code = "OK" THEN {"ok"} ELSE {}

Say(e, code) == said' = [said EXCEPT ![e] = @ \cup Words(code)]

---------------------------------------------------------------------------
(* Calls of the device's owner. *)

\* LeelenVoIP_connect, LeelenDialog_init: a new object, its stamps garbage, and
\* a new random ID, so no device and no datagram knows it yet.
Connect(e) ==
    /\ \A f \in Ends : ~ Live(f) /\ net[f] = {}
    /\ \E sent \in Never .. SentMax : Set(e, Fresh(sent, 0))
    /\ story' = [story EXCEPT ![e] = {}]
    /\ UNCHANGED <<net, said>>

\* LeelenDialog_sendmsg, when sendto() succeeds; it changes nothing otherwise.
Send(e, code) ==
    /\ Set(e, Sent(dialog[e], code))
    /\ net' = [net EXCEPT ![Peer[e]] = Put(Peer[e], @, code)]
    /\ Say(e, code)

Invite(e) ==
    /\ Live(e) /\ State(e) = "DISCONNECTED"
    /\ \E code \in InviteCodes : Send(e, code)
    /\ UNCHANGED story

InCall(e) ==
    /\ Live(e) /\ State(e) = "CONNECTED"
    /\ \E code \in InCallCodes : Send(e, code)
    /\ UNCHANGED story

\* LeelenDialog_may_bye
Bye(e) ==
    /\ MayBye(dialog[e])
    /\ Send(e, "BYE")
    /\ story' = [story EXCEPT ![e] = @ \cup {"byed"}]

\* SIPLeelenSession_bye_leelen when sendto() fails.
Abandon(e) ==
    /\ MayBye(dialog[e])
    /\ Set(e, [dialog[e] EXCEPT !.state = "DISCONNECTED"])
    /\ UNCHANGED <<net, story, said>>

\* LeelenDialog_ack_timeout, polled by SIPLeelenSession_established and by
\* the session sweep.
CheckAck(e) ==
    /\ Live(e)
    /\ dialog[e].sent # Never /\ AckExpired(dialog[e])
    /\ Set(e, AckChecked(dialog[e]))
    /\ UNCHANGED <<net, story, said>>

\* LeelenDialog_destroy of a dialog that is over.
Destroy(e) ==
    /\ Live(e) /\ State(e) = "DISCONNECTED"
    /\ Set(e, Destroyed(dialog[e]))
    /\ UNCHANGED <<net, story, said>>

---------------------------------------------------------------------------
(* Datagrams and time. *)

\* LeelenDialog_receive of an ACK on dialog d of end e.  `rest' is what stays
\* of net[e]: a datagram that is delivered and stays was duplicated.  The early
\* return of a caller that wants no formats does what a parsed body does.
ProcessOk(e, d, rest) ==
    /\ \E parsed \in BOOLEAN : Set(e, ReceivedOk(d, FALSE, parsed).dialog)
    /\ net' = [net EXCEPT ![e] = rest]
    /\ UNCHANGED said

\* LeelenDialog_receive of another code.  A body that does not parse leaves
\* what an ACK that cannot be sent leaves.
ProcessCode(e, d, code, rest) ==
    \E sendable \in BOOLEAN :
       /\ Set(e, ReceivedCode(d, code, TRUE, sendable).dialog)
       /\ IF sendable
          THEN /\ net' = [net EXCEPT ![e] = rest,
                                     ![Peer[e]] = Put(Peer[e], @, "OK")]
               /\ Say(e, "OK")
          ELSE /\ net' = [net EXCEPT ![e] = rest]
               /\ UNCHANGED said

Process(e, d, m) ==
    \E rest \in {net[e], net[e] \ {m}} :
       \/ m = "OK" /\ ProcessOk(e, d, rest)
       \/ m # "OK" /\ ProcessCode(e, d, m, rest)

Awaiting(e) == State(e) \in {"CONNECTING", "DISCONNECTING"}

\* A datagram for a dialog e knows.
Receive(e) ==
    /\ Live(e)
    /\ \E m \in net[e] :
          /\ Process(e, dialog[e], m)
          /\ story' = [story EXCEPT ![e] = @ \cup {"answered"}]

\* LeelenVoIP_receive for an unknown dialog ID: connect, then receive.
ReceiveFirst(e) ==
    /\ ~ Live(e)
    /\ \E m \in net[e], sent \in Never .. SentMax : Process(e, Fresh(sent, 0), m)
    /\ story' = [story EXCEPT ![e] = {"answered"}]

Lose(e) ==
    /\ \E m \in net[e] : net' = [net EXCEPT ![e] = @ \ {m}]
    /\ UNCHANGED <<dialog, story, said>>

Tick ==
    /\ dialog' = [e \in Ends |-> IF Live(e) THEN [Aged(dialog[e]) EXCEPT !.idle = 0]
                                ELSE dialog[e]]
    /\ UNCHANGED <<net, story, said>>

Next ==
    \/ \E e \in Ends :
          \/ Connect(e) \/ Invite(e) \/ InCall(e) \/ Bye(e)
          \/ Abandon(e) \/ CheckAck(e) \/ Destroy(e)
          \/ Receive(e) \/ ReceiveFirst(e) \/ Lose(e)
    \/ Tick

Spec == Init /\ [][Next]_vars

\* The owner polls its timers and the clock runs: sipleelen.c sweeps the
\* sessions every 8 polls of 100 ms.  Nothing is asked of the network.
FairSpec == Spec /\ WF_vars(Tick) /\ \A e \in Ends : WF_vars(CheckAck(e))

---------------------------------------------------------------------------
(* Properties. *)

\* A dialog that waits for an ACK has its timer armed, although last_sent is
\* never initialised, is set to 0 by a timeout and is left alone by an ACK:
\* otherwise LeelenDialog_ack_timeout would report a timeout for ever and
\* never leave the wait (dialog.c:84).
WaitIsArmed == \A e \in Ends : Awaiting(e) => dialog[e].sent # Never

\* Only a BYE that timed out makes a dialog CONNECTED to a peer that never
\* said a word: every other way in needs a datagram of the peer.
SilentPeerOnlyAfterBye ==
    \A e \in Ends :
        State(e) = "CONNECTED" /\ "answered" \notin story[e]
            => "byed" \in story[e]

\* An invitation does not stay unanswered for ever: it is confirmed, refused
\* by the timer, hung up or abandoned, whatever the network does.
InviteSettles ==
    \A e \in Ends : State(e) = "CONNECTING" ~> State(e) # "CONNECTING"

---------------------------------------------------------------------------
(* Every end is a call leg. *)

Phase(state) ==
    CASE state = "DISCONNECTED" -> "Idle"
      [] state = "CONNECTING" -> "Opening"
      [] state = "CONNECTED" -> "Open"
      [] state = "DISCONNECTING" -> "Closing"

LegPhase == [e \in Ends |-> Phase(State(e))]
LegWait == [e \in Ends |-> IF Awaiting(e) THEN dialog[e].sent ELSE 0]

Leg == INSTANCE CallLeg WITH
          Legs <- Ends, Other <- Peer, WaitMax <- SentMax,
          phase <- LegPhase, wait <- LegWait

\* A dialog moves only as a call leg may: because its owner asked, because its
\* peer said so at some time, or because an ACK stayed out for AckTimeout.
ImplementsCallLeg == Leg!LegSpec
===========================================================================
