--------------------------- MODULE LeelenDialog ---------------------------
(***************************************************************************)
(* One LEELEN VoIP dialog (leelen/voip/dialog.c), as operators on the      *)
(* private part of struct LeelenDialog.  The state machines that use them  *)
(* are DialogNet (two devices and a datagram network) and Session (the     *)
(* bridge).                                                                *)
(*                                                                         *)
(* The two time stamps of the structure are kept as ages, in ticks of      *)
(* AckTimeout and Duration: `sent' is the age of last_sent, Never when the *)
(* code has set last_sent.tv_sec to 0, and `idle' the age of               *)
(* last_activity, -1 when the code has put it one second into the future.  *)
(* An age stops growing at SentMax or IdleMax, where no test of the code   *)
(* can tell it from an older one.  Phone numbers, addresses, ports and     *)
(* media formats are left out: no branch of dialog.c depends on them.      *)
(***************************************************************************)
EXTENDS Integers

CONSTANTS
    AckTimeout,   \* LeelenDialog.timeout, how long a sent code waits for its ACK
    Duration,     \* LeelenDialog.duration, how long a silent dialog lasts
    SentMax,      \* oldest age kept of last_sent
    IdleMax       \* oldest age kept of last_activity

ASSUME TimeAssumption ==
    /\ AckTimeout \in Nat \ {0} /\ Duration \in Nat
    /\ SentMax \in Nat /\ SentMax >= AckTimeout
    /\ IdleMax \in Nat /\ IdleMax > Duration

(***************************************************************************)
(* enum LeelenDialogState and enum LeelenCode.                             *)
(***************************************************************************)
States == {"DISCONNECTED", "CONNECTING", "CONNECTED", "DISCONNECTING"}

Invitations == {"CALL", "VIEW", "VOICE_MESSAGE"}
Establishing == Invitations \cup {"ACCEPTED"}
Codes == Establishing \cup {"BYE", "OPEN_GATE", "OK"}

Never == -1

\* struct LeelenDialog; live stands for id # 0
Dialogs == [live : BOOLEAN, state : States,
            sent : Never .. SentMax, idle : -1 .. IdleMax]

---------------------------------------------------------------------------
(***************************************************************************)
(* The four transition tables.                                             *)
(***************************************************************************)
StateReceive(state, code) ==
    IF code \in Establishing THEN "CONNECTED"
    ELSE IF code = "BYE" THEN "DISCONNECTED" ELSE state

\* (mutant: ACCEPTED falls through, to the code instead of the state)
StateSendCode(state, code) ==
    IF code \in Invitations THEN "CONNECTING"
    ELSE IF code = "BYE" THEN "DISCONNECTING" ELSE code

StateSend(state, code) ==
    IF code \in Establishing THEN "CONNECTING"
    ELSE IF code = "BYE" THEN "DISCONNECTING" ELSE state

StateAck(state) ==
    IF state = "CONNECTING" THEN "CONNECTED"
    ELSE IF state = "DISCONNECTING" THEN "DISCONNECTED" ELSE state

\* (mutant: a refusal taken for a confirmation)
StateNakAsAck(state) == StateAck(state)

StateNak(state) ==
    IF state = "CONNECTING" THEN "DISCONNECTED"
    ELSE IF state = "DISCONNECTING" THEN "CONNECTED" ELSE state

---------------------------------------------------------------------------
(***************************************************************************)
(* The functions of the library.  Where the C function returns a value the *)
(* result is a record of the new dialog and that value.                    *)
(***************************************************************************)

\* One tick of the clock.
Aged(d) ==
    [d EXCEPT !.sent = IF @ = Never \/ @ = SentMax THEN @ ELSE @ + 1,
              !.idle = IF @ = IdleMax THEN @ ELSE @ + 1]

\* (mutant: compares the wait with nothing, so every wait is over at once)
AckExpiredAtOnce(d) == d.sent = Never \/ d.sent >= 0

\* What LeelenDialog_ack_timeout returns ...
AckExpired(d) == d.sent = Never \/ d.sent >= AckTimeout

\* (mutant: clears the time stamp and forgets the state)
AckCheckedStampOnly(d) ==
    IF d.sent # Never /\ AckExpired(d) THEN [d EXCEPT !.sent = Never] ELSE d

\* ... and what it leaves behind: the wait is over and counts as refused.
\* A dialog without a wait (last_sent.tv_sec = 0) is not touched.
AckChecked(d) ==
    IF d.sent # Never /\ AckExpired(d)
    THEN [d EXCEPT !.sent = Never, !.state = StateNak(@)]
    ELSE d

\* LeelenDialog_dialog_timeout
DialogExpired(d) == d.idle > Duration

\* (mutant: forgets to arm the timer)
SentUnarmed(d, code) ==
    IF code = "OK" THEN d
    ELSE [d EXCEPT !.state = StateSend(@, code), !.idle = -1]

\* LeelenDialog_sendmsg once sendto() took the message.
Sent(d, code) ==
    IF code = "OK" THEN d
    ELSE [d EXCEPT !.state = StateSend(@, code), !.sent = 0, !.idle = -1]

\* Whether LeelenDialog_may_bye sends anything.
MayBye(d) == d.live /\ d.state \notin {"DISCONNECTED", "DISCONNECTING"}

\* LeelenDialog_receive of an ACK.  The state moves before the body is
\* parsed; `fast' is the early return of a caller that wants no formats.
ReceivedOk(d, fast, parsed) ==
    LET acked == [d EXCEPT !.state = StateAck(@)]
    IN  IF AckExpired(d) THEN [dialog |-> AckChecked(d), ret |-> 254]
        ELSE IF fast \/ parsed
             THEN [dialog |-> [acked EXCEPT !.idle = 0], ret |-> 0]
             ELSE [dialog |-> acked, ret |-> -1]

\* LeelenDialog_receive of any other code: nothing moves unless the body
\* parses and our own ACK goes out.
ReceivedCode(d, code, parsed, sendable) ==
    IF parsed /\ sendable
    THEN [dialog |-> [d EXCEPT !.state = StateReceive(@, code), !.idle = 0],
          ret |-> 0]
    ELSE [dialog |-> d, ret |-> -1]

\* LeelenDialog_init; it sets neither time stamp, and the memory comes from
\* malloc(), so both hold whatever was there (`sent', `idle').
Fresh(sent, idle) ==
    [live |-> TRUE, state |-> "DISCONNECTED", sent |-> sent, idle |-> idle]

\* LeelenDialog_destroy
Destroyed(d) == [d EXCEPT !.live = FALSE]
===========================================================================
