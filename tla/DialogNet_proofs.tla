-------------------------- MODULE DialogNet_proofs --------------------------
(***************************************************************************)
(* Theorems of DialogNet, for every set of devices, every time limit and   *)
(* every network capacity.                                                 *)
(***************************************************************************)
EXTENDS DialogNet, TLAPS

---------------------------------------------------------------------------
(* What the functions of dialog.c return. *)

LEMMA TablesType ==
    ASSUME NEW s \in States, NEW code \in Codes
    PROVE  /\ StateReceive(s, code) \in States
           /\ StateSend(s, code) \in States
           /\ StateAck(s) \in States
           /\ StateNak(s) \in States
BY DEF States, StateReceive, StateSend, StateAck, StateNak

\* The time stamps stay in range, and a dialog that ages keeps its state and
\* whether it is armed.
LEMMA AgedType ==
    ASSUME NEW d \in Dialogs
    PROVE  /\ Aged(d) \in Dialogs
           /\ Aged(d).live = d.live
           /\ Aged(d).state = d.state
           /\ Aged(d).sent = IF d.sent = Never \/ d.sent = SentMax
                             THEN d.sent ELSE d.sent + 1
<1> DEFINE sent2 == IF d.sent = Never \/ d.sent = SentMax THEN d.sent ELSE d.sent + 1
           idle2 == IF d.idle = IdleMax THEN d.idle ELSE d.idle + 1
<1>1. sent2 \in Never .. SentMax /\ idle2 \in -1 .. IdleMax
  BY TimeAssumption DEF TimeAssumption, Dialogs, Never
<1>2. Aged(d) = [d EXCEPT !.sent = sent2, !.idle = idle2]
  BY DEF Aged
<1> HIDE DEF sent2, idle2
<1>3. /\ Aged(d) \in Dialogs
      /\ Aged(d).live = d.live
      /\ Aged(d).state = d.state
      /\ Aged(d).sent = sent2
  BY <1>1, <1>2 DEF Dialogs
<1> QED
  BY <1>3 DEF sent2

\* A dialog whose wait is checked either stays as it was or has left the wait.
LEMMA AckCheckedType ==
    ASSUME NEW d \in Dialogs
    PROVE  /\ AckChecked(d) \in Dialogs
           /\ AckChecked(d).live = d.live
           /\ \/ AckChecked(d) = d
              \/ /\ AckChecked(d).state = StateNak(d.state)
                 /\ d.sent >= AckTimeout
<1>1. StateNak(d.state) \in States /\ Never \in Never .. SentMax
  BY TablesType, TimeAssumption DEF TimeAssumption, Dialogs, Codes, Never
<1>2. CASE d.sent # Never /\ AckExpired(d)
  <2>1. AckChecked(d) = [d EXCEPT !.sent = Never, !.state = StateNak(d.state)]
    BY <1>2 DEF AckChecked
  <2>2. d.sent >= AckTimeout
    BY <1>2 DEF AckExpired
  <2> QED
    BY <1>1, <2>1, <2>2 DEF Dialogs
<1>3. CASE ~ (d.sent # Never /\ AckExpired(d))
  BY <1>3 DEF AckChecked
<1> QED
  BY <1>2, <1>3

LEMMA SentType ==
    ASSUME NEW d \in Dialogs, NEW code \in Codes \ {"OK"}
    PROVE  /\ Sent(d, code) \in Dialogs
           /\ Sent(d, code).live = d.live
           /\ Sent(d, code).state = StateSend(d.state, code)
           /\ Sent(d, code).sent = 0
<1>1. StateSend(d.state, code) \in States /\ 0 \in Never .. SentMax /\ -1 \in -1 .. IdleMax
  BY TablesType, TimeAssumption DEF TimeAssumption, Dialogs, Never
<1>2. Sent(d, code) = [d EXCEPT !.state = StateSend(d.state, code), !.sent = 0, !.idle = -1]
  BY DEF Sent
<1> QED
  BY <1>1, <1>2 DEF Dialogs

LEMMA FreshType ==
    ASSUME NEW sent \in Never .. SentMax
    PROVE  /\ Fresh(sent, 0) \in Dialogs
           /\ Fresh(sent, 0).state = "DISCONNECTED"
           /\ Fresh(sent, 0).live
BY TimeAssumption DEF TimeAssumption, Fresh, Dialogs, States, Never

\* Setting an end's dialog forgets the age of last_activity and nothing else.
LEMMA SetType ==
    ASSUME TypeOK, NEW e \in Ends, NEW d \in Dialogs, Set(e, d)
    PROVE  /\ dialog' \in [Ends -> Dialogs]
           /\ \A f \in Ends \ {e} : dialog'[f] = dialog[f]
           /\ dialog'[e].live = d.live
           /\ dialog'[e].state = d.state
           /\ dialog'[e].sent = d.sent
BY TimeAssumption DEF TimeAssumption, TypeOK, Set, Dialogs

LEMMA PutType ==
    ASSUME NEW e, NEW m, NEW box
    PROVE  Put(e, box, m) \subseteq box \cup {m}
BY DEF Put

\* Receiving a datagram does one of four things: nothing, refuse the wait that
\* ran out, confirm what was awaited, or follow the peer and acknowledge it.
Nothing(d, r) == r.state = d.state /\ r.sent = d.sent /\ said' = said
Refused(d, r, m) ==
    /\ m = "OK" /\ d.sent >= AckTimeout
    /\ r.state = StateNak(d.state) /\ said' = said
Confirmed(d, r, m) ==
    /\ m = "OK"
    /\ r.state = StateAck(d.state) /\ r.sent = d.sent /\ said' = said
Followed(e, d, r, m) ==
    /\ m # "OK"
    /\ r.state = StateReceive(d.state, m) /\ r.sent = d.sent
    /\ Say(e, "OK")

Outcome(e, d, r, m) ==
    /\ Set(e, r)
    /\ r.live = d.live
    /\ \/ Nothing(d, r)
       \/ Refused(d, r, m)
       \/ Confirmed(d, r, m)
       \/ Followed(e, d, r, m)

\* Every datagram in net' is an old one, or an ACK of an end that has said "ok".
OnlyAcksAdded(e, m) ==
    /\ net' \in [Ends -> SUBSET Codes]
    /\ \A f \in Ends : \A n \in net'[f] :
          n \in net[f] \/ (f = Peer[e] /\ n = "OK" /\ "ok" \in said'[e])

LEMMA ReceivedOkOutcome ==
    ASSUME NEW d \in Dialogs, NEW fast \in BOOLEAN, NEW parsed \in BOOLEAN,
           NEW r, r = ReceivedOk(d, fast, parsed).dialog
    PROVE  /\ r \in Dialogs
           /\ r.live = d.live
           /\ \/ r.state = d.state /\ r.sent = d.sent
              \/ d.sent >= AckTimeout /\ r.state = StateNak(d.state)
              \/ r.state = StateAck(d.state) /\ r.sent = d.sent
<1>1. CASE AckExpired(d)
  BY <1>1, AckCheckedType DEF ReceivedOk
<1>2. CASE ~ AckExpired(d)
  <2>1. StateAck(d.state) \in States /\ 0 \in -1 .. IdleMax
    BY TablesType, TimeAssumption DEF TimeAssumption, Dialogs, Codes
  <2>2. \/ r = [d EXCEPT !.state = StateAck(d.state)]
        \/ r = [d EXCEPT !.state = StateAck(d.state), !.idle = 0]
    BY <1>2 DEF ReceivedOk, Dialogs
  <2> QED
    BY <2>1, <2>2 DEF Dialogs
<1> QED
  BY <1>1, <1>2

LEMMA ReceivedCodeOutcome ==
    ASSUME NEW d \in Dialogs, NEW code \in Codes
    PROVE  LET r == ReceivedCode(d, code, TRUE, TRUE).dialog
           IN  /\ r \in Dialogs /\ r.live = d.live /\ r.sent = d.sent
               /\ r.state = StateReceive(d.state, code)
<1>1. StateReceive(d.state, code) \in States /\ 0 \in -1 .. IdleMax
  BY TablesType, TimeAssumption DEF TimeAssumption, Dialogs
<1> QED
  BY <1>1 DEF ReceivedCode, Dialogs

LEMMA ProcessOutcome ==
    ASSUME TypeOK, NEW e \in Ends, NEW d \in Dialogs, NEW m \in net[e],
           Process(e, d, m)
    PROVE  /\ \E r \in Dialogs : Outcome(e, d, r, m)
           /\ OnlyAcksAdded(e, m)
           /\ said' \in [Ends -> SUBSET {"open", "close", "ok"}]
           /\ \A f \in Ends : said[f] \subseteq said'[f]
<1>1. /\ m \in Codes
      /\ Peer[e] \in Ends /\ Peer[e] # e
      /\ "OK" \in Codes
  BY NetAssumption DEF NetAssumption, TypeOK, Codes
<1>2. PICK rest \in {net[e], net[e] \ {m}} :
         \/ m = "OK" /\ ProcessOk(e, d, rest)
         \/ m # "OK" /\ ProcessCode(e, d, m, rest)
  BY DEF Process
<1>3. CASE m = "OK" /\ ProcessOk(e, d, rest)
  <2>1. PICK parsed \in BOOLEAN : Set(e, ReceivedOk(d, FALSE, parsed).dialog)
    BY <1>3 DEF ProcessOk
  <2>2. said' = said /\ net' = [net EXCEPT ![e] = rest]
    BY <1>3 DEF ProcessOk
  <2>3. \E r \in Dialogs : Outcome(e, d, r, m)
    BY <1>3, <2>1, <2>2, ReceivedOkOutcome
       DEF Outcome, Nothing, Refused, Confirmed
  <2>4. net \in [Ends -> SUBSET Codes] /\ said \in [Ends -> SUBSET {"open", "close", "ok"}]
    BY DEF TypeOK
  <2>5. net' \in [Ends -> SUBSET Codes] /\ \A f \in Ends : net'[f] \subseteq net[f]
    BY <1>2, <2>2, <2>4
  <2>6. OnlyAcksAdded(e, m)
    BY <2>5 DEF OnlyAcksAdded
  <2> QED
    BY <2>2, <2>3, <2>4, <2>6
<1>4. CASE m # "OK" /\ ProcessCode(e, d, m, rest)
  <2>1. PICK sendable \in BOOLEAN :
           /\ Set(e, ReceivedCode(d, m, TRUE, sendable).dialog)
           /\ IF sendable
              THEN /\ net' = [net EXCEPT ![e] = rest,
                                         ![Peer[e]] = Put(Peer[e], @, "OK")]
                   /\ Say(e, "OK")
              ELSE /\ net' = [net EXCEPT ![e] = rest]
                   /\ UNCHANGED said
    BY <1>4 DEF ProcessCode
  <2>2. CASE sendable = TRUE
    <3>1. \E r \in Dialogs : Outcome(e, d, r, m)
      <4> DEFINE r == ReceivedCode(d, m, TRUE, TRUE).dialog
      <4>1. Set(e, r) /\ Say(e, "OK") /\ m # "OK"
        BY <1>4, <2>1, <2>2
      <4>2. /\ r \in Dialogs /\ r.live = d.live /\ r.sent = d.sent
            /\ r.state = StateReceive(d.state, m)
        BY <1>1, ReceivedCodeOutcome
      <4> HIDE DEF r
      <4> QED
        BY <4>1, <4>2 DEF Outcome, Followed
    <3>2. /\ said' \in [Ends -> SUBSET {"open", "close", "ok"}]
          /\ "ok" \in said'[e]
          /\ \A f \in Ends : said[f] \subseteq said'[f]
      BY <2>1, <2>2 DEF Say, Words, Establishing, Invitations, TypeOK
    <3>3. net'[Peer[e]] \subseteq net[Peer[e]] \cup {"OK"}
      BY <1>1, <2>1, <2>2, PutType DEF TypeOK
    <3>4. net' \in [Ends -> SUBSET Codes]
      <4>1. Put(Peer[e], net[Peer[e]], "OK") \in SUBSET Codes
        BY <1>1, PutType DEF TypeOK
      <4> QED
        BY <1>1, <1>2, <2>1, <2>2, <4>1 DEF TypeOK
    <3>5. \A f \in Ends \ {Peer[e]} : net'[f] \subseteq net[f]
      BY <1>1, <1>2, <2>1, <2>2 DEF TypeOK
    <3> QED
      BY <3>1, <3>2, <3>3, <3>4, <3>5 DEF OnlyAcksAdded
  <2>3. CASE sendable = FALSE
    <3>1. ReceivedCode(d, m, TRUE, FALSE).dialog = d
      BY DEF ReceivedCode
    <3>2. Set(e, d) /\ said' = said
      BY <2>1, <2>3, <3>1
    <3>3. \E r \in Dialogs : Outcome(e, d, r, m)
      BY <3>2 DEF Outcome, Nothing
    <3> QED
      BY <1>2, <2>1, <2>3, <3>3 DEF TypeOK, OnlyAcksAdded
  <2> QED
    BY <2>2, <2>3
<1> QED
  BY <1>2, <1>3, <1>4

---------------------------------------------------------------------------
(* The inductive invariant. *)

\* A dialog that waits for the ACK of a BYE has sent one.
ByeRemembered ==
    \A e \in Ends :
        /\ State(e) = "DISCONNECTING" => "byed" \in story[e]
        /\ State(e) = "CONNECTED" /\ "answered" \notin story[e]
              => "byed" \in story[e]

\* What is on its way to an end was said by its peer.
NothingInvented ==
    \A e \in Ends : \A m \in net[e] : Words(m) \subseteq said[Peer[e]]

\* An end without a dialog is idle.
DeadIsIdle == \A e \in Ends : ~ Live(e) => State(e) = "DISCONNECTED"

Inv ==
    /\ TypeOK
    /\ WaitIsArmed
    /\ ByeRemembered
    /\ NothingInvented
    /\ DeadIsIdle

LEMMA InitInv == Init => Inv
<1> SUFFICES ASSUME Init PROVE Inv
  OBVIOUS
<1>1. NoDialog \in Dialogs /\ NoDialog.state = "DISCONNECTED"
  BY TimeAssumption DEF TimeAssumption, NoDialog, Dialogs, States, Never
<1>2. TypeOK
  BY <1>1 DEF Init, TypeOK
<1> QED
  BY <1>1, <1>2 DEF Init, Inv, WaitIsArmed, ByeRemembered, NothingInvented,
                    DeadIsIdle, Awaiting, State, Live

\* A call of e that changes its own dialog to d, and sends at most one code,
\* keeps the invariant when d alone satisfies it.
LEMMA OwnStep ==
    ASSUME Inv, NEW e \in Ends, NEW d \in Dialogs, Set(e, d),
           d.state \in {"CONNECTING", "DISCONNECTING"} => d.sent # Never,
           ~ d.live => d.state = "DISCONNECTED",
           story' \in [Ends -> SUBSET {"answered", "byed"}],
           \A f \in Ends \ {e} : story'[f] = story[f],
           d.state = "DISCONNECTING" => "byed" \in story'[e],
           d.state = "CONNECTED" /\ "answered" \notin story'[e] => "byed" \in story'[e],
           net' \in [Ends -> SUBSET Codes],
           said' \in [Ends -> SUBSET {"open", "close", "ok"}],
           \A f \in Ends : said[f] \subseteq said'[f],
           \A f \in Ends : \A m \in net'[f] :
              m \in net[f] \/ Words(m) \subseteq said'[Peer[f]]
    PROVE  Inv'
<1>1. /\ dialog' \in [Ends -> Dialogs]
      /\ \A f \in Ends \ {e} : dialog'[f] = dialog[f]
      /\ dialog'[e].live = d.live
      /\ dialog'[e].state = d.state
      /\ dialog'[e].sent = d.sent
  BY SetType DEF Inv
<1>2. TypeOK'
  BY <1>1 DEF TypeOK
<1>3. WaitIsArmed'
  BY <1>1 DEF Inv, WaitIsArmed, Awaiting, State
<1>4. ByeRemembered'
  BY <1>1 DEF Inv, ByeRemembered, State
<1>5. NothingInvented'
  <2> SUFFICES ASSUME NEW f \in Ends, NEW m \in net'[f]
               PROVE  Words(m) \subseteq said'[Peer[f]]
    BY DEF NothingInvented
  <2>1. Peer[f] \in Ends
    BY NetAssumption DEF NetAssumption
  <2>2. CASE m \in net[f]
    BY <2>1, <2>2 DEF Inv, NothingInvented
  <2> QED
    BY <2>2
<1>6. DeadIsIdle'
  BY <1>1 DEF Inv, DeadIsIdle, Live, State
<1> QED
  BY <1>2, <1>3, <1>4, <1>5, <1>6 DEF Inv

LEMMA SendInv ==
    ASSUME Inv, NEW e \in Ends, NEW code \in Codes \ {"OK"}, Send(e, code),
           dialog[e].live,
           code \notin Establishing \cup {"BYE"} => State(e) = "CONNECTED",
           \/ story' = story /\ code # "BYE"
           \/ story' = [story EXCEPT ![e] = @ \cup {"byed"}]
    PROVE  Inv'
<1>1. dialog[e] \in Dialogs /\ Peer[e] \in Ends /\ Peer[e] # e /\ Peer[Peer[e]] = e
  BY NetAssumption DEF NetAssumption, Inv, TypeOK
<1> DEFINE d == Sent(dialog[e], code)
<1>2. d \in Dialogs /\ d.live /\ d.state = StateSend(State(e), code) /\ d.sent = 0
  BY <1>1, SentType DEF State
<1>3. Set(e, d)
  BY DEF Send
<1>4. net' = [net EXCEPT ![Peer[e]] = Put(Peer[e], @, code)] /\ Say(e, code)
  BY DEF Send
<1>5. code \in Codes
  BY DEF Codes
<1>6. /\ said' \in [Ends -> SUBSET {"open", "close", "ok"}]
      /\ \A f \in Ends : said[f] \subseteq said'[f]
      /\ Words(code) \subseteq said'[e]
  BY <1>4 DEF Say, Words, Inv, TypeOK
<1>7. /\ net' \in [Ends -> SUBSET Codes]
      /\ \A f \in Ends : net'[f] \subseteq net[f] \cup (IF f = Peer[e] THEN {code} ELSE {})
  <2>1. Put(Peer[e], net[Peer[e]], code) \subseteq net[Peer[e]] \cup {code}
    BY PutType
  <2> QED
    BY <1>1, <1>4, <1>5, <2>1 DEF Inv, TypeOK
<1>8. \A f \in Ends : \A m \in net'[f] :
         m \in net[f] \/ Words(m) \subseteq said'[Peer[f]]
  BY <1>1, <1>5, <1>6, <1>7
<1>9. /\ story' \in [Ends -> SUBSET {"answered", "byed"}]
      /\ \A f \in Ends \ {e} : story'[f] = story[f]
      /\ story[e] \subseteq story'[e]
      /\ code = "BYE" => "byed" \in story'[e]
  BY DEF Inv, TypeOK
<1>10. /\ d.state = "DISCONNECTING" => "byed" \in story'[e]
       /\ d.state = "CONNECTED" /\ "answered" \notin story'[e] => "byed" \in story'[e]
  BY <1>2, <1>9 DEF StateSend, Establishing, Invitations, Inv, ByeRemembered
<1>11. d.sent # Never
  BY <1>2 DEF Never
<1> HIDE DEF d
<1> QED
  BY <1>2, <1>3, <1>6, <1>7, <1>8, <1>9, <1>10, <1>11, OwnStep

\* Receiving a datagram on a dialog d that satisfies the invariant keeps it.
LEMMA ProcessInv ==
    ASSUME Inv, NEW e \in Ends, NEW d \in Dialogs, NEW m \in net[e],
           Process(e, d, m), d.live,
           d.state \in {"CONNECTING", "DISCONNECTING"} => d.sent # Never,
           story' \in [Ends -> SUBSET {"answered", "byed"}],
           \A f \in Ends \ {e} : story'[f] = story[f],
           "answered" \in story'[e],
           d.state = "DISCONNECTING" => "byed" \in story'[e]
    PROVE  Inv'
<1>1. PICK r \in Dialogs : Outcome(e, d, r, m)
  BY ProcessOutcome DEF Inv
<1>2. /\ OnlyAcksAdded(e, m)
      /\ said' \in [Ends -> SUBSET {"open", "close", "ok"}]
      /\ \A f \in Ends : said[f] \subseteq said'[f]
  BY ProcessOutcome DEF Inv
<1>3. Set(e, r) /\ r.live /\ d.state \in States
  BY <1>1 DEF Outcome, Dialogs
<1>4. /\ r.state \in {"CONNECTING", "DISCONNECTING"} => r.sent # Never
      /\ r.state = "DISCONNECTING" => d.state = "DISCONNECTING"
  BY <1>1, <1>3 DEF Outcome, Nothing, Refused, Confirmed, Followed,
                    StateNak, StateAck, StateReceive, States
<1>5. \A f \in Ends : \A n \in net'[f] :
         n \in net[f] \/ Words(n) \subseteq said'[Peer[f]]
  BY <1>2, NetAssumption
     DEF NetAssumption, OnlyAcksAdded, Words, Establishing, Invitations
<1> QED
  BY <1>2, <1>3, <1>4, <1>5, OwnStep DEF OnlyAcksAdded

LEMMA NextInv == Inv /\ [Next]_vars => Inv'
<1> SUFFICES ASSUME Inv, [Next]_vars PROVE Inv'
  OBVIOUS
<1>1. CASE UNCHANGED vars
  BY <1>1 DEF vars, Inv, TypeOK, WaitIsArmed, ByeRemembered, NothingInvented,
              DeadIsIdle, Awaiting, State, Live
<1>2. CASE Tick
  <2>1. \A e \in Ends : dialog[e] \in Dialogs
    BY DEF Inv, TypeOK
  <2>2. \A e \in Ends : /\ dialog'[e] \in Dialogs
                        /\ dialog'[e].live = dialog[e].live
                        /\ dialog'[e].state = dialog[e].state
                        /\ dialog[e].sent # Never => dialog'[e].sent # Never
    <3> SUFFICES ASSUME NEW e \in Ends
                 PROVE  /\ dialog'[e] \in Dialogs
                        /\ dialog'[e].live = dialog[e].live
                        /\ dialog'[e].state = dialog[e].state
                        /\ dialog[e].sent # Never => dialog'[e].sent # Never
      OBVIOUS
    <3>1. CASE ~ Live(e)
      BY <1>2, <2>1, <3>1 DEF Tick
    <3>2. CASE Live(e)
      <4>1. PICK a : a = Aged(dialog[e])
        OBVIOUS
      <4>2. /\ a \in Dialogs /\ a.live = dialog[e].live /\ a.state = dialog[e].state
            /\ dialog[e].sent # Never => a.sent # Never
        BY <2>1, <4>1, AgedType DEF Never, Dialogs
      <4>3. dialog'[e] = [a EXCEPT !.idle = 0] /\ 0 \in -1 .. IdleMax
        BY <1>2, <3>2, <4>1, TimeAssumption DEF TimeAssumption, Tick
      <4> QED
        BY <4>2, <4>3 DEF Dialogs
    <3> QED
      BY <3>1, <3>2
  <2>3. dialog' = [e \in Ends |-> dialog'[e]] /\ UNCHANGED <<net, story, said>>
    BY <1>2 DEF Tick
  <2> QED
    BY <2>2, <2>3 DEF Inv, TypeOK, WaitIsArmed, ByeRemembered, NothingInvented,
                      DeadIsIdle, Awaiting, State, Live
<1>3. ASSUME NEW e \in Ends, Connect(e) PROVE Inv'
  <2>1. PICK sent \in Never .. SentMax : Set(e, Fresh(sent, 0))
    BY <1>3 DEF Connect
  <2>2. PICK d : d = Fresh(sent, 0)
    OBVIOUS
  <2>3. d \in Dialogs /\ d.state = "DISCONNECTED" /\ d.live
    BY <2>2, FreshType
  <2> QED
    BY <1>3, <2>1, <2>2, <2>3, OwnStep DEF Connect, Inv, TypeOK
<1>4. ASSUME NEW e \in Ends, Invite(e) PROVE Inv'
  BY <1>4, SendInv, NetAssumption
     DEF NetAssumption, Invite, Live, Codes, Establishing, Invitations
<1>5. ASSUME NEW e \in Ends, InCall(e) PROVE Inv'
  BY <1>5, SendInv, NetAssumption
     DEF NetAssumption, InCall, Live, Codes, Establishing, Invitations
<1>6. ASSUME NEW e \in Ends, Bye(e) PROVE Inv'
  BY <1>6, SendInv DEF Bye, MayBye, Codes, Establishing
<1>7. ASSUME NEW e \in Ends, Abandon(e) PROVE Inv'
  <2>1. PICK d : d = [dialog[e] EXCEPT !.state = "DISCONNECTED"]
    OBVIOUS
  <2>2. d \in Dialogs /\ d.state = "DISCONNECTED" /\ Set(e, d)
    BY <1>7, <2>1 DEF Abandon, Inv, TypeOK, Dialogs, States
  <2> QED
    BY <1>7, <2>2, OwnStep DEF Abandon, Inv, TypeOK, NothingInvented
<1>8. ASSUME NEW e \in Ends, CheckAck(e) PROVE Inv'
  <2>1. PICK d : d = AckChecked(dialog[e])
    OBVIOUS
  <2>2. dialog[e] \in Dialogs /\ Set(e, d)
    BY <1>8, <2>1 DEF CheckAck, Inv, TypeOK
  <2>3. /\ d \in Dialogs /\ d.live
        /\ \/ d.state = State(e) /\ d.sent = dialog[e].sent
           \/ d.state = StateNak(State(e))
    BY <1>8, <2>1, <2>2, AckCheckedType DEF CheckAck, Live, State
  <2>4. /\ d.state \in {"CONNECTING", "DISCONNECTING"} => d.sent # Never
        /\ d.state = "DISCONNECTING" => "byed" \in story[e]
        /\ d.state = "CONNECTED" /\ "answered" \notin story[e] => "byed" \in story[e]
    BY <1>8, <2>2, <2>3
       DEF StateNak, Inv, WaitIsArmed, ByeRemembered, Awaiting, State, Dialogs, States
  <2> QED
    BY <1>8, <2>2, <2>3, <2>4, OwnStep DEF CheckAck, Inv, TypeOK, NothingInvented
<1>9. ASSUME NEW e \in Ends, Destroy(e) PROVE Inv'
  <2>1. PICK d : d = Destroyed(dialog[e])
    OBVIOUS
  <2>2. /\ d \in Dialogs /\ d.state = "DISCONNECTED"
        /\ Set(e, d)
    BY <1>9, <2>1 DEF Destroy, Destroyed, Inv, TypeOK, Dialogs, State
  <2> QED
    BY <1>9, <2>2, OwnStep DEF Destroy, Inv, TypeOK, NothingInvented
<1>10. ASSUME NEW e \in Ends, Receive(e) PROVE Inv'
  <2>1. PICK m \in net[e] :
           /\ Process(e, dialog[e], m)
           /\ story' = [story EXCEPT ![e] = @ \cup {"answered"}]
    BY <1>10 DEF Receive
  <2>2. /\ story' \in [Ends -> SUBSET {"answered", "byed"}]
        /\ \A f \in Ends \ {e} : story'[f] = story[f]
        /\ "answered" \in story'[e] /\ story[e] \subseteq story'[e]
    BY <2>1 DEF Inv, TypeOK
  <2>3. /\ dialog[e] \in Dialogs /\ dialog[e].live
        /\ dialog[e].state \in {"CONNECTING", "DISCONNECTING"} => dialog[e].sent # Never
        /\ dialog[e].state = "DISCONNECTING" => "byed" \in story'[e]
    BY <1>10, <2>2 DEF Receive, Live, Inv, TypeOK, WaitIsArmed, ByeRemembered,
                       Awaiting, State
  <2> QED
    BY <2>1, <2>2, <2>3, ProcessInv
<1>11. ASSUME NEW e \in Ends, ReceiveFirst(e) PROVE Inv'
  <2>1. PICK m \in net[e], sent \in Never .. SentMax : Process(e, Fresh(sent, 0), m)
    BY <1>11 DEF ReceiveFirst
  <2>2. /\ story' \in [Ends -> SUBSET {"answered", "byed"}]
        /\ \A f \in Ends \ {e} : story'[f] = story[f]
        /\ "answered" \in story'[e]
    BY <1>11 DEF ReceiveFirst, Inv, TypeOK
  <2> QED
    BY <2>1, <2>2, FreshType, ProcessInv
<1>12. ASSUME NEW e \in Ends, Lose(e) PROVE Inv'
  <2>1. UNCHANGED <<dialog, story, said>>
    BY <1>12 DEF Lose
  <2>2. \A f \in Ends : net'[f] \in SUBSET net[f]
    BY <1>12 DEF Lose, Inv, TypeOK
  <2>3. net' \in [Ends -> SUBSET Codes]
    BY <1>12 DEF Lose, Inv, TypeOK
  <2>4. TypeOK' /\ WaitIsArmed' /\ ByeRemembered' /\ DeadIsIdle'
    BY <2>1, <2>3 DEF Inv, TypeOK, WaitIsArmed, ByeRemembered, DeadIsIdle,
                      Awaiting, State, Live
  <2>5. NothingInvented'
    BY <2>1, <2>2 DEF Inv, NothingInvented
  <2> QED
    BY <2>4, <2>5 DEF Inv
<1> QED
  BY <1>1, <1>2, <1>3, <1>4, <1>5, <1>6, <1>7, <1>8, <1>9, <1>10, <1>11, <1>12
     DEF Next

LEMMA Invariance == Spec => []Inv
<1> QED
  BY InitInv, NextInv, PTL DEF Spec

\* Dialogs, datagrams and histories always have the values DialogNet declares.
THEOREM TypeCorrect == Spec => []TypeOK
<1>1. Inv => TypeOK
  BY DEF Inv
<1> QED
  BY <1>1, Invariance, PTL

\* A dialog that waits for an ACK always has its timer armed, so that
\* LeelenDialog_ack_timeout can end the wait.
THEOREM AlwaysArmed == Spec => []WaitIsArmed
<1>1. Inv => WaitIsArmed
  BY DEF Inv
<1> QED
  BY <1>1, Invariance, PTL

\* No dialog is CONNECTED to a peer that never said a word, unless it has sent
\* a BYE that was not answered.
THEOREM NeverConnectedToSilence == Spec => []SilentPeerOnlyAfterBye
<1>1. Inv => SilentPeerOnlyAfterBye
  BY DEF Inv, ByeRemembered, SilentPeerOnlyAfterBye
<1> QED
  BY <1>1, Invariance, PTL

---------------------------------------------------------------------------
(* Every end is a call leg. *)

\* What a step that sets the dialog of e to d does to the leg of e.
LEMMA LegStep ==
    ASSUME Inv, NEW e \in Ends, NEW d \in Dialogs, Set(e, d)
    PROVE  /\ (d.state \in {"CONNECTING", "DISCONNECTING"} => d.sent = 0)
                 => Leg!To(e, Phase(d.state))
           /\ Phase(d.state) = LegPhase[e] /\ d.sent = dialog[e].sent
                 => UNCHANGED <<LegPhase, LegWait>>
           /\ d.state = State(e) /\ ~ Awaiting(e) => UNCHANGED <<LegPhase, LegWait>>
<1>1. /\ \A f \in Ends \ {e} : dialog'[f] = dialog[f]
      /\ dialog'[e].state = d.state
      /\ dialog'[e].sent = d.sent
      /\ State(e) \in States /\ d.state \in States
  BY SetType DEF Inv, TypeOK, State, Dialogs
<1>2. \A f \in Ends \ {e} : State(f)' = State(f) /\ (Awaiting(f)' <=> Awaiting(f))
  BY <1>1 DEF State, Awaiting
<1>3. State(e)' = d.state /\ (Awaiting(e)' <=> d.state \in {"CONNECTING", "DISCONNECTING"})
  BY <1>1 DEF State, Awaiting
<1>4. Phase(d.state) = LegPhase[e] => d.state = State(e)
  BY <1>1 DEF LegPhase, Phase, States
<1>5. ASSUME d.state \in {"CONNECTING", "DISCONNECTING"} => d.sent = 0
      PROVE  Leg!To(e, Phase(d.state))
  <2>1. LegPhase' = [LegPhase EXCEPT ![e] = Phase(d.state)]
    BY <1>2, <1>3 DEF LegPhase
  <2>2. LegWait' = [LegWait EXCEPT ![e] = 0]
    BY <1>1, <1>2, <1>3, <1>5 DEF LegWait
  <2> QED
    BY <2>1, <2>2 DEF Leg!To
<1>6. ASSUME d.state = State(e), d.sent = dialog[e].sent \/ ~ Awaiting(e)
      PROVE  UNCHANGED <<LegPhase, LegWait>>
  <2>1. LegPhase' = LegPhase
    BY <1>2, <1>3, <1>6 DEF LegPhase
  <2>2. LegWait' = LegWait
    BY <1>1, <1>2, <1>3, <1>6 DEF LegWait, Awaiting
  <2> QED
    BY <2>1, <2>2
<1> QED
  BY <1>4, <1>5, <1>6

LEMMA SendLeg ==
    ASSUME Inv, NEW e \in Ends, NEW code \in Codes \ {"OK"}, Send(e, code)
    PROVE  /\ code \in Establishing =>
                 Leg!To(e, "Opening") /\ Leg!Say(e, "open")
           /\ code = "BYE" =>
                 Leg!To(e, "Closing") /\ Leg!Say(e, "close")
           /\ code = "OPEN_GATE" /\ ~ Awaiting(e) =>
                 UNCHANGED <<LegPhase, LegWait, said>>
<1>1. PICK d : d = Sent(dialog[e], code)
  OBVIOUS
<1>2. /\ d \in Dialogs /\ d.state = StateSend(State(e), code) /\ d.sent = 0
      /\ Set(e, d)
  BY <1>1, SentType DEF Send, State, Inv, TypeOK
<1>3. said' = [said EXCEPT ![e] = @ \cup Words(code)]
  BY DEF Send, Say
<1>4. CASE code \in Establishing
  BY <1>2, <1>3, <1>4, LegStep
     DEF StateSend, Phase, Words, Leg!Say, Establishing, Invitations
<1>5. CASE code = "BYE"
  BY <1>2, <1>3, <1>5, LegStep
     DEF StateSend, Phase, Words, Leg!Say, Establishing, Invitations
<1>6. CASE code = "OPEN_GATE"
  <2>1. d.state = State(e)
    BY <1>2, <1>6 DEF StateSend, Establishing, Invitations
  <2>2. said' = said
    BY <1>3, <1>6 DEF Words, Establishing, Invitations, Inv, TypeOK
  <2> QED
    BY <1>2, <1>6, <2>1, <2>2, LegStep DEF Establishing, Invitations
<1> QED
  BY <1>4, <1>5, <1>6 DEF Codes

LEMMA ProcessLeg ==
    ASSUME Inv, NEW e \in Ends, NEW d \in Dialogs, NEW m \in net[e],
           Process(e, d, m), d.state = State(e),
           Awaiting(e) => d.sent = dialog[e].sent
    PROVE  Leg!LegNext \/ UNCHANGED <<LegPhase, LegWait, said>>
<1>1. PICK r \in Dialogs : Outcome(e, d, r, m)
  BY ProcessOutcome DEF Inv
<1>2. /\ Set(e, r)
      /\ LegPhase[e] = Phase(State(e))
      /\ Awaiting(e) => LegWait[e] = dialog[e].sent
      /\ State(e) \in States
      /\ m \in Codes
      /\ Words(m) \subseteq said[Peer[e]]
  BY <1>1 DEF Outcome, LegPhase, LegWait, Dialogs, Inv, TypeOK, NothingInvented
<1>3. CASE Nothing(d, r)
  BY <1>2, <1>3, LegStep DEF Nothing
<1>4. CASE Refused(d, r, m)
  <2>1. CASE State(e) = "CONNECTING"
    <3>1. r.state = "DISCONNECTED" /\ said' = said
      BY <1>4, <2>1 DEF Refused, StateNak
    <3>2. Leg!To(e, "Idle")
      BY <1>2, <3>1, LegStep DEF Phase
    <3>3. LegPhase[e] = "Opening" /\ LegWait[e] >= AckTimeout
      BY <1>2, <1>4, <2>1 DEF Phase, Awaiting, Refused
    <3> QED
      BY <3>1, <3>2, <3>3 DEF Leg!Refuse, Leg!LegNext
  <2>2. CASE State(e) = "DISCONNECTING"
    <3>1. r.state = "CONNECTED" /\ said' = said
      BY <1>4, <2>2 DEF Refused, StateNak
    <3>2. Leg!To(e, "Open")
      BY <1>2, <3>1, LegStep DEF Phase
    <3>3. LegPhase[e] = "Closing" /\ LegWait[e] >= AckTimeout
      BY <1>2, <1>4, <2>2 DEF Phase, Awaiting, Refused
    <3> QED
      BY <3>1, <3>2, <3>3 DEF Leg!Refuse, Leg!LegNext
  <2>3. CASE ~ Awaiting(e)
    BY <1>2, <1>4, <2>3, LegStep DEF Refused, StateNak, Awaiting
  <2> QED
    BY <2>1, <2>2, <2>3 DEF Awaiting
<1>5. CASE Confirmed(d, r, m)
  <2>0. Leg!Told(e, "ok") /\ said' = said
    BY <1>2, <1>5 DEF Confirmed, Words, Leg!Told, Establishing, Invitations
  <2>1. CASE State(e) = "CONNECTING"
    <3>1. r.state = "CONNECTED" /\ LegPhase[e] = "Opening"
      BY <1>2, <1>5, <2>1 DEF Confirmed, StateAck, Phase
    <3>2. Leg!To(e, "Open")
      BY <1>2, <3>1, LegStep DEF Phase
    <3> QED
      BY <2>0, <3>1, <3>2 DEF Leg!Confirm, Leg!LegNext
  <2>2. CASE State(e) = "DISCONNECTING"
    <3>1. r.state = "DISCONNECTED" /\ LegPhase[e] = "Closing"
      BY <1>2, <1>5, <2>2 DEF Confirmed, StateAck, Phase
    <3>2. Leg!To(e, "Idle")
      BY <1>2, <3>1, LegStep DEF Phase
    <3> QED
      BY <2>0, <3>1, <3>2 DEF Leg!Confirm, Leg!LegNext
  <2>3. CASE ~ Awaiting(e)
    BY <1>2, <1>5, <2>3, LegStep DEF Confirmed, StateAck, Awaiting
  <2> QED
    BY <2>1, <2>2, <2>3 DEF Awaiting
<1>6. CASE Followed(e, d, r, m)
  <2>0. Leg!Say(e, "ok")
    BY <1>6 DEF Followed, Say, Words, Leg!Say, Establishing, Invitations
  <2>1. CASE m \in Establishing
    <3>1. r.state = "CONNECTED" /\ Leg!Told(e, "open")
      BY <1>2, <1>6, <2>1 DEF Followed, StateReceive, Words, Leg!Told
    <3>2. Leg!To(e, "Open")
      BY <1>2, <3>1, LegStep DEF Phase
    <3> QED
      BY <2>0, <3>1, <3>2 DEF Leg!Follow, Leg!LegNext
  <2>2. CASE m = "BYE"
    <3>1. r.state = "DISCONNECTED" /\ Leg!Told(e, "close")
      BY <1>2, <1>6, <2>2
         DEF Followed, StateReceive, Words, Leg!Told, Establishing, Invitations
    <3>2. Leg!To(e, "Idle")
      BY <1>2, <3>1, LegStep DEF Phase
    <3> QED
      BY <2>0, <3>1, <3>2 DEF Leg!Follow, Leg!LegNext
  <2>3. CASE m = "OPEN_GATE"
    <3>1. r.state = State(e) /\ r.sent = d.sent
      BY <1>6, <2>3 DEF Followed, StateReceive, Establishing, Invitations
    <3>2. UNCHANGED <<LegPhase, LegWait>>
      BY <1>2, <3>1, LegStep
    <3> QED
      BY <2>0, <3>2 DEF Leg!Nod, Leg!LegNext
  <2> QED
    BY <1>2, <1>6, <2>1, <2>2, <2>3 DEF Followed, Codes
<1> QED
  BY <1>1, <1>3, <1>4, <1>5, <1>6 DEF Outcome

LEMMA NextLeg == Inv /\ [Next]_vars => [Leg!LegNext]_<<LegPhase, LegWait, said>>
<1> SUFFICES ASSUME Inv, [Next]_vars
             PROVE  Leg!LegNext \/ UNCHANGED <<LegPhase, LegWait, said>>
  OBVIOUS
<1> USE DEF Leg!LegNext
<1>0. \A e \in Ends : /\ dialog[e] \in Dialogs
                      /\ State(e) \in States
                      /\ LegPhase[e] = Phase(State(e))
                      /\ Awaiting(e) => LegWait[e] = dialog[e].sent
  BY DEF Inv, TypeOK, LegPhase, LegWait, State, Dialogs
<1>1. CASE UNCHANGED vars
  BY <1>1 DEF vars, LegPhase, LegWait, State, Awaiting
<1>2. CASE Tick
  <2>1. \A e \in Ends :
           /\ State(e)' = State(e)
           /\ dialog'[e].sent = IF Live(e) THEN Aged(dialog[e]).sent ELSE dialog[e].sent
    <3> SUFFICES ASSUME NEW e \in Ends
                 PROVE  /\ State(e)' = State(e)
                        /\ dialog'[e].sent = IF Live(e) THEN Aged(dialog[e]).sent
                                                        ELSE dialog[e].sent
      OBVIOUS
    <3>1. PICK a : a = Aged(dialog[e])
      OBVIOUS
    <3>2. a \in Dialogs /\ a.state = State(e)
      BY <1>0, <3>1, AgedType DEF State
    <3>3. dialog'[e] = IF Live(e) THEN [a EXCEPT !.idle = 0] ELSE dialog[e]
      BY <1>2, <3>1 DEF Tick
    <3> QED
      BY <3>1, <3>2, <3>3 DEF Dialogs, State
  <2>2. LegPhase' = LegPhase /\ said' = said
    BY <1>2, <2>1 DEF LegPhase, Tick
  <2>3. ASSUME NEW e \in Ends, Awaiting(e)
        PROVE  LegWait'[e] = IF LegWait[e] < SentMax THEN LegWait[e] + 1 ELSE LegWait[e]
    <3>1. Live(e) /\ dialog[e].sent # Never /\ dialog[e].sent \in Never .. SentMax
      BY <1>0, <2>3 DEF Inv, WaitIsArmed, DeadIsIdle, Awaiting, Dialogs
    <3>2. dialog'[e].sent = IF dialog[e].sent = SentMax
                            THEN dialog[e].sent ELSE dialog[e].sent + 1
      BY <1>0, <2>1, <3>1, AgedType
    <3>3. LegWait'[e] = dialog'[e].sent /\ LegWait[e] = dialog[e].sent
      BY <2>1, <2>3 DEF LegWait, Awaiting
    <3> QED
      BY <3>1, <3>2, <3>3, TimeAssumption DEF TimeAssumption, Never
  <2>4. ASSUME NEW e \in Ends, ~ Awaiting(e)
        PROVE  LegWait'[e] = LegWait[e]
    BY <2>1, <2>4 DEF LegWait, Awaiting
  <2>5. \A e \in Ends : Leg!Waiting(e) <=> Awaiting(e)
    BY <1>0 DEF Leg!Waiting, Awaiting, Phase, States
  <2>6. LegWait' = [e \in Ends |-> LegWait'[e]]
    BY DEF LegWait
  <2>7. LegWait' = [e \in Ends |-> IF Leg!Waiting(e) /\ LegWait[e] < SentMax
                                   THEN LegWait[e] + 1 ELSE LegWait[e]]
    BY <2>3, <2>4, <2>5, <2>6
  <2>8. Leg!LegTick
    BY <2>2, <2>7 DEF Leg!LegTick
  <2> QED
    BY <2>8
<1>3. ASSUME NEW e \in Ends, Connect(e)
      PROVE  UNCHANGED <<LegPhase, LegWait, said>>
  <2>1. PICK sent \in Never .. SentMax : Set(e, Fresh(sent, 0))
    BY <1>3 DEF Connect
  <2>2. PICK d : d = Fresh(sent, 0)
    OBVIOUS
  <2>3. d \in Dialogs /\ d.state = State(e) /\ ~ Awaiting(e)
    BY <1>3, <2>2, FreshType DEF Connect, Inv, DeadIsIdle, Awaiting
  <2> QED
    BY <1>3, <2>1, <2>2, <2>3, LegStep DEF Connect
<1>4. ASSUME NEW e \in Ends, Invite(e) PROVE Leg!Open(e)
  BY <1>0, <1>4, SendLeg, NetAssumption
     DEF NetAssumption, Invite, Codes, Establishing, Invitations, Leg!Open, Phase
<1>5. ASSUME NEW e \in Ends, InCall(e)
      PROVE  Leg!Open(e) \/ UNCHANGED <<LegPhase, LegWait, said>>
  <2>1. PICK code \in InCallCodes : Send(e, code)
    BY <1>5 DEF InCall
  <2>2. code \in {"ACCEPTED", "OPEN_GATE"} /\ LegPhase[e] = "Open" /\ ~ Awaiting(e)
    BY <1>0, <1>5, NetAssumption DEF NetAssumption, InCall, Phase, Awaiting
  <2> QED
    BY <2>1, <2>2, SendLeg DEF Codes, Establishing, Leg!Open
<1>6. ASSUME NEW e \in Ends, Bye(e) PROVE Leg!Close(e)
  BY <1>0, <1>6, SendLeg DEF Bye, MayBye, State, States, Codes, Establishing, Leg!Close, Phase
<1>7. ASSUME NEW e \in Ends, Abandon(e) PROVE Leg!Drop(e)
  <2>1. PICK d : d = [dialog[e] EXCEPT !.state = "DISCONNECTED"]
    OBVIOUS
  <2>2. d \in Dialogs /\ d.state = "DISCONNECTED" /\ Set(e, d)
    BY <1>7, <2>1 DEF Abandon, Inv, TypeOK, Dialogs, States
  <2>3. Leg!To(e, "Idle")
    BY <2>2, LegStep DEF Phase
  <2> QED
    BY <1>0, <1>7, <2>3 DEF Abandon, MayBye, State, States, Phase, Leg!Drop
<1>8. ASSUME NEW e \in Ends, CheckAck(e)
      PROVE  Leg!Refuse(e) \/ UNCHANGED <<LegPhase, LegWait, said>>
  <2>1. PICK d : d = AckChecked(dialog[e])
    OBVIOUS
  <2>2. d \in Dialogs /\ Set(e, d) /\ said' = said
    BY <1>0, <1>8, <2>1, AckCheckedType DEF CheckAck
  <2>3. d = dialog[e] \/ (d.state = StateNak(State(e)) /\ dialog[e].sent >= AckTimeout)
    BY <1>0, <2>1, AckCheckedType DEF State
  <2>4. CASE d = dialog[e] \/ ~ Awaiting(e)
    <3>1. d.state = State(e)
      BY <2>3, <2>4 DEF StateNak, Awaiting, State
    <3> QED
      BY <1>0, <2>2, <2>4, <3>1, LegStep
  <2>5. CASE d # dialog[e] /\ State(e) = "CONNECTING"
    BY <1>0, <2>2, <2>3, <2>5, LegStep DEF StateNak, Phase, Awaiting, Leg!Refuse
  <2>6. CASE d # dialog[e] /\ State(e) = "DISCONNECTING"
    BY <1>0, <2>2, <2>3, <2>6, LegStep DEF StateNak, Phase, Awaiting, Leg!Refuse
  <2> QED
    BY <2>4, <2>5, <2>6 DEF Awaiting
<1>9. ASSUME NEW e \in Ends, Destroy(e)
      PROVE  UNCHANGED <<LegPhase, LegWait, said>>
  <2>1. PICK d : d = Destroyed(dialog[e])
    OBVIOUS
  <2>2. d \in Dialogs /\ Set(e, d) /\ d.state = State(e) /\ d.sent = dialog[e].sent
    BY <1>0, <1>9, <2>1 DEF Destroy, Destroyed, Dialogs, State
  <2> QED
    BY <1>0, <1>9, <2>2, LegStep DEF Destroy
<1>10. ASSUME NEW e \in Ends, Receive(e)
       PROVE  Leg!LegNext \/ UNCHANGED <<LegPhase, LegWait, said>>
  BY <1>0, <1>10, ProcessLeg DEF Receive, State
<1>11. ASSUME NEW e \in Ends, ReceiveFirst(e)
       PROVE  Leg!LegNext \/ UNCHANGED <<LegPhase, LegWait, said>>
  <2>1. PICK m \in net[e], sent \in Never .. SentMax : Process(e, Fresh(sent, 0), m)
    BY <1>11 DEF ReceiveFirst
  <2>2. State(e) = "DISCONNECTED" /\ ~ Awaiting(e)
    BY <1>11 DEF ReceiveFirst, Inv, DeadIsIdle, Awaiting
  <2> QED
    BY <2>1, <2>2, FreshType, ProcessLeg
<1>12. ASSUME NEW e \in Ends, Lose(e)
       PROVE  UNCHANGED <<LegPhase, LegWait, said>>
  BY <1>12 DEF Lose, LegPhase, LegWait, State, Awaiting
<1> QED
  BY <1>1, <1>2, <1>3, <1>4, <1>5, <1>6, <1>7, <1>8, <1>9, <1>10, <1>11, <1>12
     DEF Next

\* A dialog implements a call leg: whatever the network loses, repeats or
\* reorders, dialog.c takes no step that CallLeg does not allow.
THEOREM DialogIsCallLeg == Spec => ImplementsCallLeg
<1>1. Init => Leg!LegInit
  BY DEF Init, Leg!LegInit, LegPhase, LegWait, State, Awaiting, NoDialog, Phase
<1> QED
  BY <1>1, NextLeg, Invariance, PTL
     DEF Spec, ImplementsCallLeg, Leg!LegSpec, Leg!legVars

===========================================================================
