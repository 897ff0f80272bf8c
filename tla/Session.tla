------------------------------ MODULE Session ------------------------------
(***************************************************************************)
(* The bridge: one SIPLeelenSession from its creation to its end, with the *)
(* three things that hold a reference to it, the array SIPLeelen.sessions, *)
(* the SIP transactions whose reserved1 points to it and the INVITE worker *)
(* threads.  sipleelen/sipleelen.c, uas.c, uac.c, session.c, transaction.c.*)
(*                                                                         *)
(* The thread of SIPLeelen_mainloop handles one packet, or makes one sweep *)
(* over the timers, at a time; each is one action.  The INVITE worker runs *)
(* beside it, in steps.  libosip2 is external: a transaction is created,   *)
(* answered, and killed some time after its final answer (timers H, I, J   *)
(* and K); at once, if it is an INVITE that was accepted, and if a message *)
(* of it cannot be sent, the first time or when it is repeated.  Its       *)
(* memory stays: nobody frees a transaction that was killed.               *)
(*                                                                         *)
(* A tick is the time between two sweeps (800 ms), in which the wait for a *)
(* LEELEN ACK (500 ms) is over.                                            *)
(***************************************************************************)
EXTENDS LeelenDialog, FiniteSets

CONSTANTS
    Slots,       \* transactions that can be attached at a time, numbered
    Linger,      \* ticks before libosip2 may kill an answered transaction ...
    LingerMax,   \* ... and before it does
    RetryAge,    \* a client repeats an INVITE at most so long after the answer
    Garbage,     \* what malloc() may leave in a dialog: records of Dialogs
    Faults,      \* what may fail, a subset of AllFaults
    MaxTraffic   \* bound: SIP requests and LEELEN messages in a behaviour

AllFaults == {"execute",  \* osip_transaction_execute
              "thread",   \* thrd_create
              "send",     \* sendto() of a LEELEN message
              "sip",      \* _SIPLeelen_send, of a SIP message
              "bye",      \* sendto() of the LEELEN BYE of a session timeout
              "parse",    \* the body of a LEELEN message
              "socket",   \* SIPLeelenSession_connect
              "oom"}      \* a session, or building a SIP message

ASSUME SessionAssumption ==
    /\ Slots \subseteq Nat \ {0} /\ IsFiniteSet(Slots)
    /\ Linger \in Nat /\ RetryAge \in Nat /\ Linger > RetryAge + AckTimeout
    /\ LingerMax \in Nat /\ LingerMax >= Linger
    /\ Garbage \subseteq Dialogs /\ \A d \in Garbage : ~ d.live
    /\ Faults \subseteq AllFaults /\ MaxTraffic \in Nat

VARIABLES
    ses,         \* the session, and the transactions attached to it
    worker,      \* where the INVITE worker is
    job,         \* the transaction it works for
    leaving,     \* workers after single_finish that still hold a reference
    registered,  \* whether a SIP client has registered
    swept,       \* whether the timers were swept in this tick
    traffic      \* packets so far

vars == <<ses, worker, job, leaving, registered, swept, traffic>>

Null == 0
NoTr == [kind |-> "none", state |-> "done", good |-> FALSE, age |-> 0]
Trs == [kind : {"IST", "NIST", "NICT"},
        state : {"proceeding", "cancelled", "completed"},
        good : BOOLEAN,      \* an INVITE with SDP and a number
        age : 0 .. LingerMax]   \* since its final answer

Sessions ==
    [alloc : {"none", "live", "freed", "crashed"},
     listed : BOOLEAN, sip : BOOLEAN,
     refs : Nat \ {0},
     cur : Slots \cup {Null},
     lost : BOOLEAN,      \* history: a message of a transaction was not sent
     dlg : Dialogs,
     tr : [Slots -> Trs \cup {NoTr}]]

TypeOK ==
    /\ ses \in Sessions
    /\ worker \in {"none", "discover", "prepare", "call", "reply", "finish"}
    /\ job \in Slots \cup {Null}
    /\ leaving \in Nat
    /\ registered \in BOOLEAN /\ swept \in BOOLEAN
    /\ traffic \in 0 .. MaxTraffic

Init ==
    /\ \E d \in Garbage :
          ses = [alloc |-> "none", listed |-> FALSE, sip |-> FALSE, refs |-> 1,
                 cur |-> Null, lost |-> FALSE, dlg |-> d, tr |-> [t \in Slots |-> NoTr]]
    /\ worker = "none" /\ job = Null /\ leaving = 0
    /\ registered \in BOOLEAN
    /\ swept = FALSE /\ traffic = 0

---------------------------------------------------------------------------
(* The functions on a session s.  What may fail is a BOOLEAN parameter.    *)

Ok(fault) == IF fault \in Faults THEN BOOLEAN ELSE {TRUE}

\* What the functions without state of interest may return, TRUE for success.
LeelenMessage_init == Ok("parse")
SIPLeelenSession_connect == Ok("socket")
encode_media_formats == Ok("oom")
extract_media_formats == Ok("oom")
osip_message_response == Ok("oom")
osip_message_request == Ok("oom")

\* single_still_running(invite_state); a worker lowers it in single_finish.
Running == worker # "none"

Attached(s) == {t \in Slots : s.tr[t].kind # "none"}

\* A transaction that was killed keeps its memory while somebody points to it.
Free(s) == Slots \ (Attached(s) \cup {s.cur, job})
NextSlot(s) == CHOOSE t \in Free(s) : TRUE

Unanswered(s, t) == s.alloc = "live" /\ s.tr[t].state \in {"proceeding", "cancelled"}
Pending(s, t) == s.tr[t].kind = "IST" /\ Unanswered(s, t)

\* tr->ctx_type == IST; the one killed transaction that is still pointed to is
\* the INVITE of a worker.
IsIST(s, t) == t # Null /\ s.tr[t].kind \in {"IST", "none"}

\* SIPLeelen_new_session, SIPLeelenSession_init
New(s) == [s EXCEPT !.alloc = "live", !.listed = TRUE]

\* SIPLeelen_free_session
Freed(s) == [s EXCEPT !.alloc = "freed", !.listed = FALSE]

Incref(s) == [s EXCEPT !.refs = @ + 1]

\* SIPLeelen_decref_session: the last reference frees the session.
Decref(s) == IF s.refs = 1 THEN Freed(s) ELSE [s EXCEPT !.refs = @ - 1]

\* (mutant: leaves the counter at 0)
DecrefToZero(s) == [s EXCEPT !.refs = @ - 1]

\* SIPLeelenSession_decref.  refcount_dec puts a counter that reached 0 back to
\* 1, so SIPLeelenSession_may_free finds a 1 and frees nothing.
DecrefOnly(s) == IF s.refs = 1 THEN s ELSE [s EXCEPT !.refs = @ - 1]

\* A transaction gets hold of the session, and becomes its current one if
\* there is none.
Attach(s, kind, state, good) ==
    LET t == NextSlot(s)
    IN  [Incref(s) EXCEPT
            !.tr[t] = [kind |-> kind, state |-> state, good |-> good, age |-> 0],
            !.cur = IF @ = Null THEN t ELSE @]

\* (mutant: does not withdraw the borrowed pointer)
KillKeepsCurrent(s, t) == Decref([s EXCEPT !.tr[t] = NoTr])

\* _SIPLeelen_kill_transaction, and the failure branch of SIPLeelen_receive.
Kill(s, t) ==
    Decref([s EXCEPT !.tr[t] = NoTr, !.cur = IF @ = t THEN Null ELSE @])

\* libosip2 kills a transaction a message of which it cannot send.
Unsent(s, t) == [Kill(s, t) EXCEPT !.lost = TRUE]

\* (mutant: a transaction ends with its answer)
AnswerKills(s, t, sent) == IF t # Null /\ Unanswered(s, t) THEN Kill(s, t) ELSE s

\* osip_transaction_response with a final code other than 2xx, once it is built;
\* libosip2 ignores it when the request has its answer or the transaction is gone.
Answer(s, t, sent) ==
    IF t = Null \/ ~ Unanswered(s, t) THEN s
    ELSE IF sent THEN [s EXCEPT !.tr[t].state = "completed"]
    ELSE Unsent(s, t)

\* What may be left of s after it, and when it may not have been built either.
Answers(s, t) == {Answer(s, t, sent) : sent \in Ok("sip")}
MayAnswer(s, t) == Answers(s, t) \cup (IF "oom" \in Faults THEN {s} ELSE {})

\* The same with 100.
Provisional(s, t) ==
    {s} \cup (IF "sip" \in Faults /\ Pending(s, t) THEN {Unsent(s, t)} ELSE {})

\* osip_transaction_response, queued until the next round of osip_ist_execute ...
QueueAnswer(s, t) ==
    IF t # Null /\ Pending(s, t) THEN [s EXCEPT !.tr[t].state = "cancelled"]
    ELSE s

\* ... which is here.  At most one answer waits: that to the current INVITE.
Executed(s) ==
    LET waiting == {t \in Slots : s.tr[t].state = "cancelled"}
        sent == [s EXCEPT !.tr = [t \in Slots |->
                    IF t \in waiting THEN [s.tr[t] EXCEPT !.state = "completed"]
                    ELSE s.tr[t]]]
    IN  {sent} \cup (IF "sip" \in Faults /\ s.alloc = "live"
                     THEN {Unsent(sent, t) : t \in waiting} ELSE {})

\* A 200 with SDP: the SIP dialog exists even if libosip2 refuses the answer;
\* otherwise it kills the transaction, whether the answer was sent or not.
Accept(s, t) ==
    LET d == [s EXCEPT !.sip = TRUE] IN IF Pending(s, t) THEN Kill(d, t) ELSE d

\* SIPLeelenSession_bye_leelen; it fails when there is a BYE to send and sendto()
\* fails.
ByeLeelen(s, sent) ==
    IF ~ MayBye(s.dlg) THEN s
    ELSE IF sent THEN [s EXCEPT !.dlg = Sent(@, "BYE")]
         ELSE [s EXCEPT !.dlg.state = "DISCONNECTED", !.dlg.idle = 0]

\* SIPLeelenSession_bye_sip; all slots taken counts as a failure.
ByeSip(s, made, sent) ==
    LET a == Attach(s, "NICT", "completed", TRUE)
    IN  IF ~ (s.sip /\ made /\ Free(s) # {}) THEN s
        ELSE IF sent THEN a ELSE Kill(a, NextSlot(s))

\* What SIPLeelenSession_established leaves behind, and returns.
Checked(s) == IF s.dlg.live THEN [s EXCEPT !.dlg = AckChecked(@)] ELSE s
Established(s) == (s.dlg.live /\ Checked(s).dlg.state # "DISCONNECTED") \/ s.sip

Packet == traffic < MaxTraffic /\ traffic' = traffic + 1

---------------------------------------------------------------------------
(* SIP requests: SIPLeelen_receive and the callbacks of uas.c.             *)

\* (mutant: the thread gets no reference of its own)
StartUncounted(s, t) ==
    \/ ses' \in Provisional(s, t) /\ worker' = (IF s.dlg.live THEN "prepare" ELSE "discover") /\ job' = t
    \/ "thread" \in Faults /\ ses' \in MayAnswer(s, t) /\ UNCHANGED <<worker, job>>

\* single_start of the worker, with a reference for it.
Start(s, t) ==
    \/ /\ ses' \in Provisional(Incref(s), t) /\ job' = t
       /\ worker' = (IF s.dlg.live THEN "prepare" ELSE "discover")
    \/ "thread" \in Faults /\ ses' \in MayAnswer(s, t) /\ UNCHANGED <<worker, job>>

\* _SIPLeelen_ist_invite on transaction t of session s, for an INVITE and for
\* each of its retransmissions; 488, 400 or 410, 500 and 100, which is executed
\* when the callback is back.  With a worker running, the number is compared with
\* that of the session; for the same text the answer is still either
\* (EqualIsSameRoom).
IstInvite(s, t) ==
    IF Established(s) \/ ~ s.tr[t].good
    THEN ses' \in MayAnswer(Checked(s), t) /\ UNCHANGED <<worker, job>>
    ELSE IF Running
         THEN /\ ses' \in Provisional(Checked(s), t) \cup MayAnswer(Checked(s), t)
              /\ UNCHANGED <<worker, job>>
         ELSE Start(Checked(s), t)

\* An INVITE on session s: its transaction is attached and executed.
ReceiveInvite(s) ==
    /\ Free(s) # {}
    /\ \E good \in BOOLEAN :
          LET t == NextSlot(s)
              a == Attach(s, "IST", "proceeding", good)
          IN  \/ IstInvite(a, t)
              \/ /\ "execute" \in Faults
                 /\ ses' = Kill(a, t)
                 /\ UNCHANGED <<worker, job>>
    /\ Packet
    /\ UNCHANGED <<leaving, registered, swept>>

\* The first INVITE makes a session.
NewInvite == ses.alloc = "none" /\ ReceiveInvite(New(ses))

\* An INVITE in the SIP dialog; or the same one again when libosip2 has killed its
\* transaction, which still is the current one.
ReInvite ==
    /\ ses.alloc = "live" /\ ses.listed
    /\ ses.sip \/ (ses.cur # Null /\ ses.cur \notin Attached(ses))
    /\ ReceiveInvite(ses)

\* The same INVITE again: libosip2 finds the transaction, answered or not, and
\* executes what was queued before.
RetransmittedInvite ==
    /\ ses.alloc = "live"
    /\ \E s \in Executed(ses), t \in Attached(ses) :
          /\ ses.tr[t].kind = "IST" /\ ses.tr[t].age <= RetryAge
          /\ IF s.alloc = "live" /\ t \in Attached(s) THEN IstInvite(s, t)
             ELSE ses' = s /\ UNCHANGED <<worker, job>>
    /\ Packet
    /\ UNCHANGED <<leaving, registered, swept>>

\* A request finds the session by its SIP dialog, or by the branch of the INVITE.
Matched == ses.alloc = "live" /\ ses.listed /\ (ses.sip \/ IsIST(ses, ses.cur))

\* _SIPLeelen_nist_bye: CANCEL of the INVITE, or BYE in the dialog.
NistBye ==
    /\ Matched /\ Free(ses) # {}
    /\ LET t == NextSlot(ses)
           a == Attach(ses, "NIST", "proceeding", TRUE)
       IN  \/ \E sent \in Ok("send"), cancelled \in osip_message_response :
                 LET q == IF a.dlg.state = "CONNECTING" /\ cancelled
                          THEN QueueAnswer(a, a.cur) ELSE a
                 IN  ses' \in MayAnswer(ByeLeelen(q, sent), t)
           \/ "execute" \in Faults /\ ses' = Kill(a, t)
    /\ Packet
    /\ UNCHANGED <<worker, job, leaving, registered, swept>>

InDialog == ses.alloc = "live" /\ ses.listed /\ ses.sip

\* _SIPLeelen_register, with OPTIONS or REGISTER in the SIP dialog.
Options ==
    /\ InDialog /\ Free(ses) # {}
    /\ LET t == NextSlot(ses)
           a == Attach(ses, "NIST", "proceeding", TRUE)
       IN  ses' \in MayAnswer(a, t) \/ ("execute" \in Faults /\ ses' = Kill(a, t))
    /\ registered' \in {registered, TRUE}
    /\ Packet
    /\ UNCHANGED <<worker, job, leaving, swept>>

\* INFO, UPDATE, or whatever else there is no callback for, in the SIP dialog: no
\* one answers, and the transaction has no end.
NoCallback ==
    /\ InDialog /\ Free(ses) # {}
    /\ LET a == Attach(ses, "NIST", "proceeding", TRUE)
       IN  ses' = a \/ ("execute" \in Faults /\ ses' = Kill(a, NextSlot(ses)))
    /\ Packet
    /\ UNCHANGED <<worker, job, leaving, registered, swept>>

\* The ACK of a 200: its transaction is gone and osip_create_transaction makes
\* none for an ACK, so the session gives back a reference it never gave.
AckOf200 ==
    /\ ses.alloc = "live" /\ ses.listed /\ ses.sip
    /\ ses' = Decref(ses)
    /\ Packet
    /\ UNCHANGED <<worker, job, leaving, registered, swept>>

\* _SIPLeelen_register, with a REGISTER of no session
Register ==
    /\ ~ registered /\ registered' = TRUE
    /\ Packet
    /\ UNCHANGED <<ses, worker, job, leaving, swept>>

\* SIPLeelen_new_session has no memory: the transaction of an INVITE is freed, a
\* LEELEN message forgotten.
NotNew ==
    /\ ses.alloc = "none" /\ "oom" \in Faults
    /\ Packet
    /\ UNCHANGED <<ses, worker, job, leaving, registered, swept>>

---------------------------------------------------------------------------
(* LEELEN messages: SIPLeelen_receive_leelen, SIPLeelenSession_receive.    *)

\* The failure path: end the LEELEN dialog.  `ret' is what receive returns.
Fail(s) == {[ses |-> ByeLeelen(s, sent), ret |-> 1] : sent \in Ok("send")}
End(s) == {[ses |-> s, ret |-> 0]}

\* Answer the INVITE with an error; without memory for that, give up the dialog.
Refuse(s) ==
    UNION {IF built THEN {[ses |-> a, ret |-> 1] : a \in Answers(s, s.cur)} ELSE Fail(s)
           : built \in osip_message_response}

\* The call is confirmed: open the sockets and accept the INVITE.  The SIP
\* dialog is there before the 200 is on its way.
Connecting(s) ==
    IF ~ IsIST(s, s.cur) THEN Fail(s)
    ELSE UNION {IF ~ opened \/ ~ encoded THEN Refuse(s)
                ELSE IF built THEN End(Accept(s, s.cur))
                ELSE Refuse([s EXCEPT !.sip = TRUE])
                : opened \in SIPLeelenSession_connect, encoded \in encode_media_formats,
                  built \in osip_message_response}

\* The peer hangs up.
Hangup(s) ==
    UNION {End(ByeSip(s, made, sent)) : made \in osip_message_request, sent \in Ok("sip")}

\* What a code does to session s whose dialog was in state `old'.
Handled(s, old, code) ==
    CASE code = "other" -> {[ses |-> s, ret |-> 1]}
      [] code = "BYE" ->
            IF old = "DISCONNECTED" THEN End(s)
            ELSE IF old # "CONNECTING" THEN Hangup(s)
            ELSE IF IsIST(s, s.cur) THEN Refuse(s) ELSE {[ses |-> s, ret |-> 1]}
      [] code \in Establishing ->
            IF old = "CONNECTING" THEN Connecting(s)
            ELSE IF old = "CONNECTED" THEN End(s)
            ELSE IF old = "DISCONNECTED" /\ registered THEN End(Incref(s))
            ELSE Fail(s)
      [] code = "OK" ->
            IF old = "CONNECTING" THEN Connecting(s) ELSE End(s)

\* SIPLeelenSession_receive
Received(s, code) ==
    UNION {LET r == IF code = "OK" THEN ReceivedOk(s.dlg, FALSE, parsed)
                    ELSE ReceivedCode(s.dlg, code, parsed, sent)
               moved == [s EXCEPT !.dlg = r.dialog]
           IN  IF r.ret = 0 THEN Handled(moved, s.dlg.state, code)
               ELSE {[ses |-> moved, ret |-> 1]}
           : parsed \in LeelenMessage_init, sent \in Ok("send")}

\* A message of a dialog the session has; it waits for the worker.
LeelenMessage ==
    /\ ses.alloc = "live" /\ ses.listed /\ ses.dlg.live
    /\ ~ Running
    /\ \E code \in {"OK", "BYE", "CALL", "ACCEPTED", "other"} :
          \E r \in Received(ses, code) : ses' = r.ses
    /\ Packet
    /\ UNCHANGED <<worker, job, leaving, registered, swept>>

\* An invitation with an unknown ID makes a session.
NewLeelen ==
    /\ ses.alloc = "none"
    /\ \E r \in Received([New(ses) EXCEPT !.dlg = Fresh(@.sent, @.idle)], "CALL") :
          ses' = IF r.ret = 0 THEN r.ses ELSE Freed(r.ses)
    /\ Packet
    /\ UNCHANGED <<worker, job, leaving, registered, swept>>

---------------------------------------------------------------------------
(* _SIPLeelen_ist_invite_process, the worker.                              *)

\* LeelenDiscovery_discovery, LeelenDialog_init
Discover ==
    /\ worker = "discover"
    /\ \/ worker' = "prepare" /\ ses' = [ses EXCEPT !.dlg = Fresh(@.sent, @.idle)]
       \/ worker' = "reply" /\ UNCHANGED ses
    /\ UNCHANGED <<job, leaving, registered, swept, traffic>>

\* The media formats, and session->transaction = tr
Prepare ==
    /\ worker = "prepare"
    /\ \E extracted \in extract_media_formats :
          IF extracted THEN worker' = "call" /\ ses' = [ses EXCEPT !.cur = job]
          ELSE worker' = "reply" /\ UNCHANGED ses
    /\ UNCHANGED <<job, leaving, registered, swept, traffic>>

\* LeelenDialog_send of CALL
Call ==
    /\ worker = "call"
    /\ \E sent \in Ok("send") :
          IF sent THEN worker' = "finish" /\ ses' = [ses EXCEPT !.dlg = Sent(@, "CALL")]
          ELSE worker' = "reply" /\ UNCHANGED ses
    /\ UNCHANGED <<job, leaving, registered, swept, traffic>>

Reply ==
    /\ worker = "reply"
    /\ ses' \in MayAnswer(ses, job)
    /\ worker' = "finish"
    /\ UNCHANGED <<job, leaving, registered, swept, traffic>>

\* single_finish ...
Finish ==
    /\ worker = "finish"
    /\ worker' = "none" /\ job' = Null /\ leaving' = leaving + 1
    /\ UNCHANGED <<ses, registered, swept, traffic>>

\* ... and SIPLeelenSession_decref
Leave ==
    /\ leaving > 0 /\ leaving' = leaving - 1
    /\ ses' = DecrefOnly(ses)
    /\ UNCHANGED <<worker, job, registered, swept, traffic>>

Work == Discover \/ Prepare \/ Call \/ Reply \/ Finish

---------------------------------------------------------------------------
(* The sweep of SIPLeelen_mainloop.                                        *)

\* The INVITE has not been confirmed in time.
DialTimeout(s) ==
    IF s.cur = Null THEN {[s EXCEPT !.alloc = "crashed"]}
    ELSE LET c == Incref([s EXCEPT !.dlg = AckChecked(@)])
         IN  {LET b == IF sent \/ ~ MayBye(c.dlg) THEN ByeLeelen(c, sent)
                       ELSE Decref(ByeLeelen(c, sent))
              IN  IF made THEN Answer(b, b.cur, out) ELSE Decref(b)
              : sent \in Ok("send"), made \in osip_message_response, out \in Ok("sip")}

\* Nobody has talked for too long.
SessionTimeout(s) ==
    {LET b == ByeSip(ByeLeelen(s, sent), made, out)
     IN  IF sent \/ ~ MayBye(s.dlg) THEN b ELSE Decref(b)
     : sent \in Ok("bye"), made \in osip_message_request, out \in Ok("sip")}

\* last_sent + 2 * timeout / 1000 < now
Overdue(d) == d.sent = Never \/ d.sent > 2 * AckTimeout

\* (mutant: leaves a disconnected session alone as well)
SweptDisconnecting(s) ==
    CASE s.dlg.state = "CONNECTING" ->
            IF AckExpired(s.dlg) THEN DialTimeout(s) ELSE {s}
      [] s.dlg.state = "CONNECTED" ->
            IF s.cur = Null /\ DialogExpired(s.dlg) THEN SessionTimeout(s) ELSE {s}
      [] OTHER ->
            IF Overdue(s.dlg) THEN {s} ELSE {DecrefOnly([s EXCEPT !.listed = FALSE])}

\* One round of the loop over the sessions: a session that is disconnected, or
\* whose BYE is not old, leaves the array.
Swept(s) ==
    CASE s.dlg.state = "CONNECTING" ->
            IF AckExpired(s.dlg) THEN DialTimeout(s) ELSE {s}
      [] s.dlg.state = "CONNECTED" ->
            IF s.cur = Null /\ DialogExpired(s.dlg) THEN SessionTimeout(s) ELSE {s}
      [] OTHER ->
            IF s.dlg.state = "DISCONNECTING" /\ Overdue(s.dlg) THEN {s}
            ELSE {DecrefOnly([s EXCEPT !.listed = FALSE])}

Sweep ==
    /\ ~ swept /\ swept' = TRUE
    /\ IF ses.alloc = "live" /\ ses.listed /\ ~ Running
       THEN \E s \in Swept(ses) : ses' \in Executed(s)
       ELSE ses' \in Executed(ses)
    /\ UNCHANGED <<worker, job, leaving, registered, traffic>>

\* The timers of libosip2 end a transaction that has been answered.
Terminate(t) ==
    /\ ses.alloc = "live"
    /\ ses.tr[t].state = "completed" /\ ses.tr[t].age >= Linger
    /\ ses' = Kill(ses, t)
    /\ UNCHANGED <<worker, job, leaving, registered, swept, traffic>>

\* A timer, or the request again, makes libosip2 repeat the last message of a
\* transaction, which cannot be sent.
Repeat(t) ==
    /\ ses.alloc = "live" /\ "sip" \in Faults
    /\ ses.tr[t].state = "completed"
    /\ ses' = Unsent(ses, t)
    /\ UNCHANGED <<worker, job, leaving, registered, swept, traffic>>

\* A worker is done before the next sweep is due: its discovery lasts 200 ms.
Tick ==
    /\ swept /\ swept' = FALSE
    /\ ~ Running
    /\ ses.alloc = "live" => \A t \in Slots : ses.tr[t].age < LingerMax
    /\ ses' = [ses EXCEPT
          !.dlg = IF ses.alloc = "live" THEN Aged(@) ELSE @,
          !.tr = [t \in Slots |->
              IF ses.tr[t].state = "completed" /\ ses.tr[t].age < LingerMax
              THEN [ses.tr[t] EXCEPT !.age = @ + 1] ELSE ses.tr[t]]]
    /\ UNCHANGED <<worker, job, leaving, registered, traffic>>

Next ==
    \/ NewInvite \/ ReInvite \/ RetransmittedInvite
    \/ NistBye \/ Options \/ NoCallback \/ Register
    \/ LeelenMessage \/ NewLeelen \/ NotNew
    \/ Work \/ Leave
    \/ Sweep \/ Tick
    \/ \E t \in Slots : Terminate(t) \/ Repeat(t)

Spec == Init /\ [][Next]_vars

\* The same, with a client that acknowledges the 200.
AckSpec == Init /\ [][Next \/ AckOf200]_vars

\* The mainloop goes round and the clock runs, the worker is scheduled and its
\* discovery times out, libosip2 runs its timers.
FairSpec ==
    /\ Spec
    /\ WF_vars(Sweep) /\ WF_vars(Tick)
    /\ WF_vars(Work) /\ WF_vars(Leave)
    /\ \A t \in Slots : WF_vars(Terminate(t))

---------------------------------------------------------------------------
(* Properties.                                                             *)

Holders ==
    Cardinality(Attached(ses)) + (IF ses.listed THEN 1 ELSE 0)
        + (IF Running THEN 1 ELSE 0) + leaving

\* Whoever can still reach the session has a reference of his own, and so
\* nobody reaches it once it has been freed, whatever order the packets, the
\* timers and the worker come in.  With the failures in Faults that hold.
RefsCoverHolders ==
    /\ ses.alloc = "live" => ses.refs >= Holders
    /\ ses.alloc = "freed" => Holders = 0

\* The borrowed pointer to the current transaction (session.h:37) does not
\* outlive the transaction, unless a SIP message could not be sent: then libosip2
\* may have killed the INVITE of a worker before the worker stores it (uas.c:127).
CurrentIsAttached ==
    ses.alloc = "live" /\ ses.cur # Null => ses.cur \in Attached(ses) \/ ses.lost

\* The sweep finds a transaction when it answers a call that was set up in vain
\* (sipleelen.c:435), although the INVITE can be answered, cancelled and killed
\* before.  It follows NULL only of a session whose INVITE could not be answered
\* for want of a socket, or whose dialog is still what malloc() left there, and
\* looks CONNECTING: a session is swept from its first INVITE on, with or without
\* a dialog.
CallHasTransaction == ses.alloc = "crashed" => ~ ses.dlg.live \/ ses.lost

\* A session with a LEELEN dialog leaves the array when no more packets come for
\* it, whatever state they left it in; unless one of its requests will never be
\* answered, or its current transaction is one that libosip2 has killed.
SilentSessionEnds ==
    []<> ~ (/\ ses.alloc = "live" /\ ses.listed /\ ses.dlg.live
            /\ \A t \in Slots : ~ Unanswered(ses, t)
            /\ ses.cur # Null => ses.cur \in Attached(ses))

\* `SIP sessions, holding SIPLeelenSession::refcount for LEELEN dialog'
\* (sipleelen.h:61): no session is freed while its call is up.
CallKeepsSession == ses.alloc = "freed" => ~ MayBye(ses.dlg)

\* `Decrease reference counter of a LEELEN2SIP session and destroy it when
\* necessary' (session.h:183): when the last holder goes and gives back the last
\* reference, the session is destroyed.
DestroyedWhenUnused ==
    [][ses.alloc = "live" /\ ses.refs = 1 /\ Holders = 1 /\ Holders' = 0
        => ses'.alloc = "freed"]_vars
===========================================================================
