--------------------------- MODULE Session_proofs ---------------------------
(***************************************************************************)
(* Theorems of Session, for any number of transactions, any time limits    *)
(* and any failures; that the counter covers the holders only without that *)
(* of the BYE of a session timeout, with which it does not.  Two theorems  *)
(* say what holds when no SIP message is lost on its way out.              *)
(***************************************************************************)
EXTENDS Session, FiniteSetTheorems, TLAPS

---------------------------------------------------------------------------
(* Dialogs.                                                                *)

\* A dialog that is being set up, which has a running timer, ...
Waits(d) == d.live /\ d.state = "CONNECTING"
Armed(d) == Waits(d) => d.sent # Never

\* Memory that no dialog was set up in, which looks like such a dialog.
Dead(d) == ~ d.live /\ d.state = "CONNECTING"

\* Dialog e is what is left of dialog d, and of its wait if it waits.
WaitsAs(d, e) ==
    /\ Waits(e) => Waits(d) /\ e.sent = d.sent
    /\ Dead(e) => Dead(d)
    /\ d.live => e.live

LEMMA NeverInRange == Never \in Never .. SentMax /\ 0 \in Never .. SentMax
                      /\ -1 \in -1 .. IdleMax /\ 0 \in -1 .. IdleMax
BY TimeAssumption DEF TimeAssumption, Never

LEMMA AgedDialog ==
    ASSUME NEW d \in Dialogs
    PROVE  /\ Aged(d) \in Dialogs /\ (Armed(d) => Armed(Aged(d)))
           /\ Aged(d).live = d.live /\ Aged(d).state = d.state
<1> DEFINE sent2 == IF d.sent = Never \/ d.sent = SentMax THEN d.sent ELSE d.sent + 1
           idle2 == IF d.idle = IdleMax THEN d.idle ELSE d.idle + 1
<1>1. sent2 \in Never .. SentMax /\ idle2 \in -1 .. IdleMax /\ (d.sent # Never => sent2 # Never)
  BY TimeAssumption DEF TimeAssumption, Dialogs, Never
<1>2. Aged(d) = [d EXCEPT !.sent = sent2, !.idle = idle2]
  BY DEF Aged
<1> HIDE DEF sent2, idle2
<1> QED
  BY <1>1, <1>2 DEF Dialogs, Armed, Waits

LEMMA CheckedDialog ==
    ASSUME NEW d \in Dialogs
    PROVE  /\ AckChecked(d) \in Dialogs
           /\ AckChecked(d).live = d.live
           /\ WaitsAs(d, AckChecked(d))
           /\ Waits(d) /\ Armed(d) /\ AckExpired(d) => AckChecked(d).state = "DISCONNECTED"
<1>1. CASE d.sent # Never /\ AckExpired(d)
  <2>1. AckChecked(d) = [d EXCEPT !.sent = Never, !.state = StateNak(d.state)]
    BY <1>1 DEF AckChecked
  <2>2. StateNak(d.state) \in States \ {"CONNECTING"}
        /\ (d.state = "CONNECTING" => StateNak(d.state) = "DISCONNECTED")
    BY DEF StateNak, Dialogs, States
  <2>3. /\ AckChecked(d) \in Dialogs
        /\ AckChecked(d).live = d.live /\ AckChecked(d).state = StateNak(d.state)
    BY <2>1, <2>2, NeverInRange DEF Dialogs
  <2> QED
    BY <2>2, <2>3 DEF Waits, WaitsAs, Dead
<1>2. CASE ~ (d.sent # Never /\ AckExpired(d))
  BY <1>2 DEF AckChecked, Armed, WaitsAs
<1> QED
  BY <1>1, <1>2

LEMMA SentDialog ==
    ASSUME NEW d \in Dialogs, NEW code \in {"CALL", "BYE"}
    PROVE  /\ Sent(d, code) \in Dialogs /\ Sent(d, code).sent = 0 /\ Armed(Sent(d, code))
           /\ Sent(d, code).live = d.live
           /\ code = "BYE" => WaitsAs(d, Sent(d, code))
<1>1. StateSend(d.state, code) \in States /\ (code = "BYE" => StateSend(d.state, code) # "CONNECTING")
  BY DEF StateSend, States, Dialogs, Establishing, Invitations
<1>2. Sent(d, code) = [d EXCEPT !.state = StateSend(d.state, code), !.sent = 0, !.idle = -1]
  BY DEF Sent
<1>3. /\ Sent(d, code) \in Dialogs /\ Sent(d, code).sent = 0
      /\ Sent(d, code).state = StateSend(d.state, code) /\ Sent(d, code).live = d.live
  BY <1>1, <1>2, NeverInRange DEF Dialogs
<1>4. 0 # Never
  BY DEF Never
<1> QED
  BY <1>1, <1>3, <1>4 DEF Armed, Waits, WaitsAs, Dead

LEMMA FreshDialog ==
    ASSUME NEW d \in Dialogs
    PROVE  /\ Fresh(d.sent, d.idle) \in Dialogs
           /\ ~ Waits(Fresh(d.sent, d.idle)) /\ WaitsAs(d, Fresh(d.sent, d.idle))
           /\ Fresh(d.sent, d.idle).state = "DISCONNECTED" /\ Fresh(d.sent, d.idle).live
BY DEF Fresh, Dialogs, States, Waits, WaitsAs, Dead

\* What LeelenDialog_receive leaves of a dialog.
LEMMA ReceivedDialog ==
    ASSUME NEW d \in Dialogs, NEW parsed \in BOOLEAN, NEW sendable \in BOOLEAN,
           NEW code \in {"BYE", "CALL", "ACCEPTED", "other"}
    PROVE  /\ ReceivedOk(d, FALSE, parsed).dialog \in Dialogs
           /\ WaitsAs(d, ReceivedOk(d, FALSE, parsed).dialog)
           /\ ReceivedOk(d, FALSE, parsed).ret = 0 => ~ Waits(ReceivedOk(d, FALSE, parsed).dialog)
           /\ ReceivedCode(d, code, parsed, sendable).dialog \in Dialogs
           /\ WaitsAs(d, ReceivedCode(d, code, parsed, sendable).dialog)
           /\ ReceivedCode(d, code, parsed, sendable).ret = 0 /\ code # "other" =>
                 ~ Waits(ReceivedCode(d, code, parsed, sendable).dialog)
<1>1. StateAck(d.state) \in States \ {"CONNECTING"}
  BY DEF StateAck, States, Dialogs
<1>2. ASSUME AckExpired(d)
      PROVE  /\ ReceivedOk(d, FALSE, parsed).dialog \in Dialogs
             /\ WaitsAs(d, ReceivedOk(d, FALSE, parsed).dialog)
             /\ ReceivedOk(d, FALSE, parsed).ret # 0
  <2> DEFINE r == ReceivedOk(d, FALSE, parsed)
  <2>1. r = [dialog |-> AckChecked(d), ret |-> 254]
    BY <1>2 DEF ReceivedOk
  <2> HIDE DEF r
  <2>2. r.dialog = AckChecked(d) /\ r.ret # 0
    BY <2>1
  <2>3. r.dialog \in Dialogs /\ WaitsAs(d, r.dialog) /\ r.ret # 0
    BY <2>2, CheckedDialog
  <2> QED
    BY <2>3 DEF r
<1>3. ASSUME ~ AckExpired(d)
      PROVE  /\ ReceivedOk(d, FALSE, parsed).dialog \in Dialogs
             /\ ~ Waits(ReceivedOk(d, FALSE, parsed).dialog)
             /\ WaitsAs(d, ReceivedOk(d, FALSE, parsed).dialog)
  <2> DEFINE r == ReceivedOk(d, FALSE, parsed).dialog
  <2>1. \/ r = [d EXCEPT !.state = StateAck(d.state)]
        \/ r = [[d EXCEPT !.state = StateAck(d.state)] EXCEPT !.idle = 0]
    BY <1>3 DEF ReceivedOk, Dialogs
  <2> HIDE DEF r
  <2>2. r \in Dialogs /\ r.state = StateAck(d.state) /\ r.live = d.live
    BY <1>1, <2>1, NeverInRange DEF Dialogs
  <2>3. ~ Waits(r) /\ WaitsAs(d, r)
    BY <1>1, <2>2 DEF Waits, WaitsAs, Dead
  <2> QED
    BY <2>2, <2>3 DEF r
<1>4. /\ ReceivedCode(d, code, parsed, sendable).dialog \in Dialogs
      /\ WaitsAs(d, ReceivedCode(d, code, parsed, sendable).dialog)
      /\ ReceivedCode(d, code, parsed, sendable).ret = 0 /\ code # "other" =>
            ~ Waits(ReceivedCode(d, code, parsed, sendable).dialog)
  <2>1. /\ StateReceive(d.state, code) \in States
        /\ StateReceive(d.state, code) = "CONNECTING" => d.state = "CONNECTING" /\ code = "other"
    BY DEF StateReceive, States, Dialogs, Establishing, Invitations
  <2>2. CASE parsed /\ sendable
    <3> DEFINE r == [d EXCEPT !.state = StateReceive(d.state, code), !.idle = 0]
    <3>1. ReceivedCode(d, code, parsed, sendable).dialog = r
      BY <2>2 DEF ReceivedCode
    <3>2. r \in Dialogs /\ r.state = StateReceive(d.state, code) /\ r.live = d.live /\ r.sent = d.sent
      BY <2>1, NeverInRange DEF Dialogs
    <3> HIDE DEF r
    <3> QED
      BY <2>1, <3>1, <3>2 DEF Waits, WaitsAs, Dead
  <2>3. CASE ~ (parsed /\ sendable)
    <3>1. ReceivedCode(d, code, parsed, sendable) = [dialog |-> d, ret |-> -1]
      BY <2>3 DEF ReceivedCode
    <3> QED
      BY <3>1 DEF WaitsAs
  <2> QED
    BY <2>2, <2>3
<1> QED
  BY <1>2, <1>3, <1>4

---------------------------------------------------------------------------
(* Sessions.                                                               *)

Listing(s) == IF s.listed THEN 1 ELSE 0

\* The BYE of a session timeout, whose failure gives back a reference too many,
\* does not fail.
Counted == "bye" \notin Faults

\* Session s is in memory, and its counter, where it counts, covers the array,
\* its transactions and n others.
Covers(s, n) ==
    /\ s.alloc = "live"
    /\ Counted => s.refs >= Cardinality(Attached(s)) + Listing(s) + n

\* Nobody can reach it.
Alone(s) == Attached(s) = {} /\ ~ s.listed

\* Its pointers are sound, as far as no message of a transaction was lost.
Linked(s) == (s.cur # Null => s.cur \in Attached(s) \/ s.lost) /\ Armed(s.dlg)

\* What holds of the session between actions, with n holders beside the array
\* and the transactions.
Safe(s, n) ==
    \/ Covers(s, n) /\ Linked(s)
    \/ s.alloc = "none" /\ Alone(s) /\ Linked(s) /\ n = 0
    \/ s.alloc = "freed" /\ (Counted => Alone(s) /\ n = 0)
    \/ s.alloc = "crashed"

\* Session r differs from s only in what holders do not see.
Same(s, r) ==
    /\ r \in Sessions
    /\ r.alloc = s.alloc /\ r.listed = s.listed /\ r.refs = s.refs /\ r.cur = s.cur
    /\ r.lost = s.lost
    /\ WaitsAs(s.dlg, r.dlg)
    /\ \A t \in Slots : r.tr[t].kind = s.tr[t].kind /\ r.tr[t].age = s.tr[t].age

\* Session r comes after s: no message is lost but by a failure, no dialog lost
\* that was set up.
Inherits(s, r) ==
    /\ s.lost => r.lost
    /\ r.lost => s.lost \/ "sip" \in Faults
    /\ s.dlg.live => r.dlg.live
    /\ Dead(r.dlg) => Dead(s.dlg)

LEMMA InheritsTransitive ==
    ASSUME NEW s, NEW r, NEW q, Inherits(s, r), Inherits(r, q)
    PROVE  Inherits(s, q)
BY DEF Inherits

LEMMA SameInherits ==
    ASSUME NEW s, NEW r, Same(s, r)
    PROVE  Inherits(s, r)
BY DEF Same, Inherits, WaitsAs

LEMMA SameAttached ==
    ASSUME NEW s, NEW r, Same(s, r)
    PROVE  Attached(r) = Attached(s)
BY DEF Same, Attached

LEMMA SameSafe ==
    ASSUME NEW s, NEW r, Same(s, r)
    PROVE  /\ \A n : Covers(s, n) => Covers(r, n)
           /\ Linked(s) => Linked(r)
           /\ \A n : Safe(s, n) => Safe(r, n)
<1>1. Attached(r) = Attached(s)
  BY SameAttached
<1>2. \A n : Covers(s, n) => Covers(r, n)
  BY <1>1 DEF Same, Covers, Listing
<1>3. Linked(s) => Linked(r)
  BY <1>1 DEF Same, Linked, Armed, WaitsAs
<1> QED
  BY <1>1, <1>2, <1>3 DEF Safe, Same, Alone

LEMMA SameTransitive ==
    ASSUME NEW s, NEW r, NEW q, Same(s, r), Same(r, q)
    PROVE  Same(s, q)
BY DEF Same, WaitsAs

LEMMA SameReflexive ==
    ASSUME NEW s \in Sessions
    PROVE  Same(s, s)
BY DEF Same, WaitsAs

LEMMA AttachedIsFinite ==
    ASSUME NEW s
    PROVE  IsFiniteSet(Attached(s)) /\ Cardinality(Attached(s)) \in Nat
BY SessionAssumption, FS_Subset, FS_CardinalityType DEF SessionAssumption, Attached

\* Only the dialog of the session changes.
LEMMA SameDialog ==
    ASSUME NEW s \in Sessions, NEW d \in Dialogs, WaitsAs(s.dlg, d)
    PROVE  Same(s, [s EXCEPT !.dlg = d])
BY DEF Same, Sessions

LEMMA SameSip ==
    ASSUME NEW s \in Sessions
    PROVE  Same(s, [s EXCEPT !.sip = TRUE])
BY DEF Same, Sessions, WaitsAs

\* The answer to a transaction does not take it away from the session.
LEMMA SameTransaction ==
    ASSUME NEW s \in Sessions, NEW t \in Slots, s.tr[t].kind # "none",
           NEW state \in {"completed", "cancelled"}
    PROVE  Same(s, [s EXCEPT !.tr[t].state = state])
<1>1. s.tr \in [Slots -> Trs \cup {NoTr}] /\ s.tr[t] \in Trs
  BY DEF Sessions, NoTr
<1> DEFINE new == [s.tr[t] EXCEPT !.state = state]
<1>2. new \in Trs /\ new.kind = s.tr[t].kind /\ new.age = s.tr[t].age
  BY <1>1 DEF Trs
<1>3. [s EXCEPT !.tr[t].state = state] = [s EXCEPT !.tr = [s.tr EXCEPT ![t] = new]]
  BY DEF Sessions
<1> HIDE DEF new
<1>4. /\ [s.tr EXCEPT ![t] = new] \in [Slots -> Trs \cup {NoTr}]
      /\ \A u \in Slots : [s.tr EXCEPT ![t] = new][u] = IF u = t THEN new ELSE s.tr[u]
  BY <1>1, <1>2
<1> QED
  BY <1>2, <1>3, <1>4 DEF Same, Sessions, WaitsAs

LEMMA SameQueued ==
    ASSUME NEW s \in Sessions, NEW t \in Slots \cup {Null}
    PROVE  Same(s, QueueAnswer(s, t))
<1>1. CASE t # Null /\ Pending(s, t)
  BY <1>1, SameTransaction DEF QueueAnswer, Pending
<1>2. CASE ~ (t # Null /\ Pending(s, t))
  BY <1>2, SameReflexive DEF QueueAnswer
<1> QED
  BY <1>1, <1>2

LEMMA SameChecked ==
    ASSUME NEW s \in Sessions
    PROVE  Same(s, Checked(s))
<1>1. s.dlg \in Dialogs /\ [s EXCEPT !.dlg = AckChecked(@)] = [s EXCEPT !.dlg = AckChecked(s.dlg)]
  BY DEF Sessions
<1> QED
  BY <1>1, CheckedDialog, SameDialog, SameReflexive DEF Checked

LEMMA SameBye ==
    ASSUME NEW s \in Sessions, NEW sent \in BOOLEAN
    PROVE  Same(s, ByeLeelen(s, sent))
<1>1. s.dlg \in Dialogs
  BY DEF Sessions
<1>2. CASE ~ MayBye(s.dlg)
  BY <1>2, SameReflexive DEF ByeLeelen
<1>3. CASE MayBye(s.dlg) /\ sent
  <2>1. ByeLeelen(s, sent) = [s EXCEPT !.dlg = Sent(s.dlg, "BYE")]
    BY <1>3 DEF ByeLeelen, Sessions
  <2> QED
    BY <1>1, <2>1, SentDialog, SameDialog
<1>4. CASE MayBye(s.dlg) /\ ~ sent
  <2> DEFINE d == [s.dlg EXCEPT !.state = "DISCONNECTED", !.idle = 0]
  <2>1. ByeLeelen(s, sent) = [s EXCEPT !.dlg = d]
    BY <1>1, <1>4 DEF ByeLeelen, Sessions, Dialogs
  <2>2. d \in Dialogs /\ WaitsAs(s.dlg, d)
    BY <1>1, NeverInRange DEF Dialogs, Waits, States, WaitsAs, Dead
  <2> HIDE DEF d
  <2> QED
    BY <2>1, <2>2, SameDialog
<1> QED
  BY <1>2, <1>3, <1>4

---------------------------------------------------------------------------
(* Taking and giving back references.                                      *)

\* A session in memory whose counter covers n others beside the array and the
\* transactions, and whose pointers are sound.
Sound(s, n) == s \in Sessions /\ Covers(s, n) /\ Linked(s)

\* What is left of a sound session: it is safe.
Outcome(s, n, r) == r \in Sessions /\ Safe(r, n) /\ Inherits(s, r)

\* Unless a message was lost, r has the transactions of s, as they were.
Keeps(s, r) ==
    /\ Inherits(s, r)
    /\ r.lost \/ \A t \in Attached(s) : t \in Attached(r) /\ r.tr[t].age = s.tr[t].age

LEMMA KeepsTransitive ==
    ASSUME NEW s, NEW r, NEW q, Keeps(s, r), Keeps(r, q)
    PROVE  Keeps(s, q)
BY DEF Keeps, Inherits

LEMMA SameSound ==
    ASSUME NEW s, NEW r, Same(s, r), NEW n, Sound(s, n)
    PROVE  Sound(r, n) /\ Keeps(s, r)
<1>1. Sound(r, n)
  BY SameSafe DEF Sound, Same
<1>2. Keeps(s, r)
  BY SameAttached, SameInherits DEF Keeps, Same, Attached
<1> QED
  BY <1>1, <1>2

LEMMA IncrefSound ==
    ASSUME NEW s, NEW n \in Nat, Sound(s, n)
    PROVE  Sound(Incref(s), n + 1) /\ Keeps(s, Incref(s)) /\ Sound(Incref(s), n)
<1>1. Incref(s) = [s EXCEPT !.refs = s.refs + 1]
  BY DEF Incref, Sound, Sessions
<1>2. /\ Incref(s) \in Sessions /\ Incref(s).refs = s.refs + 1 /\ s.refs \in Nat
      /\ Incref(s).alloc = s.alloc /\ Incref(s).listed = s.listed
      /\ Incref(s).cur = s.cur /\ Incref(s).dlg = s.dlg /\ Incref(s).tr = s.tr
      /\ Incref(s).lost = s.lost
  BY <1>1 DEF Sound, Sessions
<1>3. Attached(Incref(s)) = Attached(s)
  BY <1>2 DEF Attached
<1>4. Listing(s) \in Nat /\ Listing(Incref(s)) = Listing(s)
  BY <1>2 DEF Listing
<1> QED
  BY <1>2, <1>3, <1>4, AttachedIsFinite DEF Sound, Covers, Linked, Keeps, Inherits

\* The last reference is the last holder.
LEMMA LastReference ==
    ASSUME Counted, NEW s \in Sessions, NEW n \in Nat, Covers(s, n + 1), s.refs = 1
    PROVE  n = 0 /\ Attached(s) = {} /\ ~ s.listed
<1>1. Cardinality(Attached(s)) \in Nat /\ Listing(s) \in {0, 1}
  BY AttachedIsFinite DEF Listing
<1>2. n = 0 /\ Cardinality(Attached(s)) = 0 /\ Listing(s) = 0
  BY <1>1 DEF Covers
<1> QED
  BY <1>2, AttachedIsFinite, FS_EmptySet DEF Listing

LEMMA DecrefSafe ==
    ASSUME NEW s \in Sessions, NEW n \in Nat, Covers(s, n + 1), Linked(s)
    PROVE  /\ Outcome(s, n, Decref(s))
           /\ Decref(s).tr = s.tr /\ Decref(s).lost = s.lost
<1>1. CASE s.refs = 1
  <2>1. Decref(s) = [s EXCEPT !.alloc = "freed", !.listed = FALSE]
    BY <1>1 DEF Decref, Freed
  <2>2. /\ Decref(s) \in Sessions /\ Decref(s).alloc = "freed" /\ ~ Decref(s).listed
        /\ Decref(s).tr = s.tr /\ Decref(s).lost = s.lost /\ Decref(s).dlg = s.dlg
    BY <2>1 DEF Sessions
  <2> QED
    BY <1>1, <2>2, LastReference DEF Outcome, Safe, Alone, Attached, Inherits
<1>2. CASE s.refs # 1
  <2>1. Decref(s) = [s EXCEPT !.refs = s.refs - 1]
    BY <1>2 DEF Decref, Sessions
  <2>2. /\ Decref(s) \in Sessions /\ Decref(s).refs = s.refs - 1 /\ s.refs \in Nat
        /\ Decref(s).alloc = s.alloc /\ Decref(s).listed = s.listed
        /\ Decref(s).cur = s.cur /\ Decref(s).dlg = s.dlg /\ Decref(s).tr = s.tr
        /\ Decref(s).lost = s.lost
    BY <1>2, <2>1 DEF Sessions
  <2>3. Attached(Decref(s)) = Attached(s)
    BY <2>2 DEF Attached
  <2>4. Listing(s) \in Nat /\ Listing(Decref(s)) = Listing(s)
    BY <2>2 DEF Listing
  <2> QED
    BY <2>2, <2>3, <2>4, AttachedIsFinite DEF Outcome, Safe, Covers, Linked, Inherits
<1> QED
  BY <1>1, <1>2

LEMMA DecrefOnlySound ==
    ASSUME NEW s \in Sessions, NEW n \in Nat, Covers(s, n + 1), Linked(s)
    PROVE  Sound(DecrefOnly(s), n) /\ Keeps(s, DecrefOnly(s))
<1>1. Cardinality(Attached(s)) \in Nat /\ Listing(s) \in {0, 1} /\ s.refs \in Nat \ {0}
  BY AttachedIsFinite DEF Listing, Sessions
<1>2. CASE s.refs = 1
  BY <1>1, <1>2 DEF DecrefOnly, Sound, Covers, Keeps, Inherits
<1>3. CASE s.refs # 1
  <2>1. DecrefOnly(s) = [s EXCEPT !.refs = s.refs - 1]
    BY <1>3 DEF DecrefOnly, Sessions
  <2>2. /\ DecrefOnly(s) \in Sessions /\ DecrefOnly(s).refs = s.refs - 1
        /\ DecrefOnly(s).alloc = s.alloc /\ DecrefOnly(s).listed = s.listed
        /\ DecrefOnly(s).cur = s.cur /\ DecrefOnly(s).dlg = s.dlg /\ DecrefOnly(s).tr = s.tr
        /\ DecrefOnly(s).lost = s.lost
    BY <1>1, <1>3, <2>1 DEF Sessions
  <2>3. Attached(DecrefOnly(s)) = Attached(s) /\ Listing(DecrefOnly(s)) = Listing(s)
    BY <2>2 DEF Attached, Listing
  <2> QED
    BY <1>1, <2>2, <2>3 DEF Sound, Covers, Linked, Keeps, Inherits
<1> QED
  BY <1>2, <1>3

\* A transaction that gets hold of the session brings its own reference.
LEMMA AttachSound ==
    ASSUME NEW s, NEW n \in Nat, Sound(s, n), Free(s) # {},
           NEW kind \in {"IST", "NIST", "NICT"}, NEW state \in {"proceeding", "completed"},
           NEW good \in BOOLEAN
    PROVE  LET a == Attach(s, kind, state, good)
               t == NextSlot(s)
           IN  /\ t \in Slots \ Attached(s)
               /\ Sound(a, n) /\ Keeps(s, a)
               /\ Attached(a) = Attached(s) \cup {t}
               /\ a.tr[t].age = 0
               /\ a.cur \in Slots
               /\ Armed(s.dlg) => Armed(a.dlg)
<1> DEFINE a == Attach(s, kind, state, good)
           t == NextSlot(s)
           new == [kind |-> kind, state |-> state, good |-> good, age |-> 0]
           cur2 == IF s.cur = Null THEN t ELSE s.cur
<1>1. t \in Slots \ Attached(s)
  BY DEF NextSlot, Free
<1>2. new \in Trs /\ new.kind # "none" /\ new.age = 0
  BY SessionAssumption DEF SessionAssumption, Trs
<1>3. a = [s EXCEPT !.refs = s.refs + 1, !.tr = [s.tr EXCEPT ![t] = new], !.cur = cur2]
  BY DEF Attach, Incref, Sound, Sessions
<1>4. t # Null /\ cur2 \in Slots
  BY <1>1, SessionAssumption DEF SessionAssumption, Null, Sound, Sessions
<1> HIDE DEF t, new, cur2
<1>5. DEFINE tr2 == [s.tr EXCEPT ![t] = new]
<1>6. /\ tr2 \in [Slots -> Trs \cup {NoTr}]
      /\ tr2[t] = new /\ \A u \in Slots \ {t} : tr2[u] = s.tr[u]
  BY <1>1, <1>2 DEF Sound, Sessions
<1>7. a = [s EXCEPT !.refs = s.refs + 1, !.tr = tr2, !.cur = cur2]
  BY <1>3
<1> HIDE DEF a, tr2
<1>8. /\ a \in Sessions
      /\ a.refs = s.refs + 1 /\ s.refs \in Nat /\ a.tr = tr2 /\ a.cur = cur2
      /\ a.alloc = s.alloc /\ a.listed = s.listed /\ a.dlg = s.dlg /\ a.lost = s.lost
  <2>1. s \in Sessions /\ s.refs + 1 \in Nat \ {0} /\ cur2 \in Slots \cup {Null}
    BY <1>4 DEF Sound, Sessions
  <2> QED
    BY <1>6, <1>7, <2>1 DEF Sessions
<1>9. Attached(a) = Attached(s) \cup {t}
  BY <1>1, <1>2, <1>6, <1>8 DEF Attached
<1>10. Cardinality(Attached(a)) = Cardinality(Attached(s)) + 1
  BY <1>1, <1>9, AttachedIsFinite, FS_AddElement
<1>11. Covers(a, n)
  <2>1. Listing(a) = Listing(s) /\ Listing(s) \in Nat
    BY <1>8 DEF Listing
  <2> QED
    BY <1>8, <1>10, <2>1, AttachedIsFinite DEF Sound, Covers
<1>12. Linked(a)
  BY <1>8, <1>9 DEF Linked, Sound, cur2
<1>13. Keeps(s, a)
  BY <1>1, <1>6, <1>8, <1>9 DEF Keeps, Attached, Inherits
<1> QED
  BY <1>1, <1>2, <1>4, <1>6, <1>8, <1>9, <1>11, <1>12, <1>13 DEF a, t, Sound

\* A transaction that goes at once leaves what it found.
LEMMA KillAttached ==
    ASSUME NEW s \in Sessions, Free(s) # {},
           NEW kind \in {"IST", "NIST", "NICT"}, NEW state \in {"proceeding", "completed"},
           NEW good \in BOOLEAN
    PROVE  Kill(Attach(s, kind, state, good), NextSlot(s)) = s
<1> DEFINE a == Attach(s, kind, state, good)
           t == NextSlot(s)
           new == [kind |-> kind, state |-> state, good |-> good, age |-> 0]
           k == [a EXCEPT !.tr[t] = NoTr, !.cur = IF @ = t THEN Null ELSE @]
<1>1. t \in Slots \ (Attached(s) \cup {s.cur})
  BY DEF NextSlot, Free
<1>2. s.tr[t] = NoTr /\ s.refs \in Nat \ {0} /\ s.cur \in Slots \cup {Null}
  BY <1>1 DEF Attached, Sessions, Trs
<1>3. a = [s EXCEPT !.refs = s.refs + 1, !.tr = [s.tr EXCEPT ![t] = new],
                    !.cur = IF s.cur = Null THEN t ELSE s.cur]
  BY DEF Attach, Incref, Sessions
<1> HIDE DEF t, new
<1>4. k = [s EXCEPT !.refs = s.refs + 1]
  <2>1. /\ [s.tr EXCEPT ![t] = new] \in [Slots -> Trs \cup {NoTr, new}]
        /\ s.tr \in [Slots -> Trs \cup {NoTr}]
    BY <1>1 DEF Sessions
  <2>2. [[s.tr EXCEPT ![t] = new] EXCEPT ![t] = NoTr] = s.tr
    BY <1>1, <1>2, <2>1
  <2>3. k = [s EXCEPT !.refs = s.refs + 1, !.tr = s.tr, !.cur = s.cur]
    BY <1>1, <1>2, <1>3, <2>2 DEF Sessions
  <2> QED
    BY <2>3 DEF Sessions
<1>5. Kill(a, t) = Decref(k)
  BY DEF Kill
<1> HIDE DEF a, k
<1>6. Decref([s EXCEPT !.refs = s.refs + 1]) = s
  <2> DEFINE b == [s EXCEPT !.refs = s.refs + 1]
  <2>1. b.refs = s.refs + 1 /\ b.refs # 1 /\ b.refs - 1 = s.refs
    BY <1>2 DEF Sessions
  <2>2. [b EXCEPT !.refs = s.refs] = s
    BY DEF Sessions
  <2>3. Decref(b) = [b EXCEPT !.refs = b.refs - 1]
    BY <2>1 DEF Decref
  <2> QED
    BY <2>1, <2>2, <2>3
<1> QED
  BY <1>4, <1>5, <1>6 DEF a, t

\* The end of a transaction, in which it takes its reference and the pointer to
\* it away.
LEMMA KillSafe ==
    ASSUME NEW s, NEW n \in Nat, Sound(s, n), NEW t \in Attached(s)
    PROVE  /\ Outcome(s, n, Kill(s, t)) /\ Kill(s, t).lost = s.lost
           /\ \A u \in Attached(s) \ {t} : u \in Attached(Kill(s, t)) /\ Kill(s, t).tr[u].age = s.tr[u].age
<1> DEFINE tr2 == [s.tr EXCEPT ![t] = NoTr]
           cur2 == IF s.cur = t THEN Null ELSE s.cur
           k == [s EXCEPT !.tr = tr2, !.cur = cur2]
<1>1. t \in Slots
  BY DEF Attached
<1>2. Kill(s, t) = Decref(k)
  BY DEF Kill, Sound, Sessions
<1>3. /\ tr2 \in [Slots -> Trs \cup {NoTr}]
      /\ tr2[t] = NoTr /\ \A u \in Slots \ {t} : tr2[u] = s.tr[u]
  BY <1>1 DEF Sound, Sessions
<1>4. cur2 \in Slots \cup {Null}
  BY DEF Sound, Sessions
<1> HIDE DEF tr2
<1>5. /\ k \in Sessions /\ k.tr = tr2 /\ k.cur = cur2 /\ k.refs = s.refs
      /\ k.alloc = s.alloc /\ k.listed = s.listed /\ k.dlg = s.dlg /\ k.lost = s.lost
  BY <1>3, <1>4 DEF Sound, Sessions
<1> HIDE DEF k, cur2
<1>6. Attached(k) = Attached(s) \ {t}
  BY <1>1, <1>3, <1>5 DEF Attached, NoTr
<1>7. Cardinality(Attached(k)) = Cardinality(Attached(s)) - 1
  BY <1>6, AttachedIsFinite, FS_RemoveElement
<1>8. Covers(k, n + 1)
  <2>1. Listing(k) = Listing(s) /\ Listing(s) \in Nat
    BY <1>5 DEF Listing
  <2>2. k.alloc = s.alloc /\ k.refs = s.refs /\ s.refs \in Nat /\ Covers(s, n)
    BY <1>5 DEF Sound, Sessions
  <2>3. Cardinality(Attached(s)) \in Nat
    BY AttachedIsFinite
  <2> QED
    BY <1>7, <2>1, <2>2, <2>3 DEF Covers
<1>9. Linked(k)
  BY <1>5, <1>6 DEF Linked, Sound, cur2
<1>10. Outcome(k, n, Decref(k)) /\ Decref(k).tr = tr2 /\ Decref(k).lost = s.lost
  BY <1>5, <1>8, <1>9, DecrefSafe
<1>11. Inherits(s, k)
  BY <1>5 DEF Inherits
<1>12. Outcome(s, n, Decref(k))
  BY <1>10, <1>11, InheritsTransitive DEF Outcome
<1> QED
  BY <1>2, <1>3, <1>10, <1>12 DEF Attached

LEMMA KillDialog ==
    ASSUME NEW s, NEW n \in Nat, Sound(s, n), NEW t \in Attached(s)
    PROVE  /\ Kill(s, t).alloc \in {"live", "freed"} /\ Kill(s, t).dlg = s.dlg
           /\ Kill(s, t).listed => s.listed
           /\ s.cur # t => Kill(s, t).cur = s.cur
<1> DEFINE cur2 == IF s.cur = t THEN Null ELSE s.cur
           k == [s EXCEPT !.tr = [s.tr EXCEPT ![t] = NoTr], !.cur = cur2]
<1>1. Kill(s, t) = Decref(k)
  BY DEF Kill, Sound, Sessions
<1>2. k.alloc = "live" /\ k.dlg = s.dlg /\ k.listed = s.listed /\ k.cur = cur2
  BY DEF Sound, Sessions, Covers
<1>3. k \in Sessions
  <2>1. [s.tr EXCEPT ![t] = NoTr] \in [Slots -> Trs \cup {NoTr}] /\ cur2 \in Slots \cup {Null}
    BY DEF Sound, Sessions
  <2> QED
    BY <2>1 DEF Sound, Sessions
<1> HIDE DEF k
<1>4. /\ Decref(k).alloc \in {k.alloc, "freed"} /\ (Decref(k).listed => k.listed)
      /\ Decref(k).cur = k.cur /\ Decref(k).dlg = k.dlg
  BY <1>3 DEF Decref, Freed, Sessions
<1> QED
  BY <1>1, <1>2, <1>4

\* The end of a transaction a message of which was not sent, which is known from
\* then on.
LEMMA UnsentSafe ==
    ASSUME NEW s, NEW n \in Nat, Sound(s, n), NEW t \in Attached(s), "sip" \in Faults
    PROVE  /\ Outcome(s, n, Unsent(s, t)) /\ Keeps(s, Unsent(s, t)) /\ Unsent(s, t).lost
           /\ Unsent(s, t).alloc \in {"live", "freed"}
<1> DEFINE k == Kill(s, t)
<1>1. Outcome(s, n, k) /\ k.alloc \in {"live", "freed"} /\ k.dlg = s.dlg
  BY KillSafe, KillDialog
<1>2. Unsent(s, t) = [k EXCEPT !.lost = TRUE]
  BY DEF Unsent
<1> HIDE DEF k
<1> DEFINE u == [k EXCEPT !.lost = TRUE]
<1>3. /\ u \in Sessions /\ u.lost /\ u.alloc = k.alloc /\ u.refs = k.refs
      /\ u.listed = k.listed /\ u.cur = k.cur /\ u.dlg = k.dlg /\ u.tr = k.tr
  BY <1>1 DEF Outcome, Sessions
<1> HIDE DEF u
<1>4. Attached(u) = Attached(k)
  BY <1>3 DEF Attached
<1>5. Safe(u, n)
  BY <1>1, <1>3, <1>4 DEF Outcome, Safe, Covers, Listing, Linked, Alone
<1>6. Inherits(s, u)
  BY <1>1, <1>3 DEF Inherits
<1>7. Outcome(s, n, u) /\ Keeps(s, u)
  BY <1>3, <1>5, <1>6 DEF Outcome, Keeps
<1> QED
  BY <1>1, <1>2, <1>3, <1>7 DEF u

---------------------------------------------------------------------------
(* What the handlers leave of a sound session.                             *)

LEMMA OkIsBoolean == \A fault : Ok(fault) \subseteq BOOLEAN
BY DEF Ok

LEMMA SipMayFail == \A sent \in Ok("sip") : sent \in BOOLEAN /\ (~ sent => "sip" \in Faults)
BY DEF Ok

LEMMA SoundIsSafe ==
    ASSUME NEW s, NEW n, Sound(s, n)
    PROVE  Outcome(s, n, s)
BY DEF Sound, Safe, Outcome, Inherits

\* What an answer leaves of s: what holders do not see, or a message was lost.
Near(s, n, r) == Outcome(s, n, r) /\ Keeps(s, r) /\ (r.lost \/ Same(s, r))

LEMMA SameNear ==
    ASSUME NEW s, NEW n, Sound(s, n), NEW u, Same(s, u)
    PROVE  /\ Near(s, n, u) /\ Sound(u, n)
           /\ \A r : Near(u, n, r) => Near(s, n, r)
<1>1. Sound(u, n) /\ Keeps(s, u) /\ Outcome(s, n, u)
  BY SameSound, SameInherits DEF Outcome, Sound, Safe
<1>2. ASSUME NEW r, Near(u, n, r) PROVE Near(s, n, r)
  <2>1. Keeps(s, r) /\ Inherits(s, r)
    BY <1>1, <1>2, KeepsTransitive DEF Near, Keeps
  <2>2. r.lost \/ Same(s, r)
    BY <1>2, SameTransitive DEF Near
  <2> QED
    BY <1>2, <2>1, <2>2 DEF Near, Outcome
<1> QED
  BY <1>1, <1>2 DEF Near

\* One answers to nobody but an attached transaction of a session in memory.
LEMMA UnansweredIsAttached ==
    ASSUME NEW s \in Sessions, NEW t \in Slots \cup {Null}, t # Null, Unanswered(s, t)
    PROVE  t \in Attached(s) /\ s.alloc = "live"
BY DEF Unanswered, Sessions, Attached, NoTr, Trs

LEMMA UnsentNear ==
    ASSUME NEW s, NEW n \in Nat, Sound(s, n), NEW t \in Attached(s), "sip" \in Faults
    PROVE  Near(s, n, Unsent(s, t))
BY UnsentSafe DEF Near

LEMMA AnswerNear ==
    ASSUME NEW s, NEW n \in Nat, Sound(s, n), NEW t \in Slots \cup {Null},
           NEW sent \in Ok("sip")
    PROVE  Near(s, n, Answer(s, t, sent))
<1>0. s \in Sessions
  BY DEF Sound
<1>1. CASE t = Null \/ ~ Unanswered(s, t)
  BY <1>0, <1>1, SameReflexive, SameNear DEF Answer
<1>2. CASE t # Null /\ Unanswered(s, t) /\ sent
  <2>1. t \in Attached(s)
    BY <1>0, <1>2, UnansweredIsAttached
  <2>2. Same(s, [s EXCEPT !.tr[t].state = "completed"])
    BY <1>0, <2>1, SameTransaction DEF Attached
  <2> QED
    BY <1>2, <2>2, SameNear DEF Answer
<1>3. CASE t # Null /\ Unanswered(s, t) /\ ~ sent
  <2>1. t \in Attached(s) /\ "sip" \in Faults
    BY <1>0, <1>3, UnansweredIsAttached, SipMayFail
  <2> QED
    BY <1>3, <2>1, UnsentNear DEF Answer
<1> QED
  BY <1>1, <1>2, <1>3

LEMMA AnswersNear ==
    ASSUME NEW s, NEW n \in Nat, Sound(s, n), NEW t \in Slots \cup {Null},
           NEW r \in MayAnswer(s, t) \cup Answers(s, t)
    PROVE  Near(s, n, r)
<1>1. r = s \/ \E sent \in Ok("sip") : r = Answer(s, t, sent)
  BY DEF MayAnswer, Answers
<1>2. Near(s, n, s)
  BY SameReflexive, SameNear DEF Sound
<1> QED
  BY <1>1, <1>2, AnswerNear

LEMMA ProvisionalNear ==
    ASSUME NEW s, NEW n \in Nat, Sound(s, n), NEW t \in Slots, NEW r \in Provisional(s, t)
    PROVE  Near(s, n, r)
<1>1. r = s \/ (r = Unsent(s, t) /\ "sip" \in Faults /\ Pending(s, t))
  BY DEF Provisional
<1>2. Near(s, n, s)
  BY SameReflexive, SameNear DEF Sound
<1>3. CASE r = Unsent(s, t) /\ "sip" \in Faults /\ Pending(s, t)
  <2>1. t \in Attached(s)
    BY <1>3 DEF Pending, Attached
  <2> QED
    BY <1>3, <2>1, UnsentNear
<1> QED
  BY <1>1, <1>2, <1>3

LEMMA ExecutedSame ==
    ASSUME NEW s \in Sessions
    PROVE  \E u \in Sessions :
              /\ Same(s, u) /\ u.dlg = s.dlg
              /\ \A r \in Executed(s) :
                    \/ r = u
                    \/ s.alloc = "live" /\ "sip" \in Faults
                       /\ \E t \in Attached(u) : r = Unsent(u, t)
<1> DEFINE waiting == {t \in Slots : s.tr[t].state = "cancelled"}
           new == [t \in Slots |->
                      IF t \in waiting THEN [s.tr[t] EXCEPT !.state = "completed"]
                      ELSE s.tr[t]]
           u == [s EXCEPT !.tr = new]
<1>1. ASSUME NEW t \in Slots
      PROVE  /\ new[t] \in Trs \cup {NoTr}
             /\ new[t].kind = s.tr[t].kind /\ new[t].age = s.tr[t].age
             /\ t \in waiting => new[t].kind # "none"
  <2>1. s.tr[t] \in Trs \cup {NoTr}
    BY DEF Sessions
  <2>2. CASE s.tr[t].state = "cancelled"
    <3>1. s.tr[t] \in Trs
      BY <2>1, <2>2 DEF NoTr
    <3> QED
      BY <2>2, <3>1 DEF Trs
  <2>3. CASE s.tr[t].state # "cancelled"
    BY <2>1, <2>3
  <2> QED
    BY <2>2, <2>3
<1>2. new \in [Slots -> Trs \cup {NoTr}]
  BY <1>1
<1>3. Executed(s) = {u} \cup (IF "sip" \in Faults /\ s.alloc = "live"
                             THEN {Unsent(u, t) : t \in waiting} ELSE {})
  BY DEF Executed
<1>w. waiting \subseteq Slots
  OBVIOUS
<1> HIDE DEF new, waiting
<1>4. /\ u \in Sessions /\ u.tr = new /\ u.dlg = s.dlg /\ u.alloc = s.alloc
      /\ u.listed = s.listed /\ u.refs = s.refs /\ u.cur = s.cur /\ u.lost = s.lost
  BY <1>2 DEF Sessions
<1> HIDE DEF u
<1>5. Same(s, u)
  BY <1>1, <1>4 DEF Same, WaitsAs
<1>6. waiting \subseteq Attached(u)
  BY <1>1, <1>4, <1>w DEF Attached
<1> QED
  BY <1>3, <1>4, <1>5, <1>6

LEMMA ExecutedNear ==
    ASSUME NEW s, NEW n \in Nat, Sound(s, n), NEW r \in Executed(s)
    PROVE  Near(s, n, r)
<1>1. PICK u \in Sessions :
         /\ Same(s, u)
         /\ r = u \/ ("sip" \in Faults /\ \E t \in Attached(u) : r = Unsent(u, t))
  BY ExecutedSame DEF Sound
<1>2. Near(s, n, u) /\ Sound(u, n) /\ (Near(u, n, r) => Near(s, n, r))
  BY <1>1, SameNear
<1> QED
  BY <1>1, <1>2, UnsentNear

LEMMA ByeSipSound ==
    ASSUME NEW s, NEW n \in Nat, Sound(s, n), NEW made \in BOOLEAN, NEW sent \in BOOLEAN
    PROVE  Sound(ByeSip(s, made, sent), n) /\ Keeps(s, ByeSip(s, made, sent))
<1> DEFINE a == Attach(s, "NICT", "completed", TRUE)
<1>0. s \in Sessions /\ Keeps(s, s)
  BY DEF Sound, Keeps, Inherits
<1>1. CASE s.sip /\ made /\ Free(s) # {}
  <2>1. Sound(a, n) /\ Keeps(s, a)
    BY <1>1, AttachSound
  <2>2. Kill(a, NextSlot(s)) = s
    BY <1>0, <1>1, KillAttached
  <2> QED
    BY <1>0, <1>1, <2>1, <2>2 DEF ByeSip
<1>2. CASE ~ (s.sip /\ made /\ Free(s) # {})
  BY <1>0, <1>2 DEF ByeSip
<1> QED
  BY <1>1, <1>2

LEMMA AcceptSafe ==
    ASSUME NEW s, NEW n \in Nat, Sound(s, n), IsIST(s, s.cur)
    PROVE  Outcome(s, n, Accept(s, s.cur))
<1> DEFINE d == [s EXCEPT !.sip = TRUE]
<1>1. Same(s, d)
  BY SameSip DEF Sound
<1>2. Sound(d, n) /\ Attached(d) = Attached(s) /\ Outcome(s, n, d)
  BY <1>1, SameNear, SameAttached DEF Near
<1>3. Accept(s, s.cur) = IF Pending(s, s.cur) THEN Kill(d, s.cur) ELSE d
  BY DEF Accept
<1> HIDE DEF d
<1>4. CASE Pending(s, s.cur)
  <2>1. s.cur \in Attached(d)
    BY <1>2, <1>4 DEF Pending, Attached, IsIST, Sound, Sessions
  <2>2. Outcome(d, n, Kill(d, s.cur))
    BY <1>2, <2>1, KillSafe
  <2> QED
    BY <1>2, <1>3, <1>4, <2>2, InheritsTransitive DEF Outcome
<1>5. CASE ~ Pending(s, s.cur)
  BY <1>2, <1>3, <1>5
<1> QED
  BY <1>4, <1>5

LEMMA FailSame ==
    ASSUME NEW s \in Sessions, NEW r \in Fail(s)
    PROVE  Same(s, r.ses)
<1>1. PICK sent \in Ok("send") : r = [ses |-> ByeLeelen(s, sent), ret |-> 1]
  BY DEF Fail
<1>2. sent \in BOOLEAN
  BY OkIsBoolean
<1> QED
  BY <1>1, <1>2, SameBye

LEMMA RefuseNear ==
    ASSUME NEW s, NEW n \in Nat, Sound(s, n), NEW r \in Refuse(s) \cup Fail(s)
    PROVE  Near(s, n, r.ses)
<1>1. s \in Sessions /\ s.cur \in Slots \cup {Null}
  BY DEF Sound, Sessions
<1>2. r.ses \in Answers(s, s.cur) \/ r \in Fail(s)
  BY DEF Refuse
<1> QED
  BY <1>1, <1>2, AnswersNear, FailSame, SameNear

LEMMA ConnectingResults ==
    ASSUME NEW s, NEW r \in Connecting(s)
    PROVE  \/ r \in Fail(s) \/ r \in Refuse(s) \/ r \in Refuse([s EXCEPT !.sip = TRUE])
           \/ IsIST(s, s.cur) /\ r.ses = Accept(s, s.cur)
<1>1. CASE IsIST(s, s.cur)
  <2> DEFINE d == [s EXCEPT !.sip = TRUE]
             Result(opened, encoded, built) ==
                IF ~ opened \/ ~ encoded THEN Refuse(s)
                ELSE IF built THEN End(Accept(s, s.cur)) ELSE Refuse(d)
  <2>1. Connecting(s) =
           UNION {Result(opened, encoded, built) :
              opened \in SIPLeelenSession_connect, encoded \in encode_media_formats,
              built \in osip_message_response}
    BY <1>1 DEF Connecting
  <2> HIDE DEF d
  <2>2. \A opened, encoded, built : r \in Result(opened, encoded, built) =>
           r \in Refuse(s) \/ r \in End(Accept(s, s.cur)) \/ r \in Refuse(d)
    OBVIOUS
  <2> HIDE DEF Result
  <2>3. PICK opened, encoded, built : r \in Result(opened, encoded, built)
    BY <2>1
  <2>4. r \in Refuse(s) \/ r \in End(Accept(s, s.cur)) \/ r \in Refuse(d)
    BY <2>2, <2>3
  <2>5. r \in End(Accept(s, s.cur)) => r.ses = Accept(s, s.cur)
    BY DEF End
  <2> QED
    BY <1>1, <2>4, <2>5 DEF d
<1>2. CASE ~ IsIST(s, s.cur)
  BY <1>2 DEF Connecting
<1> QED
  BY <1>1, <1>2

\* A session that is there, and that one whose SIP dialog is set up as well.
LEMMA ConnectingNear ==
    ASSUME NEW s, NEW n \in Nat, Sound(s, n), NEW r \in Connecting(s)
    PROVE  \/ Near(s, n, r.ses)
           \/ IsIST(s, s.cur) /\ r.ses = Accept(s, s.cur)
<1> DEFINE d == [s EXCEPT !.sip = TRUE]
<1>1. Sound(d, n) /\ (Near(d, n, r.ses) => Near(s, n, r.ses))
  BY SameSip, SameNear DEF Sound
<1>2. CASE r \in Fail(s) \/ r \in Refuse(s)
  BY <1>2, RefuseNear
<1>3. CASE r \in Refuse(d)
  <2> HIDE DEF d
  <2> QED
    BY <1>1, <1>3, RefuseNear
<1> QED
  BY <1>2, <1>3, ConnectingResults

LEMMA ConnectingSafe ==
    ASSUME NEW s, NEW n \in Nat, Sound(s, n), NEW r \in Connecting(s)
    PROVE  Outcome(s, n, r.ses)
BY ConnectingNear, AcceptSafe DEF Near

\* Handled, code by code.
LEMMA HandledOther ==
    ASSUME NEW s, NEW old
    PROVE  Handled(s, old, "other") = {[ses |-> s, ret |-> 1]}
<1>1. "other" # "BYE" /\ "other" # "OK" /\ "other" \notin Establishing
  BY DEF Establishing, Invitations
<1> QED
  BY <1>1, Zenon DEF Handled

LEMMA HandledBye ==
    ASSUME NEW s, NEW old
    PROVE  Handled(s, old, "BYE") =
              IF old = "DISCONNECTED" THEN End(s)
              ELSE IF old # "CONNECTING" THEN Hangup(s)
              ELSE IF IsIST(s, s.cur) THEN Refuse(s) ELSE {[ses |-> s, ret |-> 1]}
<1>1. "BYE" # "other" /\ "BYE" # "OK" /\ "BYE" \notin Establishing
  BY DEF Establishing, Invitations
<1> QED
  BY <1>1, Zenon DEF Handled

LEMMA HandledOk ==
    ASSUME NEW s, NEW old
    PROVE  Handled(s, old, "OK") = IF old = "CONNECTING" THEN Connecting(s) ELSE End(s)
<1>1. "OK" # "BYE" /\ "OK" # "other" /\ "OK" \notin Establishing
  BY DEF Establishing, Invitations
<1> QED
  BY <1>1, Zenon DEF Handled

LEMMA HandledCall ==
    ASSUME NEW s, NEW old, NEW code \in {"CALL", "ACCEPTED"}
    PROVE  Handled(s, old, code) =
              IF old = "CONNECTING" THEN Connecting(s)
              ELSE IF old = "CONNECTED" THEN End(s)
              ELSE IF old = "DISCONNECTED" /\ registered THEN End(Incref(s))
              ELSE Fail(s)
<1>1. code # "BYE" /\ code # "other" /\ code # "OK" /\ code \in Establishing
  BY DEF Establishing, Invitations
<1> QED
  BY <1>1, Zenon DEF Handled

\* What a code does, without the conditions on the state of the dialog.
LEMMA HandledResults ==
    ASSUME NEW s, NEW old, NEW code \in {"OK", "BYE", "CALL", "ACCEPTED", "other"},
           NEW r \in Handled(s, old, code)
    PROVE  \/ r.ses = s
           \/ r.ses = Incref(s)
           \/ \E made \in BOOLEAN, sent \in BOOLEAN : r.ses = ByeSip(s, made, sent)
           \/ r \in Refuse(s)
           \/ r \in Fail(s)
           \/ r \in Connecting(s)
<1>1. CASE code = "other"
  BY <1>1, HandledOther
<1>2. CASE code = "BYE"
  <2>1. ASSUME r \in Hangup(s)
        PROVE  \E made \in BOOLEAN, sent \in BOOLEAN : r.ses = ByeSip(s, made, sent)
    <3>1. PICK made \in osip_message_request, sent \in Ok("sip") : r \in End(ByeSip(s, made, sent))
      BY <2>1 DEF Hangup
    <3> QED
      BY <3>1, OkIsBoolean DEF End, osip_message_request
  <2> QED
    BY <1>2, <2>1, HandledBye DEF End
<1>3. CASE code = "OK"
  BY <1>3, HandledOk DEF End
<1>4. CASE code \in {"CALL", "ACCEPTED"}
  BY <1>4, HandledCall DEF End
<1> QED
  BY <1>1, <1>2, <1>3, <1>4

LEMMA HandledSafe ==
    ASSUME NEW s, NEW n \in Nat, Sound(s, n),
           NEW old, NEW code \in {"OK", "BYE", "CALL", "ACCEPTED", "other"},
           NEW r \in Handled(s, old, code)
    PROVE  Outcome(s, n, r.ses)
<1>1. CASE r.ses = s \/ r.ses = Incref(s)
  BY <1>1, IncrefSound, SoundIsSafe DEF Outcome, Keeps
<1>2. CASE \E made \in BOOLEAN, sent \in BOOLEAN : r.ses = ByeSip(s, made, sent)
  BY <1>2, ByeSipSound, SoundIsSafe DEF Outcome, Keeps
<1>3. CASE r \in Refuse(s) \/ r \in Fail(s)
  BY <1>3, RefuseNear DEF Near
<1>4. CASE r \in Connecting(s)
  BY <1>4, ConnectingSafe
<1> QED
  BY <1>1, <1>2, <1>3, <1>4, HandledResults

\* What SIPLeelenSession_receive does before it looks at the code.
LEMMA ReceivedMoves ==
    ASSUME NEW s \in Sessions, NEW code \in {"OK", "BYE", "CALL", "ACCEPTED", "other"},
           NEW r \in Received(s, code)
    PROVE  \E moved \in Sessions :
              /\ Same(s, moved)
              /\ moved.tr = s.tr
              /\ \/ r.ses = moved /\ r.ret = 1
                 \/ /\ r \in Handled(moved, s.dlg.state, code)
                    /\ code # "other" => ~ Waits(moved.dlg)
<1>1. s.dlg \in Dialogs
  BY DEF Sessions
<1> DEFINE Result(parsed, sent) ==
        IF code = "OK" THEN ReceivedOk(s.dlg, FALSE, parsed)
        ELSE ReceivedCode(s.dlg, code, parsed, sent)
           Moved(parsed, sent) == [s EXCEPT !.dlg = Result(parsed, sent).dialog]
<1>2. PICK parsed \in LeelenMessage_init, sent \in Ok("send") :
         r \in IF Result(parsed, sent).ret = 0 THEN Handled(Moved(parsed, sent), s.dlg.state, code)
              ELSE {[ses |-> Moved(parsed, sent), ret |-> 1]}
  <2> DEFINE Leaves(p, q) ==
          IF Result(p, q).ret = 0 THEN Handled(Moved(p, q), s.dlg.state, code)
          ELSE {[ses |-> Moved(p, q), ret |-> 1]}
  <2>1. Received(s, code) = UNION {Leaves(p, q) : p \in LeelenMessage_init, q \in Ok("send")}
    BY DEF Received
  <2> HIDE DEF Leaves
  <2>2. PICK p \in LeelenMessage_init, q \in Ok("send") : r \in Leaves(p, q)
    BY <2>1
  <2> USE DEF Leaves
  <2> QED
    BY <2>2
<1>3. parsed \in BOOLEAN /\ sent \in BOOLEAN
  BY OkIsBoolean DEF LeelenMessage_init
<1>4. /\ Result(parsed, sent).dialog \in Dialogs /\ WaitsAs(s.dlg, Result(parsed, sent).dialog)
      /\ Result(parsed, sent).ret = 0 /\ code # "other" => ~ Waits(Result(parsed, sent).dialog)
  BY <1>1, <1>3, ReceivedDialog
<1> HIDE DEF Result
<1>5. /\ Same(s, Moved(parsed, sent)) /\ Moved(parsed, sent).tr = s.tr
      /\ Moved(parsed, sent).dlg = Result(parsed, sent).dialog
  BY <1>4, SameDialog DEF Sessions
<1>6. Moved(parsed, sent) \in Sessions
  BY <1>5 DEF Same
<1> HIDE DEF Moved
<1> QED
  BY <1>2, <1>4, <1>5, <1>6

LEMMA ReceivedSafe ==
    ASSUME NEW s, NEW n \in Nat, Sound(s, n),
           NEW code \in {"OK", "BYE", "CALL", "ACCEPTED", "other"}, NEW r \in Received(s, code)
    PROVE  Outcome(s, n, r.ses)
<1>1. PICK moved \in Sessions :
         /\ Same(s, moved)
         /\ (r.ses = moved /\ r.ret = 1) \/ r \in Handled(moved, s.dlg.state, code)
  BY ReceivedMoves DEF Sound
<1>2. Sound(moved, n) /\ Inherits(s, moved)
  BY <1>1, SameSound, SameInherits
<1>3. Outcome(moved, n, r.ses)
  BY <1>1, <1>2, HandledSafe, SoundIsSafe
<1> QED
  BY <1>2, <1>3, InheritsTransitive DEF Outcome

---------------------------------------------------------------------------
(* The sweep.                                                              *)

\* The timeout of the CALL makes the dialog DISCONNECTED before a BYE could be
\* sent, so the reference that is taken for the answer is given back once.
LEMMA DialTimeoutResults ==
    ASSUME NEW s, NEW n \in Nat, Sound(s, n), s.dlg.state = "CONNECTING", AckExpired(s.dlg),
           s.cur # Null, NEW r \in DialTimeout(s)
    PROVE  \E c \in Sessions :
              /\ Sound(c, n + 1) /\ Sound(c, n) /\ ~ Waits(c.dlg) /\ Inherits(s, c)
              /\ r \in Answers(c, c.cur) \/ r = Decref(c)
<1> DEFINE u == [s EXCEPT !.dlg = AckChecked(s.dlg)]
           c == Incref(u)
<1>1. s \in Sessions /\ s.dlg \in Dialogs /\ Armed(s.dlg)
  BY DEF Sound, Linked, Sessions
<1>2. Same(s, u) /\ u.dlg = AckChecked(s.dlg)
  BY <1>1, CheckedDialog, SameDialog DEF Sessions
<1>3. Sound(u, n)
  BY <1>2, SameSound
<1>4. [s EXCEPT !.dlg = AckChecked(@)] = u
  BY <1>1 DEF Sessions
<1> HIDE DEF u
<1>5. /\ Sound(c, n + 1) /\ Sound(c, n) /\ c \in Sessions /\ c.dlg = u.dlg
      /\ Inherits(s, c)
  <2>1. Inherits(s, u)
    BY <1>2, SameInherits
  <2>2. Sound(c, n + 1) /\ Sound(c, n) /\ Inherits(u, c)
    BY <1>3, IncrefSound DEF Keeps
  <2>3. c.dlg = u.dlg
    BY <1>3 DEF Sound, Incref, Sessions
  <2> QED
    BY <2>1, <2>2, <2>3, InheritsTransitive DEF Sound
<1>6. ~ MayBye(c.dlg) /\ ~ Waits(c.dlg)
  <2>1. s.dlg.live => AckChecked(s.dlg).state = "DISCONNECTED"
    BY <1>1, CheckedDialog DEF Waits
  <2>2. AckChecked(s.dlg).live = s.dlg.live
    BY <1>1, CheckedDialog
  <2> QED
    BY <1>2, <1>5, <2>1, <2>2 DEF MayBye, Waits
<1>7. \A sent : ByeLeelen(c, sent) = c
  BY <1>6 DEF ByeLeelen
<1>8. r \in Answers(c, c.cur) \/ r = Decref(c)
  <2> DEFINE Result(sent, made, out) ==
          LET b == IF sent \/ ~ MayBye(c.dlg) THEN ByeLeelen(c, sent) ELSE Decref(ByeLeelen(c, sent))
          IN  IF made THEN Answer(b, b.cur, out) ELSE Decref(b)
  <2>1. DialTimeout(s) = {Result(sent, made, out)
            : sent \in Ok("send"), made \in osip_message_response, out \in Ok("sip")}
    BY <1>4 DEF DialTimeout
  <2>2. \A sent, made, out : Result(sent, made, out) \in {Answer(c, c.cur, out), Decref(c)}
    BY <1>6, <1>7
  <2> HIDE DEF Result
  <2>3. PICK sent \in Ok("send"), made \in osip_message_response, out \in Ok("sip") :
           r = Result(sent, made, out)
    BY <2>1
  <2>4. r = Answer(c, c.cur, out) \/ r = Decref(c)
    BY <2>2, <2>3
  <2> QED
    BY <2>4 DEF Answers
<1> HIDE DEF c
<1> QED
  BY <1>5, <1>6, <1>8

LEMMA DialTimeoutSafe ==
    ASSUME NEW s, NEW n \in Nat, Sound(s, n), s.dlg.state = "CONNECTING", AckExpired(s.dlg),
           NEW r \in DialTimeout(s)
    PROVE  Outcome(s, n, r)
<1>1. CASE s.cur = Null
  <2>1. r = [s EXCEPT !.alloc = "crashed"]
    BY <1>1 DEF DialTimeout
  <2> QED
    BY <2>1 DEF Sessions, Safe, Sound, Outcome, Inherits
<1>2. CASE s.cur # Null
  <2>1. PICK c \in Sessions :
           /\ Sound(c, n + 1) /\ Sound(c, n) /\ Inherits(s, c)
           /\ r \in Answers(c, c.cur) \/ r = Decref(c)
    BY <1>2, DialTimeoutResults
  <2>2. c.cur \in Slots \cup {Null}
    BY DEF Sessions
  <2>3. CASE r \in Answers(c, c.cur)
    <3>1. Near(c, n, r)
      BY <2>1, <2>2, <2>3, AnswersNear
    <3> QED
      BY <2>1, <3>1, InheritsTransitive DEF Near, Outcome
  <2>4. CASE r = Decref(c)
    <3>1. Covers(c, n + 1) /\ Linked(c)
      BY <2>1 DEF Sound
    <3>2. Outcome(c, n, r)
      BY <2>4, <3>1, DecrefSafe
    <3> QED
      BY <2>1, <3>2, InheritsTransitive DEF Outcome
  <2> QED
    BY <2>1, <2>3, <2>4
<1> QED
  BY <1>1, <1>2

LEMMA SessionTimeoutResults ==
    ASSUME NEW s, NEW r \in SessionTimeout(s)
    PROVE  \E sent \in BOOLEAN, made \in BOOLEAN, out \in BOOLEAN :
              LET b == ByeSip(ByeLeelen(s, sent), made, out)
              IN  r = b \/ (~ Counted /\ r = Decref(b))
<1> DEFINE Result(sent, made, out) ==
        LET b == ByeSip(ByeLeelen(s, sent), made, out)
        IN  IF sent \/ ~ MayBye(s.dlg) THEN b ELSE Decref(b)
<1>1. /\ Ok("bye") \subseteq BOOLEAN /\ osip_message_request \subseteq BOOLEAN
      /\ Ok("sip") \subseteq BOOLEAN
      /\ Counted => Ok("bye") = {TRUE}
  BY OkIsBoolean DEF Ok, Counted, osip_message_request
<1>2. SessionTimeout(s) = {Result(sent, made, out)
          : sent \in Ok("bye"), made \in osip_message_request, out \in Ok("sip")}
  BY DEF SessionTimeout
<1>3. \A sent, made, out :
         LET b == ByeSip(ByeLeelen(s, sent), made, out)
         IN  Result(sent, made, out) = b \/ (sent # TRUE /\ Result(sent, made, out) = Decref(b))
  OBVIOUS
<1> HIDE DEF Result
<1>4. PICK sent \in Ok("bye"), made \in osip_message_request, out \in Ok("sip") :
         r = Result(sent, made, out)
  BY <1>2
<1>5. /\ sent \in BOOLEAN /\ made \in BOOLEAN /\ out \in BOOLEAN
      /\ LET b == ByeSip(ByeLeelen(s, sent), made, out)
         IN  r = b \/ (sent # TRUE /\ r = Decref(b))
  BY <1>1, <1>3, <1>4
<1>6. LET b == ByeSip(ByeLeelen(s, sent), made, out)
      IN  r = b \/ (~ Counted /\ r = Decref(b))
  BY <1>1, <1>4, <1>5
<1> QED
  BY <1>5, <1>6

LEMMA SessionTimeoutSafe ==
    ASSUME NEW s, NEW n \in Nat, Sound(s, n), NEW r \in SessionTimeout(s)
    PROVE  Outcome(s, n, r)
<1>1. PICK sent \in BOOLEAN, made \in BOOLEAN, out \in BOOLEAN :
         LET b == ByeSip(ByeLeelen(s, sent), made, out)
         IN  r = b \/ (~ Counted /\ r = Decref(b))
  BY SessionTimeoutResults
<1> DEFINE c == ByeLeelen(s, sent)
           b == ByeSip(c, made, out)
<1>2. Sound(c, n) /\ Inherits(s, c)
  BY SameBye, SameSound, SameInherits DEF Sound
<1>3. r = b \/ (~ Counted /\ r = Decref(b))
  BY <1>1
<1> HIDE DEF c
<1>4. Sound(b, n) /\ Inherits(s, b)
  BY <1>2, ByeSipSound, InheritsTransitive DEF Keeps
<1> HIDE DEF b
<1>5. CASE r = b
  BY <1>4, <1>5, SoundIsSafe DEF Outcome
<1>6. CASE ~ Counted /\ r = Decref(b)
  <2>1. b \in Sessions /\ Covers(b, n + 1) /\ Linked(b)
    BY <1>4, <1>6 DEF Sound, Covers
  <2>2. Outcome(b, n, r)
    BY <1>6, <2>1, DecrefSafe
  <2> QED
    BY <1>4, <2>2, InheritsTransitive DEF Outcome
<1> QED
  BY <1>3, <1>5, <1>6

\* The session leaves the array and gives back the reference of the array.
LEMMA UnlistedSafe ==
    ASSUME NEW s, NEW n \in Nat, Sound(s, n), s.listed
    PROVE  Outcome(s, n, DecrefOnly([s EXCEPT !.listed = FALSE]))
<1> DEFINE u == [s EXCEPT !.listed = FALSE]
<1>1. /\ u \in Sessions /\ ~ u.listed /\ u.alloc = s.alloc /\ u.refs = s.refs
      /\ u.cur = s.cur /\ u.dlg = s.dlg /\ u.tr = s.tr /\ u.lost = s.lost
  BY DEF Sound, Sessions
<1> HIDE DEF u
<1>2. Attached(u) = Attached(s) /\ Inherits(s, u)
  BY <1>1 DEF Attached, Inherits
<1>3. Covers(u, n + 1) /\ Linked(u)
  BY <1>1, <1>2, AttachedIsFinite DEF Sound, Covers, Listing, Linked
<1>4. Sound(DecrefOnly(u), n) /\ Inherits(u, DecrefOnly(u))
  BY <1>1, <1>3, DecrefOnlySound DEF Keeps
<1>5. Outcome(s, n, DecrefOnly(u))
  BY <1>2, <1>4, InheritsTransitive, SoundIsSafe DEF Outcome
<1> QED
  BY <1>5 DEF u

LEMMA SweptSafe ==
    ASSUME NEW s, NEW n \in Nat, Sound(s, n), s.listed, NEW r \in Swept(s)
    PROVE  Outcome(s, n, r)
<1>1. \/ r = s
      \/ s.dlg.state = "CONNECTING" /\ AckExpired(s.dlg) /\ r \in DialTimeout(s)
      \/ r \in SessionTimeout(s)
      \/ r = DecrefOnly([s EXCEPT !.listed = FALSE])
  BY Zenon DEF Swept
<1> QED
  BY <1>1, DialTimeoutSafe, SessionTimeoutSafe, UnlistedSafe, SoundIsSafe

---------------------------------------------------------------------------
(* The inductive invariant.                                                *)

Busy == IF Running THEN 1 ELSE 0

\* A worker that has not yet made its transaction the current one works for a
\* transaction that libosip2 does not end before the worker is done, unless a
\* message of it was lost.
JobAttached(s) ==
    worker \in {"discover", "prepare"} =>
        s.lost \/ (job \in Attached(s) /\ s.tr[job].age < Linger)

\* A worker that is past its discovery has a dialog.
WorkerHasDialog == worker \in {"prepare", "call"} => ses.dlg.live

\* A dialog that has not been set up does not look like one that waits.
CleanMemory == \A d \in Garbage : d.state # "CONNECTING"

SafeInv ==
    /\ TypeOK
    /\ Safe(ses, Busy + leaving)
    /\ ses.alloc = "live" => JobAttached(ses)
    /\ WorkerHasDialog
    /\ ses.lost => "sip" \in Faults
    /\ CleanMemory => ~ Dead(ses.dlg)

WorkerTypeOK == worker \in {"none", "discover", "prepare", "call", "reply", "finish"} /\ job \in Slots \cup {Null}

LEMMA KeepsJob ==
    ASSUME NEW s, NEW r, Keeps(s, r), JobAttached(s)
    PROVE  JobAttached(r)
BY DEF Keeps, JobAttached, Inherits

LEMMA BusyIsNumber == TypeOK => Busy \in Nat /\ Busy + leaving \in Nat
BY DEF TypeOK, Busy

\* A session in memory is sound.
LEMMA LiveIsSound ==
    ASSUME SafeInv, ses.alloc = "live"
    PROVE  Sound(ses, Busy + leaving) /\ JobAttached(ses) /\ Inherits(ses, ses)
BY DEF SafeInv, Safe, Sound, TypeOK, Inherits

\* One that does not exist yet has no holders and becomes sound.
LEMMA NewIsSound ==
    ASSUME SafeInv, ses.alloc = "none"
    PROVE  /\ ~ Running /\ leaving = 0 /\ Busy = 0
           /\ Sound(New(ses), 0) /\ New(ses).dlg = ses.dlg /\ Attached(New(ses)) = {}
           /\ JobAttached(New(ses)) /\ Inherits(ses, New(ses)) /\ New(ses).lost = ses.lost
<1>1. Alone(ses) /\ Linked(ses) /\ Busy + leaving = 0 /\ ses \in Sessions /\ leaving \in Nat
  BY DEF SafeInv, Safe, TypeOK, Covers
<1>2. ~ Running /\ leaving = 0 /\ Busy = 0
  BY <1>1 DEF Busy
<1>3. /\ New(ses) \in Sessions /\ New(ses).alloc = "live" /\ New(ses).listed
      /\ New(ses).refs = ses.refs /\ ses.refs \in Nat \ {0} /\ New(ses).lost = ses.lost
      /\ New(ses).cur = ses.cur /\ New(ses).dlg = ses.dlg /\ New(ses).tr = ses.tr
  BY <1>1 DEF New, Sessions
<1>4. Attached(New(ses)) = Attached(ses) /\ Attached(ses) = {}
  BY <1>1, <1>3 DEF Attached, Alone
<1>5. Cardinality({}) = 0
  BY FS_EmptySet
<1>6. Covers(New(ses), 0)
  BY <1>3, <1>4, <1>5 DEF Covers, Listing
<1>7. Linked(New(ses))
  BY <1>1, <1>3, <1>4 DEF Linked
<1> QED
  BY <1>2, <1>3, <1>4, <1>6, <1>7 DEF Sound, JobAttached, Running, Inherits

---------------------------------------------------------------------------
(* SIP requests.                                                           *)

\* What has to be shown of an action that leaves `leaving' alone.
SafeStep ==
    /\ ses' \in Sessions /\ WorkerTypeOK' /\ Safe(ses', Busy' + leaving)
    /\ (ses'.alloc = "live" => JobAttached(ses)')
    /\ WorkerHasDialog' /\ Inherits(ses, ses')

\* The mainloop gets hold of session s, which is `ses' or has just been made.
Held(s) ==
    Sound(s, Busy + leaving) /\ JobAttached(s) /\ Inherits(ses, s)

LEMMA KeepsStep ==
    ASSUME SafeInv, NEW s, Held(s), Keeps(s, ses'),
           Outcome(s, Busy + leaving, ses'), UNCHANGED <<worker, job>>
    PROVE  SafeStep
<1>1. Busy' = Busy /\ WorkerTypeOK'
  BY DEF Busy, Running, SafeInv, TypeOK, WorkerTypeOK
<1>2. JobAttached(ses')
  BY KeepsJob DEF Held
<1>3. Inherits(ses, ses')
  BY InheritsTransitive DEF Held, Outcome
<1>4. WorkerHasDialog'
  BY <1>3 DEF SafeInv, WorkerHasDialog, Inherits
<1> QED
  BY <1>1, <1>2, <1>3, <1>4 DEF SafeStep, JobAttached, Outcome

LEMMA SoundStep ==
    ASSUME SafeInv, NEW s, Held(s), Keeps(s, ses'),
           Sound(ses', Busy + leaving), UNCHANGED <<worker, job>>
    PROVE  SafeStep
<1>1. Outcome(s, Busy + leaving, ses')
  BY SoundIsSafe DEF Outcome, Keeps
<1> QED
  BY <1>1, KeepsStep

LEMMA IstInviteStep ==
    ASSUME SafeInv, NEW s, Held(s),
           NEW t \in Attached(s), s.lost \/ s.tr[t].age < Linger, IstInvite(s, t)
    PROVE  SafeStep
<1> DEFINE n == Busy + leaving
           c == Checked(s)
           i == Incref(c)
<1>n. n \in Nat /\ t \in Slots /\ s \in Sessions /\ Sound(s, n) /\ n = Busy + leaving
  BY BusyIsNumber DEF SafeInv, Held, Sound, Attached
<1>1. Sound(c, n) /\ Keeps(s, c) /\ \A r : Near(c, n, r) => Near(s, n, r)
  BY <1>n, SameChecked, SameNear, SameSound
<1>2. Sound(i, n + 1) /\ Keeps(c, i)
  BY <1>n, <1>1, IncrefSound
<1> HIDE DEF n, c, i
<1>3. \/ ses' \in Provisional(c, t) \cup MayAnswer(c, t) /\ UNCHANGED <<worker, job>>
      \/ /\ ~ Running /\ ses' \in Provisional(i, t) /\ job' = t
         /\ worker' = (IF c.dlg.live THEN "prepare" ELSE "discover")
  <2>1. CASE Established(s) \/ ~ s.tr[t].good
    BY <2>1 DEF IstInvite, c
  <2>2. CASE ~ (Established(s) \/ ~ s.tr[t].good) /\ Running
    BY <2>2 DEF IstInvite, c
  <2>3. CASE ~ (Established(s) \/ ~ s.tr[t].good) /\ ~ Running
    BY <2>3 DEF IstInvite, Start, c, i
  <2> QED
    BY <2>1, <2>2, <2>3
<1>4. CASE ses' \in Provisional(c, t) \cup MayAnswer(c, t) /\ UNCHANGED <<worker, job>>
  <2>1. Near(c, n, ses')
    BY <1>n, <1>1, <1>4, ProvisionalNear, AnswersNear
  <2>2. Outcome(s, n, ses') /\ Keeps(s, ses')
    BY <1>1, <2>1 DEF Near
  <2> QED
    BY <1>n, <1>4, <2>2, KeepsStep
<1>5. CASE /\ ~ Running /\ ses' \in Provisional(i, t) /\ job' = t
           /\ worker' = (IF c.dlg.live THEN "prepare" ELSE "discover")
  <2>1. Near(i, n + 1, ses')
    BY <1>n, <1>2, <1>5, ProvisionalNear
  <2>2. Busy = 0 /\ Busy' = 1 /\ Busy' + leaving = n + 1
    BY <1>5, <1>n DEF Busy, Running, SafeInv, TypeOK
  <2>3. ses' \in Sessions /\ Safe(ses', Busy' + leaving)
    BY <2>1, <2>2 DEF Near, Outcome
  <2>4. Keeps(c, ses') /\ Keeps(s, ses')
    BY <1>1, <1>2, <2>1, KeepsTransitive DEF Near
  <2>5. ses'.lost \/ (t \in Attached(ses') /\ ses'.tr[t].age < Linger)
    BY <2>4 DEF Keeps, Inherits
  <2>6. JobAttached(ses)' /\ WorkerTypeOK'
    BY <1>5, <1>n, <2>5 DEF JobAttached, WorkerTypeOK, Attached
  <2>7. WorkerHasDialog'
    BY <1>5, <2>4 DEF WorkerHasDialog, Keeps, Inherits
  <2>8. Inherits(ses, ses')
    BY <2>4, InheritsTransitive DEF Held, Keeps
  <2> QED
    BY <2>3, <2>6, <2>7, <2>8 DEF SafeStep
<1> QED
  BY <1>3, <1>4, <1>5

LEMMA ReceiveInviteStep ==
    ASSUME SafeInv, NEW s, Held(s), ReceiveInvite(s)
    PROVE  SafeStep
<1>1. PICK good \in BOOLEAN :
         LET t == NextSlot(s)
             a == Attach(s, "IST", "proceeding", good)
         IN  IstInvite(a, t) \/ (ses' = Kill(a, t) /\ UNCHANGED <<worker, job>>)
  BY DEF ReceiveInvite
<1> DEFINE t == NextSlot(s)
           a == Attach(s, "IST", "proceeding", good)
<1>0. Sound(s, Busy + leaving) /\ Busy + leaving \in Nat /\ Free(s) # {} /\ s \in Sessions
  BY BusyIsNumber DEF Held, ReceiveInvite, SafeInv, Sound
<1>2. /\ t \in Slots \ Attached(s)
      /\ Sound(a, Busy + leaving) /\ Keeps(s, a)
      /\ Attached(a) = Attached(s) \cup {t} /\ a.tr[t].age = 0
      /\ Kill(a, t) = s
  BY <1>0, AttachSound, KillAttached
<1>3. IstInvite(a, t) \/ (ses' = Kill(a, t) /\ UNCHANGED <<worker, job>>)
  BY <1>1
<1> HIDE DEF a, t
<1>4. Held(a) /\ t \in Attached(a)
  BY <1>2, KeepsJob, InheritsTransitive DEF Held, Keeps
<1>5. a.tr[t].age < Linger
  BY <1>2, SessionAssumption, TimeAssumption DEF SessionAssumption, TimeAssumption
<1>6. CASE IstInvite(a, t)
  BY <1>4, <1>5, <1>6, IstInviteStep
<1>7. CASE ses' = Kill(a, t) /\ UNCHANGED <<worker, job>>
  <2>1. Keeps(s, s) /\ ses' = s
    BY <1>2, <1>7 DEF Keeps, Inherits
  <2> QED
    BY <1>0, <1>7, <2>1, SoundStep
<1> QED
  BY <1>3, <1>6, <1>7

\* What is left of the session when what was queued has been executed.
LEMMA RetransmittedStep ==
    ASSUME SafeInv, RetransmittedInvite
    PROVE  SafeStep
<1>1. PICK s \in Executed(ses), t \in Attached(ses) :
         /\ ses.tr[t].kind = "IST" /\ ses.tr[t].age <= RetryAge
         /\ IF s.alloc = "live" /\ t \in Attached(s) THEN IstInvite(s, t)
            ELSE ses' = s /\ UNCHANGED <<worker, job>>
  BY DEF RetransmittedInvite
<1>2. /\ Held(ses) /\ Sound(ses, Busy + leaving) /\ Busy + leaving \in Nat
      /\ ses \in Sessions
  BY LiveIsSound, BusyIsNumber DEF RetransmittedInvite, SafeInv, Held, Sound
<1>3. Near(ses, Busy + leaving, s)
  BY <1>1, <1>2, ExecutedNear
<1>4. CASE ses' = s /\ UNCHANGED <<worker, job>>
  BY <1>2, <1>3, <1>4, KeepsStep DEF Near
<1>5. CASE s.alloc = "live" /\ t \in Attached(s) /\ IstInvite(s, t)
  <2>1. Sound(s, Busy + leaving)
    BY <1>3, <1>5 DEF Near, Outcome, Safe, Sound
  <2>2. JobAttached(s) /\ Inherits(ses, s)
    BY <1>2, <1>3, KeepsJob DEF Near, Held, Keeps
  <2>3. s.lost \/ s.tr[t].age < Linger
    <3>1. ses.tr[t] \in Trs /\ t \in Slots
      BY <1>2 DEF Attached, Sessions, NoTr
    <3>2. ses.tr[t].age < Linger
      BY <1>1, <3>1, SessionAssumption, TimeAssumption DEF SessionAssumption, TimeAssumption, Trs
    <3> QED
      BY <1>3, <3>1, <3>2 DEF Near, Same
  <2> QED
    BY <1>5, <2>1, <2>2, <2>3, IstInviteStep DEF Held
<1> QED
  BY <1>1, <1>4, <1>5

LEMMA InvitesStep ==
    ASSUME SafeInv, NewInvite \/ ReInvite \/ RetransmittedInvite
    PROVE  SafeStep
<1>1. CASE NewInvite
  <2>1. Held(New(ses))
    BY <1>1, NewIsSound DEF NewInvite, Held
  <2> QED
    BY <1>1, <2>1, ReceiveInviteStep DEF NewInvite
<1>2. CASE ReInvite
  <2>1. Held(ses)
    BY <1>2, LiveIsSound DEF ReInvite, Held
  <2> QED
    BY <1>2, <2>1, ReceiveInviteStep DEF ReInvite
<1> QED
  BY <1>1, <1>2, RetransmittedStep

\* The other requests attach a transaction and do something to the session.
Attaches(s, a, t) ==
    /\ Sound(a, Busy + leaving) /\ Keeps(s, a)
    /\ t \in Slots \ Attached(s) /\ t \in Attached(a)
    /\ a.cur \in Slots /\ Kill(a, t) = s

LEMMA RequestAttaches ==
    ASSUME SafeInv, ses.alloc = "live", Free(ses) # {}
    PROVE  Attaches(ses, Attach(ses, "NIST", "proceeding", TRUE), NextSlot(ses))
<1>1. Sound(ses, Busy + leaving) /\ Busy + leaving \in Nat /\ ses \in Sessions
  BY LiveIsSound, BusyIsNumber DEF SafeInv, Sound
<1> DEFINE a == Attach(ses, "NIST", "proceeding", TRUE)
           t == NextSlot(ses)
<1>2. /\ t \in Slots \ Attached(ses) /\ Sound(a, Busy + leaving) /\ Keeps(ses, a)
      /\ Attached(a) = Attached(ses) \cup {t} /\ a.cur \in Slots
  BY <1>1, AttachSound
<1>3. Kill(a, t) = ses
  BY <1>1, KillAttached
<1> HIDE DEF a, t
<1>4. Attaches(ses, a, t)
  BY <1>2, <1>3 DEF Attaches
<1> QED
  BY <1>4 DEF a, t

LEMMA RequestStep ==
    ASSUME SafeInv, ses.alloc = "live", NEW a, NEW t, Attaches(ses, a, t),
           Near(a, Busy + leaving, ses') \/ ses' = Kill(a, t), UNCHANGED <<worker, job>>
    PROVE  SafeStep
<1>1. Held(ses) /\ Keeps(ses, ses)
  BY LiveIsSound DEF Held, Keeps
<1>2. CASE Near(a, Busy + leaving, ses')
  <2>1. Keeps(ses, ses')
    BY <1>2, KeepsTransitive DEF Near, Attaches
  <2>2. Outcome(ses, Busy + leaving, ses')
    BY <1>2, <2>1 DEF Near, Outcome, Keeps
  <2> QED
    BY <1>1, <2>1, <2>2, KeepsStep
<1>3. CASE ses' = Kill(a, t)
  BY <1>1, <1>3, SoundStep DEF Attaches, Held
<1> QED
  BY <1>2, <1>3

LEMMA NistByeResults ==
    ASSUME SafeInv, NistBye
    PROVE  \E a, t :
              /\ a = Attach(ses, "NIST", "proceeding", TRUE) /\ t = NextSlot(ses)
              /\ Attaches(ses, a, t)
              /\ Near(a, Busy + leaving, ses') \/ ses' = Kill(a, t)
<1> DEFINE n == Busy + leaving
           t == NextSlot(ses)
           a == Attach(ses, "NIST", "proceeding", TRUE)
           q(cancelled) == IF a.dlg.state = "CONNECTING" /\ cancelled
                           THEN QueueAnswer(a, a.cur) ELSE a
<1>1. Attaches(ses, a, t) /\ n \in Nat
  BY RequestAttaches, BusyIsNumber DEF NistBye, Matched, SafeInv
<1>2. \/ \E sent \in BOOLEAN, cancelled \in BOOLEAN :
              ses' \in MayAnswer(ByeLeelen(q(cancelled), sent), t)
      \/ ses' = Kill(a, t)
  BY OkIsBoolean DEF NistBye, osip_message_response
<1> SUFFICES ASSUME NEW sent \in BOOLEAN, NEW cancelled \in BOOLEAN,
                    ses' \in MayAnswer(ByeLeelen(q(cancelled), sent), t)
             PROVE  Near(a, n, ses')
  BY <1>1, <1>2
<1> HIDE DEF n, t, a
<1>3. a \in Sessions /\ Sound(a, n) /\ a.cur \in Slots /\ t \in Slots
  BY <1>1 DEF Attaches, Sound, n
<1>4. Same(a, q(cancelled)) /\ q(cancelled) \in Sessions
  <2>1. Same(a, QueueAnswer(a, a.cur)) /\ Same(a, a)
    BY <1>3, SameQueued, SameReflexive
  <2> QED
    BY <2>1 DEF Same
<1> DEFINE b == ByeLeelen(q(cancelled), sent)
<1> HIDE DEF q
<1>5. Same(a, b)
  BY <1>4, SameBye, SameTransitive
<1> HIDE DEF b
<1>6. Sound(b, n) /\ (Near(b, n, ses') => Near(a, n, ses'))
  BY <1>3, <1>5, SameNear
<1>7. ses' \in MayAnswer(b, t)
  BY DEF b
<1> QED
  BY <1>1, <1>3, <1>6, <1>7, AnswersNear

LEMMA NistByeStep ==
    ASSUME SafeInv, NistBye
    PROVE  SafeStep
BY NistByeResults, RequestStep DEF NistBye, Matched

LEMMA OptionsResults ==
    ASSUME SafeInv, Options \/ NoCallback
    PROVE  \E a, t :
              /\ a = Attach(ses, "NIST", "proceeding", TRUE) /\ t = NextSlot(ses)
              /\ Attaches(ses, a, t)
              /\ Near(a, Busy + leaving, ses') \/ ses' = Kill(a, t)
<1> DEFINE n == Busy + leaving
           t == NextSlot(ses)
           a == Attach(ses, "NIST", "proceeding", TRUE)
<1>1. Attaches(ses, a, t) /\ n \in Nat
  BY RequestAttaches, BusyIsNumber DEF Options, NoCallback, InDialog, SafeInv
<1>2. ses' \in MayAnswer(a, t) \/ ses' = a \/ ses' = Kill(a, t)
  BY DEF Options, NoCallback
<1> HIDE DEF n, t, a
<1>3. Sound(a, n) /\ a \in Sessions /\ t \in Slots
  BY <1>1 DEF Attaches, Sound, n
<1>4. Near(a, n, a)
  BY <1>3, SameReflexive, SameNear
<1>5. Near(a, n, ses') \/ ses' = Kill(a, t)
  BY <1>1, <1>2, <1>3, <1>4, AnswersNear
<1> QED
  BY <1>1, <1>5 DEF n, a, t

LEMMA OptionsStep ==
    ASSUME SafeInv, Options \/ NoCallback
    PROVE  SafeStep
BY OptionsResults, RequestStep DEF Options, NoCallback, InDialog

---------------------------------------------------------------------------
(* LEELEN messages.                                                        *)

LEMMA LeelenMessageStep ==
    ASSUME SafeInv, LeelenMessage
    PROVE  SafeStep
<1>1. TypeOK /\ Sound(ses, Busy + leaving) /\ Busy + leaving \in Nat
  BY LiveIsSound, BusyIsNumber DEF LeelenMessage, SafeInv
<1>2. PICK code \in {"OK", "BYE", "CALL", "ACCEPTED", "other"} :
         \E r \in Received(ses, code) : ses' = r.ses
  BY DEF LeelenMessage
<1>3. Outcome(ses, Busy + leaving, ses')
  BY <1>1, <1>2, ReceivedSafe
<1>4. worker = "none" /\ UNCHANGED <<worker, job>>
  BY DEF LeelenMessage, Running
<1> QED
  BY <1>1, <1>3, <1>4
     DEF SafeStep, Outcome, Busy, Running, JobAttached, WorkerHasDialog, WorkerTypeOK, TypeOK

\* Of a session that is made for a message and not kept, nobody takes hold.
LEMMA RefusedIsAlone ==
    ASSUME NEW s \in Sessions, Attached(s) = {}, s.dlg.state = "DISCONNECTED",
           NEW r \in Received(s, "CALL"), r.ret # 0
    PROVE  r.ses \in Sessions /\ Attached(r.ses) = {} /\ Inherits(s, r.ses)
<1>1. PICK moved \in Sessions :
         /\ Same(s, moved)
         /\ (r.ses = moved /\ r.ret = 1) \/ r \in Handled(moved, "DISCONNECTED", "CALL")
  BY ReceivedMoves
<1>2. CASE r.ses = moved
  BY <1>1, <1>2, SameAttached, SameInherits
<1>3. CASE r \in Handled(moved, "DISCONNECTED", "CALL")
  <2>1. Handled(moved, "DISCONNECTED", "CALL") =
           IF registered THEN End(Incref(moved)) ELSE Fail(moved)
    BY HandledCall
  <2>2. r \in Fail(moved)
    BY <1>3, <2>1 DEF End
  <2>3. Same(s, r.ses)
    BY <1>1, <2>2, FailSame, SameTransitive
  <2> QED
    BY <2>3, SameAttached, SameInherits DEF Same
<1> QED
  BY <1>1, <1>2, <1>3

LEMMA NewLeelenStep ==
    ASSUME SafeInv, NewLeelen
    PROVE  SafeStep
<1> DEFINE s == New(ses)
           f == [s EXCEPT !.dlg = Fresh(s.dlg.sent, s.dlg.idle)]
<1>1. /\ TypeOK /\ ~ Running /\ leaving = 0 /\ Busy = 0
      /\ Sound(s, 0) /\ Attached(s) = {} /\ Inherits(ses, s)
  BY NewIsSound DEF NewLeelen, SafeInv
<1>2. s \in Sessions /\ s.dlg \in Dialogs
  BY <1>1 DEF Sound, Sessions
<1>3. Same(s, f) /\ f.dlg.state = "DISCONNECTED"
  BY <1>2, FreshDialog, SameDialog DEF Sessions
<1>4. PICK r \in Received(f, "CALL") : ses' = IF r.ret = 0 THEN r.ses ELSE Freed(r.ses)
  <2>1. [s EXCEPT !.dlg = Fresh(@.sent, @.idle)] = f
    BY <1>2 DEF Sessions
  <2> QED
    BY <2>1 DEF NewLeelen
<1> HIDE DEF s, f
<1>5. f \in Sessions /\ Sound(f, 0) /\ Attached(f) = {} /\ Inherits(ses, f)
  BY <1>1, <1>3, SameSound, SameAttached, SameInherits, InheritsTransitive DEF Same
<1>6. Outcome(f, 0, ses')
  <2>1. CASE r.ret = 0
    BY <1>4, <1>5, <2>1, ReceivedSafe
  <2>2. CASE r.ret # 0
    <3>1. r.ses \in Sessions /\ Attached(r.ses) = {} /\ Inherits(f, r.ses)
      BY <1>3, <1>4, <1>5, <2>2, RefusedIsAlone
    <3>2. ses' = [r.ses EXCEPT !.alloc = "freed", !.listed = FALSE]
      BY <1>4, <2>2 DEF Freed
    <3>3. /\ ses' \in Sessions /\ ses'.alloc = "freed" /\ ~ ses'.listed /\ ses'.tr = r.ses.tr
          /\ ses'.dlg = r.ses.dlg /\ ses'.lost = r.ses.lost
      BY <3>1, <3>2 DEF Sessions
    <3> QED
      BY <3>1, <3>3 DEF Outcome, Safe, Alone, Attached, Inherits
  <2> QED
    BY <2>1, <2>2
<1>7. worker = "none" /\ UNCHANGED <<worker, job>>
  BY <1>1 DEF NewLeelen, Running
<1>8. Inherits(ses, ses')
  BY <1>5, <1>6, InheritsTransitive DEF Outcome
<1> QED
  BY <1>1, <1>6, <1>7, <1>8
     DEF SafeStep, Outcome, Busy, Running, JobAttached, WorkerHasDialog, WorkerTypeOK, TypeOK

---------------------------------------------------------------------------
(* The worker.                                                             *)

\* A step that holders do not see.
LEMMA SameStep ==
    ASSUME SafeInv, Same(ses, ses'), WorkerTypeOK', Busy' = Busy,
           worker' \in {"discover", "prepare"} => worker \in {"discover", "prepare"} /\ job' = job,
           WorkerHasDialog'
    PROVE  SafeStep
<1>1. ses' \in Sessions /\ Safe(ses', Busy + leaving) /\ Inherits(ses, ses')
  BY SameSafe, SameInherits DEF SafeInv, Same
<1>2. ASSUME ses'.alloc = "live", worker' \in {"discover", "prepare"}
      PROVE  ses'.lost \/ (job' \in Attached(ses') /\ ses'.tr[job'].age < Linger)
  <2>1. ses.lost \/ (job \in Attached(ses) /\ ses.tr[job].age < Linger)
    BY <1>2 DEF SafeInv, Same, JobAttached
  <2>2. Attached(ses') = Attached(ses) /\ (job \in Attached(ses) => job \in Slots)
    BY <2>1, SameAttached DEF Attached
  <2> QED
    BY <1>2, <2>1, <2>2 DEF Same
<1> QED
  BY <1>1, <1>2 DEF SafeStep, JobAttached

LEMMA OneAnswersTheLiving ==
    ASSUME NEW s, s.alloc # "live", NEW t, NEW r \in MayAnswer(s, t)
    PROVE  r = s
BY DEF MayAnswer, Answers, Answer, Unanswered

LEMMA WorkStep ==
    ASSUME SafeInv, Discover \/ Prepare \/ Call \/ Reply
    PROVE  SafeStep
<1>t. /\ ses \in Sessions /\ ses.dlg \in Dialogs /\ job \in Slots \cup {Null}
      /\ WorkerTypeOK
  BY DEF SafeInv, TypeOK, Sessions, WorkerTypeOK
<1>1. CASE Discover
  <2>1. ses' = [ses EXCEPT !.dlg = Fresh(ses.dlg.sent, ses.dlg.idle)] \/ ses' = ses
    BY <1>t, <1>1 DEF Discover, Sessions
  <2>2. Same(ses, ses')
    BY <1>t, <2>1, FreshDialog, SameDialog, SameReflexive
  <2>3. WorkerHasDialog'
    BY <1>t, <1>1, FreshDialog DEF Discover, WorkerHasDialog, Sessions
  <2> QED
    BY <1>t, <1>1, <2>2, <2>3, SameStep DEF Discover, WorkerTypeOK, Busy, Running
<1>2. CASE Prepare
  <2>1. CASE ses' = ses
    <3>1. Same(ses, ses')
      BY <1>t, <2>1, SameReflexive
    <3> QED
      BY <1>t, <1>2, <2>1, <3>1, SameStep
         DEF Prepare, WorkerTypeOK, WorkerHasDialog, SafeInv, Busy, Running
  <2>2. CASE ses' = [ses EXCEPT !.cur = job] /\ worker' = "call"
    <3>1. /\ ses' \in Sessions /\ ses'.cur = job /\ ses'.alloc = ses.alloc /\ ses'.refs = ses.refs
          /\ ses'.listed = ses.listed /\ ses'.dlg = ses.dlg /\ ses'.tr = ses.tr
          /\ ses'.lost = ses.lost
      BY <1>t, <2>2 DEF Sessions
    <3>2. Busy = 1 /\ Busy' = 1
      BY <1>2, <2>2 DEF Prepare, Busy, Running
    <3>3. Attached(ses') = Attached(ses)
      BY <3>1 DEF Attached
    <3>4. Safe(ses', Busy + leaving)
      <4>1. CASE ses.alloc = "live"
        <5>1. Sound(ses, Busy + leaving) /\ (job \in Attached(ses) \/ ses.lost)
          BY <1>2, <4>1, LiveIsSound DEF Prepare, JobAttached
        <5> QED
          BY <3>1, <3>3, <5>1 DEF Safe, Sound, Covers, Listing, Linked
      <4>2. CASE ses.alloc # "live"
        <5>1. Busy + leaving # 0
          BY <3>2 DEF SafeInv, TypeOK
        <5> QED
          BY <3>1, <4>2, <5>1 DEF SafeInv, Safe, Covers
      <4> QED
        BY <4>1, <4>2
    <3> QED
      BY <1>t, <1>2, <2>2, <3>1, <3>2, <3>4
         DEF Prepare, SafeInv, SafeStep, WorkerTypeOK, JobAttached, WorkerHasDialog, Inherits
  <2> QED
    BY <1>2, <2>1, <2>2 DEF Prepare
<1>3. CASE Call
  <2>1. CASE ses' = ses
    <3>1. Same(ses, ses')
      BY <1>t, <2>1, SameReflexive
    <3> QED
      BY <1>t, <1>3, <2>1, <3>1, SameStep
         DEF Call, WorkerTypeOK, WorkerHasDialog, SafeInv, Busy, Running
  <2>2. CASE ses' = [ses EXCEPT !.dlg = Sent(ses.dlg, "CALL")] /\ worker' = "finish"
    <3>1. /\ ses' \in Sessions /\ Armed(ses'.dlg) /\ ses'.alloc = ses.alloc /\ ses'.refs = ses.refs
          /\ ses'.listed = ses.listed /\ ses'.cur = ses.cur /\ ses'.tr = ses.tr
          /\ ses'.lost = ses.lost /\ ses'.dlg.live = ses.dlg.live
      BY <1>t, <2>2, SentDialog DEF Sessions
    <3>2. Busy' = Busy
      BY <1>3, <2>2 DEF Call, Busy, Running
    <3>3. Attached(ses') = Attached(ses)
      BY <3>1 DEF Attached
    <3>4. Safe(ses', Busy + leaving)
      BY <3>1, <3>3 DEF SafeInv, Safe, Covers, Listing, Linked, Alone
    <3>5. ses.dlg.live
      BY <1>3 DEF Call, SafeInv, WorkerHasDialog
    <3>6. Inherits(ses, ses') /\ WorkerHasDialog'
      BY <3>1, <3>5 DEF Inherits, Dead, WorkerHasDialog
    <3> QED
      BY <1>t, <1>3, <2>2, <3>1, <3>2, <3>4, <3>6 DEF Call, SafeStep, WorkerTypeOK, JobAttached
  <2> QED
    BY <1>t, <1>3, <2>1, <2>2 DEF Call, Sessions
<1>4. CASE Reply
  <2>1. /\ Busy' = Busy /\ WorkerTypeOK' /\ WorkerHasDialog'
        /\ worker' \notin {"discover", "prepare"}
    BY <1>t, <1>4 DEF Reply, WorkerTypeOK, WorkerHasDialog, Busy, Running
  <2>2. CASE ses.alloc = "live"
    <3>1. Near(ses, Busy + leaving, ses')
      BY <1>t, <1>4, <2>2, LiveIsSound, BusyIsNumber, AnswersNear DEF Reply, SafeInv
    <3> QED
      BY <2>1, <3>1 DEF SafeStep, JobAttached, Near, Outcome
  <2>3. CASE ses.alloc # "live"
    <3>1. ses' = ses
      BY <1>4, <2>3, OneAnswersTheLiving DEF Reply
    <3> QED
      BY <1>t, <2>1, <3>1, SameReflexive, SameStep
  <2> QED
    BY <2>2, <2>3
<1> QED
  BY <1>1, <1>2, <1>3, <1>4

\* A worker that ends has its reference until it has left.
LEMMA FinishStep ==
    ASSUME SafeInv, Finish
    PROVE  /\ ses' \in Sessions /\ WorkerTypeOK' /\ leaving' \in Nat
           /\ Safe(ses', Busy' + leaving')
           /\ (ses.alloc = "live" => JobAttached(ses))'
           /\ WorkerHasDialog' /\ Inherits(ses, ses')
<1>1. Busy = 1 /\ Busy' = 0 /\ leaving' = leaving + 1 /\ leaving \in Nat
  BY DEF SafeInv, TypeOK, Finish, Busy, Running
<1>2. Busy' + leaving' = Busy + leaving
  BY <1>1
<1> QED
  BY <1>1, <1>2 DEF SafeInv, TypeOK, Finish, WorkerTypeOK, JobAttached, WorkerHasDialog, Inherits

LEMMA LeaveStep ==
    ASSUME SafeInv, Leave
    PROVE  /\ ses' \in Sessions /\ WorkerTypeOK' /\ leaving' \in Nat
           /\ Safe(ses', Busy' + leaving')
           /\ (ses.alloc = "live" => JobAttached(ses))'
           /\ WorkerHasDialog' /\ Inherits(ses, ses')
<1> DEFINE n == Busy + leaving'
<1>1. /\ leaving' \in Nat /\ Busy' = Busy /\ WorkerTypeOK' /\ ses \in Sessions
      /\ n \in Nat /\ n + 1 = Busy + leaving /\ ses' = DecrefOnly(ses)
  BY BusyIsNumber DEF SafeInv, TypeOK, Leave, Busy, Running, WorkerTypeOK
<1>i. ses'.dlg = ses.dlg /\ ses'.lost = ses.lost
  BY <1>1 DEF DecrefOnly, Sessions
<1>h. WorkerHasDialog' /\ Inherits(ses, ses')
  BY <1>i DEF WorkerHasDialog, Inherits, SafeInv, Leave
<1> HIDE DEF n
<1>2. CASE ses.alloc = "live"
  <2>1. Sound(ses, n + 1) /\ JobAttached(ses)
    BY <1>1, <1>2, LiveIsSound
  <2>2. Sound(ses', n) /\ Keeps(ses, ses')
    BY <1>1, <2>1, DecrefOnlySound DEF Sound
  <2>3. JobAttached(ses')
    BY <2>1, <2>2, KeepsJob
  <2>4. JobAttached(ses)'
    BY <2>3 DEF JobAttached, Leave
  <2> QED
    BY <1>1, <1>h, <2>2, <2>4, SoundIsSafe DEF n, Outcome
<1>3. CASE ses.alloc # "live"
  <2>1. ses.alloc = "crashed" \/ (ses.alloc = "freed" /\ ~ Counted)
    BY <1>1, <1>3 DEF SafeInv, Safe, Covers
  <2>2. ses' \in Sessions /\ ses'.alloc = ses.alloc
    BY <1>1, <2>1 DEF DecrefOnly, Sessions
  <2> QED
    BY <1>1, <1>h, <2>1, <2>2 DEF Safe
<1> QED
  BY <1>2, <1>3

---------------------------------------------------------------------------
(* The sweep, the timers of libosip2 and the clock.                        *)

LEMMA ExecutedSafe ==
    ASSUME NEW s \in Sessions, NEW n \in Nat, Safe(s, n), NEW r \in Executed(s)
    PROVE  Outcome(s, n, r) /\ Keeps(s, r)
<1>1. CASE s.alloc = "live"
  <2>1. Sound(s, n)
    BY <1>1 DEF Sound, Safe
  <2> QED
    BY <2>1, ExecutedNear DEF Near
<1>2. CASE s.alloc # "live"
  <2>1. Same(s, r)
    BY <1>2, ExecutedSame
  <2>2. Keeps(s, r)
    BY <2>1, SameAttached, SameInherits DEF Keeps, Same, Attached
  <2> QED
    BY <2>1, <2>2, SameSafe DEF Outcome, Same, Keeps
<1> QED
  BY <1>1, <1>2

LEMMA SweepStep ==
    ASSUME SafeInv, Sweep
    PROVE  SafeStep
<1>t. TypeOK /\ ses \in Sessions /\ Busy + leaving \in Nat /\ UNCHANGED <<worker, job>> /\ WorkerTypeOK'
      /\ Busy' = Busy /\ Safe(ses, Busy + leaving)
  BY BusyIsNumber DEF SafeInv, Sweep, TypeOK, WorkerTypeOK, Busy, Running
<1>h. Inherits(ses, ses') => WorkerHasDialog'
  BY <1>t DEF SafeInv, WorkerHasDialog, Inherits
<1>1. CASE ses' \in Executed(ses)
  <2>1. Outcome(ses, Busy + leaving, ses') /\ Keeps(ses, ses')
    BY <1>t, <1>1, ExecutedSafe
  <2>2. ASSUME ses'.alloc = "live" PROVE JobAttached(ses')
    <3>1. ses.alloc = "live"
      BY <1>t, <1>1, <2>2, ExecutedSame DEF Same
    <3> QED
      BY <2>1, <3>1, KeepsJob DEF SafeInv
  <2> QED
    BY <1>t, <1>h, <2>1, <2>2 DEF SafeStep, JobAttached, Outcome
<1>2. CASE ses.alloc = "live" /\ ses.listed /\ ~ Running /\ \E s \in Swept(ses) : ses' \in Executed(s)
  <2>1. PICK s \in Swept(ses) : ses' \in Executed(s)
    BY <1>2
  <2>2. Outcome(ses, Busy + leaving, s)
    BY <1>t, <1>2, <2>1, LiveIsSound, SweptSafe
  <2>3. Outcome(s, Busy + leaving, ses')
    BY <1>t, <2>1, <2>2, ExecutedSafe DEF Outcome
  <2>4. Inherits(ses, ses')
    BY <2>2, <2>3, InheritsTransitive DEF Outcome
  <2> QED
    BY <1>t, <1>h, <1>2, <2>3, <2>4 DEF SafeStep, JobAttached, Running, Outcome
<1> QED
  BY <1>1, <1>2 DEF Sweep

LEMMA TerminateStep ==
    ASSUME SafeInv, NEW t \in Slots, Terminate(t)
    PROVE  SafeStep
<1>1. /\ TypeOK /\ Sound(ses, Busy + leaving) /\ JobAttached(ses) /\ Busy + leaving \in Nat
      /\ ses \in Sessions
  BY LiveIsSound, BusyIsNumber DEF Terminate, SafeInv, TypeOK
<1>2. t \in Attached(ses) /\ ses.tr[t] \in Trs
  BY <1>1 DEF Attached, Terminate, Sessions, NoTr, Trs
<1>3. ~ (ses.tr[t].age < Linger)
  BY <1>2, SessionAssumption, TimeAssumption DEF SessionAssumption, TimeAssumption, Terminate, Trs
<1>4. /\ Outcome(ses, Busy + leaving, ses') /\ ses'.lost = ses.lost
      /\ \A u \in Attached(ses) \ {t} : u \in Attached(ses') /\ ses'.tr[u].age = ses.tr[u].age
  BY <1>1, <1>2, KillSafe DEF Terminate
<1>5. UNCHANGED <<worker, job>>
  BY DEF Terminate
<1>6. JobAttached(ses)'
  BY <1>1, <1>3, <1>4, <1>5 DEF JobAttached
<1>7. WorkerHasDialog'
  BY <1>4, <1>5 DEF SafeInv, WorkerHasDialog, Outcome, Inherits
<1> QED
  BY <1>1, <1>4, <1>5, <1>6, <1>7 DEF SafeStep, Outcome, WorkerTypeOK, TypeOK, Busy, Running

LEMMA RepeatStep ==
    ASSUME SafeInv, NEW t \in Slots, Repeat(t)
    PROVE  SafeStep /\ ses'.lost
<1>1. Held(ses) /\ Sound(ses, Busy + leaving) /\ Busy + leaving \in Nat /\ ses \in Sessions
  BY LiveIsSound, BusyIsNumber DEF Repeat, SafeInv, Held, Sound
<1>2. t \in Attached(ses)
  BY <1>1 DEF Attached, Repeat, Sessions, NoTr, Trs
<1>3. Outcome(ses, Busy + leaving, ses') /\ Keeps(ses, ses') /\ ses'.lost
  BY <1>1, <1>2, UnsentSafe DEF Repeat
<1> QED
  BY <1>1, <1>3, KeepsStep DEF Repeat

LEMMA TickStep ==
    ASSUME SafeInv, Tick
    PROVE  SafeStep
<1> DEFINE tr2 == [t \in Slots |->
               IF ses.tr[t].state = "completed" /\ ses.tr[t].age < LingerMax
               THEN [ses.tr[t] EXCEPT !.age = @ + 1] ELSE ses.tr[t]]
           dlg2 == IF ses.alloc = "live" THEN Aged(ses.dlg) ELSE ses.dlg
<1>t. TypeOK /\ ses \in Sessions /\ ses.dlg \in Dialogs
      /\ worker = "none" /\ UNCHANGED <<worker, job, leaving>>
  BY DEF SafeInv, TypeOK, Tick, Running, Sessions
<1>1. ASSUME NEW t \in Slots
      PROVE  tr2[t] \in Trs \cup {NoTr} /\ tr2[t].kind = ses.tr[t].kind
  <2>1. ses.tr[t] \in Trs \cup {NoTr}
    BY <1>t DEF Sessions
  <2>2. CASE ses.tr[t].state = "completed" /\ ses.tr[t].age < LingerMax
    <3>1. ses.tr[t] \in Trs
      BY <2>1, <2>2 DEF NoTr
    <3>2. ses.tr[t].age + 1 \in 0 .. LingerMax
      BY <2>2, <3>1, SessionAssumption DEF SessionAssumption, Trs
    <3> QED
      BY <2>2, <3>1, <3>2 DEF Trs
  <2>3. CASE ~ (ses.tr[t].state = "completed" /\ ses.tr[t].age < LingerMax)
    BY <2>1, <2>3
  <2> QED
    BY <2>2, <2>3
<1>2. tr2 \in [Slots -> Trs \cup {NoTr}]
  BY <1>1
<1>3. /\ dlg2 \in Dialogs /\ (Armed(ses.dlg) => Armed(dlg2))
      /\ dlg2.live = ses.dlg.live /\ dlg2.state = ses.dlg.state
  BY <1>t, AgedDialog
<1>4. ses' = [ses EXCEPT !.dlg = dlg2, !.tr = tr2]
  BY <1>t DEF Tick, Sessions
<1> HIDE DEF tr2, dlg2
<1>5. /\ ses' \in Sessions /\ ses'.dlg = dlg2 /\ ses'.tr = tr2
      /\ ses'.alloc = ses.alloc /\ ses'.listed = ses.listed /\ ses'.refs = ses.refs /\ ses'.cur = ses.cur
      /\ ses'.lost = ses.lost
  BY <1>t, <1>2, <1>3, <1>4 DEF Sessions
<1>6. Attached(ses') = Attached(ses) /\ Listing(ses') = Listing(ses)
  BY <1>1, <1>5 DEF Attached, Listing
<1>7. Safe(ses', Busy + leaving)
  BY <1>3, <1>5, <1>6 DEF SafeInv, Safe, Covers, Alone, Linked
<1> QED
  BY <1>t, <1>3, <1>5, <1>7
     DEF SafeStep, WorkerTypeOK, TypeOK, Busy, Running, JobAttached, WorkerHasDialog, Inherits, Dead

---------------------------------------------------------------------------
(* The theorems.                                                           *)

LEMMA InitSafe == Init => SafeInv
<1> SUFFICES ASSUME Init PROVE SafeInv
  OBVIOUS
<1>1. PICK d \in Garbage :
         ses = [alloc |-> "none", listed |-> FALSE, sip |-> FALSE, refs |-> 1,
                cur |-> Null, lost |-> FALSE, dlg |-> d, tr |-> [t \in Slots |-> NoTr]]
  BY DEF Init
<1>2. d \in Dialogs /\ ~ d.live
  BY SessionAssumption DEF SessionAssumption
<1>3. /\ ses \in Sessions /\ ses.alloc = "none" /\ ~ ses.listed /\ ses.cur = Null /\ ~ ses.dlg.live
      /\ ~ ses.lost /\ ses.dlg = d
  BY <1>1, <1>2 DEF Sessions
<1>4. Attached(ses) = {}
  BY <1>1 DEF Attached, NoTr
<1>5. worker = "none" /\ job = Null /\ leaving = 0 /\ swept = FALSE /\ registered \in BOOLEAN
  BY DEF Init
<1>6. traffic \in 0 .. MaxTraffic
  BY SessionAssumption DEF Init, SessionAssumption
<1>7. TypeOK
  BY <1>3, <1>5, <1>6 DEF TypeOK
<1>8. Busy + leaving = 0
  BY <1>5 DEF Busy, Running
<1>9. Safe(ses, Busy + leaving)
  BY <1>3, <1>4, <1>8 DEF Safe, Alone, Linked, Armed, Waits
<1>10. CleanMemory => ~ Dead(ses.dlg)
  BY <1>3 DEF CleanMemory, Dead
<1> QED
  BY <1>3, <1>5, <1>7, <1>9, <1>10 DEF SafeInv, WorkerHasDialog

LEMMA NextSafe ==
    ASSUME SafeInv, [Next]_vars
    PROVE  SafeInv' /\ Inherits(ses, ses')
<1>t. registered \in BOOLEAN /\ swept \in BOOLEAN /\ traffic \in 0 .. MaxTraffic /\ leaving \in Nat
      /\ MaxTraffic \in Nat
  BY SessionAssumption DEF SafeInv, TypeOK, SessionAssumption
<1>r. registered' \in BOOLEAN /\ swept' \in BOOLEAN /\ traffic' \in 0 .. MaxTraffic
  <2>1. traffic' = traffic \/ Packet
    BY DEF Next, vars, NewInvite, ReInvite, RetransmittedInvite, ReceiveInvite, NistBye, Options,
           NoCallback, Register, LeelenMessage, NewLeelen, NotNew, Work, Discover, Prepare, Call,
           Reply, Finish, Leave, Sweep, Tick, Terminate, Repeat
  <2>2. registered' \in {registered, TRUE}
    BY DEF Next, vars, NewInvite, ReInvite, RetransmittedInvite, ReceiveInvite, NistBye, Options,
           NoCallback, Register, LeelenMessage, NewLeelen, NotNew, Work, Discover, Prepare, Call,
           Reply, Finish, Leave, Sweep, Tick, Terminate, Repeat
  <2>3. swept' = swept \/ swept' \in BOOLEAN
    BY DEF Next, vars, NewInvite, ReInvite, RetransmittedInvite, ReceiveInvite, NistBye, Options,
           NoCallback, Register, LeelenMessage, NewLeelen, NotNew, Work, Discover, Prepare, Call,
           Reply, Finish, Leave, Sweep, Tick, Terminate, Repeat
  <2>4. traffic' \in 0 .. MaxTraffic
    BY <1>t, <2>1 DEF Packet
  <2>5. registered' \in BOOLEAN
    BY <1>t, <2>2
  <2> QED
    BY <1>t, <2>3, <2>4, <2>5, Zenon
<1>i. Inherits(ses, ses') =>
          (ses'.lost => "sip" \in Faults) /\ (CleanMemory => ~ Dead(ses'.dlg))
  BY DEF SafeInv, Inherits
<1>1. CASE SafeStep /\ leaving' = leaving
  BY <1>t, <1>r, <1>i, <1>1 DEF SafeInv, SafeStep, TypeOK, WorkerTypeOK
<1>2. CASE Finish \/ Leave
  BY <1>r, <1>i, <1>2, FinishStep, LeaveStep DEF SafeInv, TypeOK, WorkerTypeOK
<1>3. CASE NewInvite \/ ReInvite \/ RetransmittedInvite
  BY <1>1, <1>3, InvitesStep DEF NewInvite, ReInvite, RetransmittedInvite, ReceiveInvite
<1>4. CASE NistBye \/ Options \/ NoCallback
  BY <1>1, <1>4, NistByeStep, OptionsStep DEF NistBye, Options, NoCallback
<1>5. CASE Register \/ NotNew \/ UNCHANGED vars
  BY <1>r, <1>i, <1>5
     DEF Register, NotNew, vars, SafeInv, TypeOK, JobAttached, WorkerHasDialog, Busy, Running, Inherits
<1>6. CASE LeelenMessage
  BY <1>1, <1>6, LeelenMessageStep DEF LeelenMessage
<1>7. CASE NewLeelen
  BY <1>1, <1>7, NewLeelenStep DEF NewLeelen
<1>8. CASE Discover \/ Prepare \/ Call \/ Reply
  BY <1>1, <1>8, WorkStep DEF Discover, Prepare, Call, Reply
<1>9. CASE Sweep
  BY <1>1, <1>9, SweepStep DEF Sweep
<1>10. ASSUME NEW t \in Slots, Terminate(t) \/ Repeat(t) PROVE SafeInv' /\ Inherits(ses, ses')
  BY <1>1, <1>10, TerminateStep, RepeatStep DEF Terminate, Repeat, SafeStep
<1>11. CASE Tick
  BY <1>1, <1>11, TickStep DEF Tick, SafeStep
<1>s. SafeStep => Inherits(ses, ses')
  BY DEF SafeStep
<1> QED
  BY <1>s, <1>2, <1>3, <1>4, <1>5, <1>6, <1>7, <1>8, <1>9, <1>10, <1>11, FinishStep, LeaveStep,
     InvitesStep, NistByeStep, OptionsStep, LeelenMessageStep, NewLeelenStep, WorkStep, SweepStep
     DEF Next, Work

LEMMA AlwaysSafe == Spec => []SafeInv
<1>1. SafeInv /\ [Next]_vars => SafeInv'
  BY NextSafe
<1> QED
  BY <1>1, InitSafe, PTL DEF Spec

\* The session, its dialog and its transactions keep their types, and the
\* counter never reaches 0.
THEOREM TypeCorrect == Spec => []TypeOK
<1>1. SafeInv => TypeOK
  BY DEF SafeInv
<1> QED
  BY <1>1, AlwaysSafe, PTL

\* Whatever packets come in whatever order, with any number of transactions, a
\* session that is reached has a reference for each that reaches it, and one that
\* has been freed is reached by nobody.
THEOREM CounterCoversHolders ==
    ASSUME "bye" \notin Faults
    PROVE  Spec => []RefsCoverHolders
<1>1. SafeInv => RefsCoverHolders
  <2> SUFFICES ASSUME SafeInv PROVE RefsCoverHolders
    OBVIOUS
  <2>1. leaving \in Nat /\ ses \in Sessions /\ Cardinality(Attached(ses)) \in Nat
    BY AttachedIsFinite DEF SafeInv, TypeOK
  <2>2. Holders = Cardinality(Attached(ses)) + Listing(ses) + (Busy + leaving)
    BY <2>1 DEF Holders, Listing, Busy
  <2>3. ASSUME ses.alloc = "freed" PROVE Holders = 0
    <3>1. Alone(ses) /\ Busy + leaving = 0
      BY <2>3 DEF SafeInv, Safe, Covers, Counted
    <3> QED
      BY <2>2, <3>1, FS_EmptySet DEF Alone, Listing
  <2>4. ASSUME ses.alloc = "live" PROVE ses.refs >= Holders
    BY <2>2, <2>4, LiveIsSound DEF Sound, Covers, Counted
  <2> QED
    BY <2>3, <2>4 DEF RefsCoverHolders
<1> QED
  BY <1>1, AlwaysSafe, PTL

\* session->transaction is a transaction of the session or NULL, although the
\* worker stores it without a lock and libosip2 frees it on its own; or a message
\* to the SIP client could not be sent before.
THEOREM CurrentNeverDangles == Spec => []CurrentIsAttached
<1>1. SafeInv => CurrentIsAttached
  BY LiveIsSound DEF CurrentIsAttached, Sound, Linked
<1> QED
  BY <1>1, AlwaysSafe, PTL

\* So long as every SIP message is sent, session->transaction is a transaction of
\* the session or NULL, without exception.
THEOREM CurrentOfSentMessages ==
    ASSUME "sip" \notin Faults
    PROVE  Spec => [](ses.alloc = "live" /\ ses.cur # Null => ses.cur \in Attached(ses))
<1>1. SafeInv => (ses.alloc = "live" /\ ses.cur # Null => ses.cur \in Attached(ses))
  BY LiveIsSound DEF SafeInv, Sound, Linked
<1> QED
  BY <1>1, AlwaysSafe, PTL

---------------------------------------------------------------------------
(* The transaction of a call that is being set up.                         *)

\* Session r is what a function leaves of session s: no call is set up that was
\* not, and its transactions are there and have not been replaced; or a message was
\* lost.
Follows(s, r) ==
    /\ Keeps(s, r)
    /\ \/ r.lost
       \/ /\ s.alloc = "live" => r.alloc \in {"live", "freed"}
          /\ WaitsAs(s.dlg, r.dlg)
          /\ r.listed => s.listed
          /\ s.cur # Null => r.cur = s.cur

\* A CALL is only sent for a session without one, for an INVITE that has not been
\* answered for longer than a client repeats it; it is answered AckTimeout later,
\* before the timers of libosip2 end the INVITE.
CallSafe(s) ==
    /\ worker \in {"discover", "prepare", "call", "reply"} => ~ Waits(s.dlg)
    /\ worker \in {"discover", "prepare", "call"} =>
          job \in Attached(s) /\ s.tr[job].age <= RetryAge
    /\ worker = "call" => s.cur = job
    /\ worker = "finish" /\ Waits(s.dlg) => s.dlg.sent = 0
    /\ s.listed /\ Waits(s.dlg) =>
          /\ s.cur # Null /\ s.tr[s.cur].age <= RetryAge + s.dlg.sent
          /\ s.dlg.sent \in 0 .. AckTimeout
          /\ s.dlg.sent = AckTimeout => ~ swept

CallSound ==
    /\ ses.alloc = "none" => ~ ses.dlg.live /\ ~ Running
    /\ ses.alloc = "crashed" => Dead(ses.dlg) /\ ~ Running
    /\ ses.alloc = "live" => CallSafe(ses)

CallInv == ses.lost \/ CallSound

LEMMA SlotIsNotNull == Null \notin Slots
BY SessionAssumption DEF SessionAssumption, Null

LEMMA FollowsReflexive ==
    ASSUME NEW s
    PROVE  Follows(s, s)
BY DEF Follows, WaitsAs, Keeps, Inherits

LEMMA FollowsTransitive ==
    ASSUME NEW s, NEW r, NEW q, Follows(s, r), Follows(r, q), s.alloc = "live", r.alloc = "live"
    PROVE  Follows(s, q)
<1>1. Keeps(s, q)
  BY KeepsTransitive DEF Follows
<1>2. CASE q.lost
  BY <1>1, <1>2 DEF Follows
<1>3. CASE ~ q.lost
  <2>1. ~ r.lost
    BY <1>3 DEF Follows, Keeps, Inherits
  <2>2. s.cur # Null => q.cur = s.cur
    BY <1>3, <2>1 DEF Follows
  <2> QED
    BY <1>1, <1>3, <2>1, <2>2 DEF Follows, WaitsAs
<1> QED
  BY <1>2, <1>3

LEMMA SameFollows ==
    ASSUME NEW s, NEW r, Same(s, r)
    PROVE  Follows(s, r)
<1>1. Keeps(s, r)
  BY SameAttached, SameInherits DEF Keeps, Same, Attached
<1> QED
  BY <1>1 DEF Follows, Same

LEMMA NearFollows ==
    ASSUME NEW s, NEW n, NEW r, Near(s, n, r)
    PROVE  Follows(s, r)
BY SameFollows DEF Near, Follows

LEMMA IncrefFollows ==
    ASSUME NEW s \in Sessions
    PROVE  Follows(s, Incref(s))
<1>1. /\ Incref(s).alloc = s.alloc /\ Incref(s).listed = s.listed
      /\ Incref(s).cur = s.cur /\ Incref(s).dlg = s.dlg /\ Incref(s).tr = s.tr
      /\ Incref(s).lost = s.lost
  BY DEF Incref, Sessions
<1> QED
  BY <1>1 DEF Follows, WaitsAs, Keeps, Attached, Inherits

LEMMA DecrefFollows ==
    ASSUME NEW s \in Sessions
    PROVE  Follows(s, Decref(s)) /\ Follows(s, DecrefOnly(s))
<1>1. /\ Decref(s).alloc \in {s.alloc, "freed"} /\ (Decref(s).listed => s.listed)
      /\ Decref(s).cur = s.cur /\ Decref(s).dlg = s.dlg /\ Decref(s).tr = s.tr
      /\ Decref(s).lost = s.lost
  BY DEF Decref, Freed, Sessions
<1>2. /\ DecrefOnly(s).alloc = s.alloc /\ DecrefOnly(s).listed = s.listed
      /\ DecrefOnly(s).cur = s.cur /\ DecrefOnly(s).dlg = s.dlg /\ DecrefOnly(s).tr = s.tr
      /\ DecrefOnly(s).lost = s.lost
  BY DEF DecrefOnly, Sessions
<1> QED
  BY <1>1, <1>2 DEF Follows, WaitsAs, Keeps, Attached, Inherits

LEMMA UnlistedGoes ==
    ASSUME NEW s \in Sessions
    PROVE  LET r == DecrefOnly([s EXCEPT !.listed = FALSE])
           IN  ~ r.listed /\ r.alloc = s.alloc
<1> DEFINE u == [s EXCEPT !.listed = FALSE]
<1>1. /\ u \in Sessions /\ ~ u.listed /\ u.alloc = s.alloc
      /\ u.cur = s.cur /\ u.dlg = s.dlg /\ u.tr = s.tr
  BY DEF Sessions
<1> HIDE DEF u
<1>2. /\ DecrefOnly(u).alloc = u.alloc /\ DecrefOnly(u).listed = u.listed
      /\ DecrefOnly(u).cur = u.cur /\ DecrefOnly(u).dlg = u.dlg /\ DecrefOnly(u).tr = u.tr
  BY <1>1 DEF DecrefOnly, Sessions
<1>3. ~ DecrefOnly(u).listed /\ DecrefOnly(u).alloc = s.alloc
  BY <1>1, <1>2
<1> QED
  BY <1>3 DEF u

LEMMA AttachFollows ==
    ASSUME NEW s, NEW n \in Nat, Sound(s, n), Free(s) # {},
           NEW kind \in {"IST", "NIST", "NICT"}, NEW state \in {"proceeding", "completed"},
           NEW good \in BOOLEAN
    PROVE  LET a == Attach(s, kind, state, good)
           IN  Follows(s, a) /\ a.dlg = s.dlg /\ a.alloc = "live" /\ a.sip = s.sip
<1> DEFINE a == Attach(s, kind, state, good)
<1>1. Keeps(s, a) /\ Sound(a, n)
  BY AttachSound
<1>2. /\ a.dlg = s.dlg /\ a.alloc = s.alloc /\ a.listed = s.listed /\ a.sip = s.sip
      /\ (s.cur # Null => a.cur = s.cur)
  BY DEF Attach, Incref, Sound, Sessions
<1>3. s.alloc = "live"
  BY DEF Sound, Covers
<1> HIDE DEF a
<1>4. Follows(s, a) /\ a.dlg = s.dlg /\ a.alloc = "live" /\ a.sip = s.sip
  BY <1>1, <1>2, <1>3 DEF Follows, WaitsAs
<1> QED
  BY <1>4 DEF a

\* What holds of s for the call holds of what is left of s ...
LEMMA FollowsCall ==
    ASSUME NEW s, NEW r, Linked(s), CallSafe(s), Follows(s, r), ~ r.lost
    PROVE  CallSafe(r)
<1>0. ~ s.lost
  BY DEF Follows, Keeps, Inherits
<1>1. worker \in {"discover", "prepare", "call", "reply"} => ~ Waits(r.dlg)
  BY DEF CallSafe, Follows, WaitsAs
<1>2. worker \in {"discover", "prepare", "call"} =>
          job \in Attached(r) /\ r.tr[job].age <= RetryAge
  BY DEF CallSafe, Follows, Keeps
<1>3. worker = "call" => r.cur = job
  <2>1. worker = "call" => job \in Slots /\ s.cur = job
    BY DEF CallSafe, Attached
  <2> QED
    BY <2>1, SlotIsNotNull DEF Follows
<1>4. worker = "finish" /\ Waits(r.dlg) => r.dlg.sent = 0
  BY DEF CallSafe, Follows, WaitsAs
<1>5. ASSUME r.listed, Waits(r.dlg)
      PROVE  /\ r.cur # Null /\ r.tr[r.cur].age <= RetryAge + r.dlg.sent
             /\ r.dlg.sent \in 0 .. AckTimeout
             /\ r.dlg.sent = AckTimeout => ~ swept
  <2>1. /\ s.listed /\ Waits(s.dlg) /\ r.dlg.sent = s.dlg.sent
        /\ s.cur # Null => r.cur = s.cur
    BY <1>5 DEF Follows, WaitsAs
  <2>2. /\ s.cur # Null /\ s.tr[s.cur].age <= RetryAge + s.dlg.sent
        /\ s.dlg.sent \in 0 .. AckTimeout
        /\ s.dlg.sent = AckTimeout => ~ swept
    BY <2>1 DEF CallSafe
  <2>3. r.cur = s.cur /\ r.tr[s.cur].age = s.tr[s.cur].age
    BY <1>0, <2>1, <2>2 DEF Linked, Follows, Keeps
  <2> QED
    BY <2>1, <2>2, <2>3
<1> QED
  BY <1>1, <1>2, <1>3, <1>4, <1>5 DEF CallSafe

\* ... and of a session in which no call is set up and no worker runs.
LEMMA QuietCall ==
    ASSUME NEW r, worker = "none", ~ Waits(r.dlg)
    PROVE  CallSafe(r)
BY DEF CallSafe

\* A step of the mainloop that leaves the workers and the clock alone.
LEMMA FollowsStep ==
    ASSUME NEW s, s.alloc = "live", Linked(s), s.lost \/ CallSafe(s), Follows(s, ses'),
           UNCHANGED <<worker, job, swept>>
    PROVE  CallInv'
<1> SUFFICES ASSUME ~ ses'.lost PROVE CallSound'
  BY DEF CallInv
<1>0. CallSafe(s)
  BY DEF Follows, Keeps, Inherits
<1>1. ses'.alloc \in {"live", "freed"}
  BY DEF Follows
<1>2. CallSafe(ses')
  BY <1>0, FollowsCall
<1>3. CallSafe(ses)'
  BY <1>2 DEF CallSafe
<1> QED
  BY <1>1, <1>3 DEF CallSound

LEMMA IstInviteCall ==
    ASSUME TypeOK, NEW s, Sound(s, Busy + leaving), s.lost \/ CallSafe(s),
           NEW t \in Attached(s), s.lost \/ s.tr[t].age <= RetryAge, IstInvite(s, t), UNCHANGED swept
    PROVE  CallInv'
<1> DEFINE n == Busy + leaving
           c == Checked(s)
           i == Incref(c)
<1>n. /\ n \in Nat /\ t \in Slots /\ s \in Sessions /\ s.alloc = "live" /\ Linked(s)
      /\ Sound(s, n) /\ (~ Established(s) => ~ Waits(c.dlg))
  <2>1. ~ Established(s) => ~ Waits(c.dlg)
    BY DEF Established, Checked, Waits
  <2> QED
    BY <2>1, BusyIsNumber DEF Sound, Attached, Covers
<1>1. Same(s, c) /\ Sound(c, n) /\ (\A r : Near(c, n, r) => Near(s, n, r)) /\ c \in Sessions
  BY <1>n, SameChecked, SameNear, SameSound DEF Same
<1>2. Sound(i, n + 1) /\ Follows(c, i) /\ Follows(s, c)
  BY <1>n, <1>1, IncrefSound, IncrefFollows, SameFollows
<1> HIDE DEF n, c, i
<1>3. \/ ses' \in Provisional(c, t) \cup MayAnswer(c, t) /\ UNCHANGED <<worker, job>>
      \/ /\ ~ Established(s) /\ ses' \in Provisional(i, t) /\ job' = t
         /\ worker' \in {"prepare", "discover"}
  <2>1. CASE Established(s) \/ ~ s.tr[t].good
    BY <2>1 DEF IstInvite, c
  <2>2. CASE ~ (Established(s) \/ ~ s.tr[t].good) /\ Running
    BY <2>2 DEF IstInvite, c
  <2>3. CASE ~ (Established(s) \/ ~ s.tr[t].good) /\ ~ Running
    BY <2>3 DEF IstInvite, Start, c, i
  <2> QED
    BY <2>1, <2>2, <2>3
<1>4. CASE ses' \in Provisional(c, t) \cup MayAnswer(c, t) /\ UNCHANGED <<worker, job>>
  <2>1. Near(c, n, ses')
    BY <1>n, <1>1, <1>4, ProvisionalNear, AnswersNear
  <2>2. Follows(s, ses')
    BY <1>1, <2>1, NearFollows
  <2> QED
    BY <1>n, <1>4, <2>2, FollowsStep
<1>5. CASE /\ ~ Established(s) /\ ses' \in Provisional(i, t) /\ job' = t
           /\ worker' \in {"prepare", "discover"}
  <2> SUFFICES ASSUME ~ ses'.lost PROVE CallSound'
    BY DEF CallInv
  <2>1. Near(i, n + 1, ses')
    BY <1>n, <1>2, <1>5, ProvisionalNear
  <2>2. Follows(i, ses') /\ i.alloc = "live" /\ c.alloc = "live"
    BY <1>1, <1>2, <2>1, NearFollows DEF Sound, Covers
  <2>3. Follows(c, ses')
    BY <1>2, <2>2, FollowsTransitive
  <2>a. ~ c.lost /\ ~ Waits(c.dlg)
    BY <1>n, <1>5, <2>3 DEF Follows, Keeps, Inherits
  <2>4. ses'.alloc \in {"live", "freed"} /\ ~ Waits(ses'.dlg)
    BY <2>a, <2>2, <2>3 DEF Follows, WaitsAs
  <2>5. Follows(s, ses')
    BY <1>n, <1>2, <2>2, <2>3, FollowsTransitive
  <2>6. t \in Attached(ses') /\ ses'.tr[t].age <= RetryAge
    BY <2>5 DEF Follows, Keeps, Inherits
  <2>7. CallSafe(ses)'
    BY <1>5, <2>4, <2>6 DEF CallSafe, Attached
  <2> QED
    BY <2>4, <2>7 DEF CallSound
<1> QED
  BY <1>3, <1>4, <1>5

LEMMA ReceiveInviteCall ==
    ASSUME TypeOK, NEW s, Sound(s, Busy + leaving), s.lost \/ CallSafe(s), ReceiveInvite(s)
    PROVE  CallInv'
<1>1. PICK good \in BOOLEAN :
         LET t == NextSlot(s)
             a == Attach(s, "IST", "proceeding", good)
         IN  IstInvite(a, t) \/ (ses' = Kill(a, t) /\ UNCHANGED <<worker, job>>)
  BY DEF ReceiveInvite
<1> DEFINE t == NextSlot(s)
           a == Attach(s, "IST", "proceeding", good)
<1>2. /\ t \in Slots \ Attached(s)
      /\ Sound(a, Busy + leaving)
      /\ Attached(a) = Attached(s) \cup {t} /\ a.tr[t].age = 0
      /\ Follows(s, a) /\ Kill(a, t) = s
  <2>1. s \in Sessions /\ Free(s) # {} /\ Busy + leaving \in Nat
    BY BusyIsNumber DEF ReceiveInvite, Sound
  <2> QED
    BY <2>1, AttachSound, AttachFollows, KillAttached
<1>3. IstInvite(a, t) \/ (ses' = Kill(a, t) /\ UNCHANGED <<worker, job>>)
  BY <1>1
<1> HIDE DEF a, t
<1>4. s.alloc = "live" /\ Linked(s) /\ UNCHANGED swept
  BY DEF Sound, Covers, ReceiveInvite
<1>5. CASE IstInvite(a, t)
  <2>1. a.lost \/ CallSafe(a)
    BY <1>2, <1>4, FollowsCall DEF Follows, Keeps, Inherits
  <2>2. t \in Attached(a) /\ a.tr[t].age <= RetryAge
    BY <1>2, SessionAssumption DEF SessionAssumption
  <2> QED
    BY <1>2, <1>4, <1>5, <2>1, <2>2, IstInviteCall
<1>6. CASE ses' = Kill(a, t) /\ UNCHANGED <<worker, job>>
  BY <1>2, <1>4, <1>6, FollowsReflexive, FollowsStep
<1> QED
  BY <1>3, <1>5, <1>6

LEMMA RetransmittedCall ==
    ASSUME SafeInv, CallSound, RetransmittedInvite
    PROVE  CallInv'
<1>1. PICK s \in Executed(ses), t \in Attached(ses) :
         /\ ses.tr[t].age <= RetryAge
         /\ IF s.alloc = "live" /\ t \in Attached(s) THEN IstInvite(s, t)
            ELSE ses' = s /\ UNCHANGED <<worker, job>>
  BY DEF RetransmittedInvite
<1>2. /\ Sound(ses, Busy + leaving) /\ Busy + leaving \in Nat /\ CallSafe(ses)
      /\ ses.alloc = "live" /\ Linked(ses) /\ UNCHANGED swept /\ TypeOK
  BY LiveIsSound, BusyIsNumber DEF RetransmittedInvite, SafeInv, CallSound, Sound
<1>3. Near(ses, Busy + leaving, s) /\ Follows(ses, s)
  BY <1>1, <1>2, ExecutedNear, NearFollows
<1>4. CASE ses' = s /\ UNCHANGED <<worker, job>>
  BY <1>2, <1>3, <1>4, FollowsStep
<1>5. CASE s.alloc = "live" /\ t \in Attached(s) /\ IstInvite(s, t)
  <2>1. Sound(s, Busy + leaving) /\ (s.lost \/ CallSafe(s))
    BY <1>2, <1>3, <1>5, FollowsCall DEF Near, Outcome, Safe, Sound
  <2>2. s.lost \/ s.tr[t].age <= RetryAge
    BY <1>1, <1>3, <1>5 DEF Follows, Keeps
  <2> QED
    BY <1>2, <1>5, <2>1, <2>2, IstInviteCall
<1> QED
  BY <1>1, <1>4, <1>5

LEMMA InvitesCall ==
    ASSUME SafeInv, CallSound, NewInvite \/ ReInvite \/ RetransmittedInvite
    PROVE  CallInv'
<1>1. TypeOK
  BY DEF SafeInv
<1>2. CASE NewInvite
  <2>1. Sound(New(ses), Busy + leaving) /\ ~ New(ses).dlg.live /\ worker = "none"
    BY <1>2, NewIsSound DEF NewInvite, CallSound, Running
  <2>2. CallSafe(New(ses))
    BY <2>1, QuietCall DEF Waits
  <2> QED
    BY <1>1, <1>2, <2>1, <2>2, ReceiveInviteCall DEF NewInvite
<1>3. CASE ReInvite
  BY <1>1, <1>3, LiveIsSound, ReceiveInviteCall DEF ReInvite, CallSound
<1> QED
  BY <1>2, <1>3, RetransmittedCall

\* A request that attaches a transaction leaves the others alone.
LEMMA RequestCall ==
    ASSUME SafeInv, CallSound, ses.alloc = "live", Free(ses) # {},
           UNCHANGED <<worker, job, swept>>,
           NEW a, NEW t, a = Attach(ses, "NIST", "proceeding", TRUE),
           t = NextSlot(ses), Attaches(ses, a, t),
           Near(a, Busy + leaving, ses') \/ ses' = Kill(a, t)
    PROVE  CallInv'
<1>1. /\ Sound(ses, Busy + leaving) /\ Busy + leaving \in Nat /\ CallSafe(ses) /\ Linked(ses)
  BY LiveIsSound, BusyIsNumber DEF SafeInv, CallSound, Sound
<1>2. Follows(ses, a) /\ a.alloc = "live"
  BY <1>1, AttachFollows
<1>3. Follows(ses, ses')
  <2>1. CASE Near(a, Busy + leaving, ses')
    BY <1>2, <2>1, NearFollows, FollowsTransitive
  <2>2. CASE ses' = Kill(a, t)
    BY <2>2, FollowsReflexive DEF Attaches
  <2> QED
    BY <2>1, <2>2
<1> QED
  BY <1>1, <1>3, FollowsStep

LEMMA RequestsCall ==
    ASSUME SafeInv, CallSound, NistBye \/ Options \/ NoCallback
    PROVE  CallInv'
<1>1. /\ ses.alloc = "live" /\ Free(ses) # {} /\ UNCHANGED <<worker, job, swept>>
  BY DEF NistBye, Matched, Options, NoCallback, InDialog
<1>2. PICK a, t : /\ a = Attach(ses, "NIST", "proceeding", TRUE) /\ t = NextSlot(ses)
                  /\ Attaches(ses, a, t)
                  /\ Near(a, Busy + leaving, ses') \/ ses' = Kill(a, t)
  BY NistByeResults, OptionsResults
<1> QED
  BY <1>1, <1>2, RequestCall

\* A session that is left alone or freed, and in which no call is set up that was
\* not; or a message was lost.
Calms(s, r) == r.lost \/ (WaitsAs(s.dlg, r.dlg) /\ r.alloc \in {"live", "freed"})

LEMMA NearCalms ==
    ASSUME NEW s, NEW n, NEW r, Near(s, n, r), s.alloc = "live"
    PROVE  Calms(s, r)
BY DEF Near, Same, Calms

LEMMA AcceptCalms ==
    ASSUME NEW s, NEW n \in Nat, Sound(s, n), IsIST(s, s.cur)
    PROVE  Calms(s, Accept(s, s.cur))
<1> DEFINE d == [s EXCEPT !.sip = TRUE]
<1>1. Same(s, d) /\ s.alloc = "live"
  BY SameSip DEF Sound, Covers
<1>2. Sound(d, n) /\ Attached(d) = Attached(s) /\ d.dlg = s.dlg /\ Near(s, n, d)
  BY <1>1, SameNear, SameAttached DEF Sound, Sessions
<1>3. Accept(s, s.cur) = IF Pending(s, s.cur) THEN Kill(d, s.cur) ELSE d
  BY DEF Accept
<1> HIDE DEF d
<1>4. ASSUME Pending(s, s.cur)
      PROVE  Kill(d, s.cur).alloc \in {"live", "freed"} /\ Kill(d, s.cur).dlg = s.dlg
  <2>1. s.cur \in Attached(d)
    BY <1>2, <1>4 DEF Pending, Attached, IsIST, Sound, Sessions
  <2> QED
    BY <1>2, <2>1, KillDialog
<1> QED
  BY <1>1, <1>2, <1>3, <1>4, NearCalms DEF Calms, WaitsAs

LEMMA ByeSipCalms ==
    ASSUME NEW s, NEW n \in Nat, Sound(s, n), NEW made \in BOOLEAN, NEW sent \in BOOLEAN
    PROVE  ByeSip(s, made, sent).dlg = s.dlg /\ ByeSip(s, made, sent).alloc = "live"
<1> DEFINE a == Attach(s, "NICT", "completed", TRUE)
<1>0. s \in Sessions /\ s.alloc = "live"
  BY DEF Sound, Covers
<1>1. CASE s.sip /\ made /\ Free(s) # {}
  <2>1. a.dlg = s.dlg /\ a.alloc = "live" /\ Kill(a, NextSlot(s)) = s
    BY <1>0, <1>1, AttachFollows, KillAttached
  <2> QED
    BY <1>0, <1>1, <2>1 DEF ByeSip
<1>2. CASE ~ (s.sip /\ made /\ Free(s) # {})
  BY <1>0, <1>2 DEF ByeSip
<1> QED
  BY <1>1, <1>2

LEMMA HandledCalms ==
    ASSUME NEW s, NEW n \in Nat, Sound(s, n),
           NEW old, NEW code \in {"OK", "BYE", "CALL", "ACCEPTED", "other"},
           NEW r \in Handled(s, old, code)
    PROVE  Calms(s, r.ses)
<1>1. s \in Sessions /\ s.alloc = "live"
  BY DEF Sound, Covers
<1>2. CASE r.ses = s \/ r.ses = Incref(s)
  BY <1>1, <1>2, IncrefFollows, FollowsReflexive DEF Calms, Follows
<1>3. CASE \E made \in BOOLEAN, sent \in BOOLEAN : r.ses = ByeSip(s, made, sent)
  BY <1>3, ByeSipCalms DEF Calms, WaitsAs
<1>4. CASE r \in Refuse(s) \/ r \in Fail(s)
  BY <1>1, <1>4, RefuseNear, NearCalms
<1>5. CASE r \in Connecting(s)
  BY <1>1, <1>5, ConnectingNear, NearCalms, AcceptCalms
<1> QED
  BY <1>2, <1>3, <1>4, <1>5, HandledResults

\* A message ends the wait for its answer, or is as if it had not come.
LEMMA ReceivedCall ==
    ASSUME NEW s, NEW n \in Nat, Sound(s, n),
           NEW code \in {"OK", "BYE", "CALL", "ACCEPTED", "other"}, NEW r \in Received(s, code)
    PROVE  \/ r.ses.lost
           \/ /\ r.ses.alloc \in {"live", "freed"}
              /\ Follows(s, r.ses) \/ ~ Waits(r.ses.dlg)
<1>1. PICK moved \in Sessions :
         /\ Same(s, moved)
         /\ \/ r.ses = moved /\ r.ret = 1
            \/ /\ r \in Handled(moved, s.dlg.state, code)
               /\ code # "other" => ~ Waits(moved.dlg)
  BY ReceivedMoves DEF Sound
<1>2. Sound(moved, n) /\ moved.alloc = "live"
  BY <1>1, SameSound DEF Sound, Covers
<1>3. CASE r.ses = moved
  BY <1>1, <1>2, <1>3, SameFollows
<1>4. CASE r \in Handled(moved, s.dlg.state, code) /\ ~ Waits(moved.dlg)
  BY <1>2, <1>4, HandledCalms DEF Calms, WaitsAs
<1>5. CASE r \in Handled(moved, s.dlg.state, code) /\ code = "other"
  <2>1. r.ses = moved
    BY <1>5, HandledOther
  <2> QED
    BY <1>3, <2>1
<1> QED
  BY <1>1, <1>3, <1>4, <1>5

LEMMA LeelenMessageCall ==
    ASSUME SafeInv, CallSound, LeelenMessage
    PROVE  CallInv'
<1>1. /\ Sound(ses, Busy + leaving) /\ Busy + leaving \in Nat /\ CallSafe(ses)
      /\ ses.alloc = "live" /\ Linked(ses)
  BY LiveIsSound, BusyIsNumber DEF LeelenMessage, SafeInv, CallSound, Sound
<1>2. \/ ses'.lost
      \/ /\ ses'.alloc \in {"live", "freed"}
         /\ Follows(ses, ses') \/ ~ Waits(ses'.dlg)
  BY <1>1, ReceivedCall DEF LeelenMessage
<1>3. worker = "none" /\ UNCHANGED <<worker, job, swept>>
  BY DEF LeelenMessage, Running
<1>4. CASE Follows(ses, ses')
  BY <1>1, <1>3, <1>4, FollowsStep
<1>5. CASE ses'.alloc \in {"live", "freed"} /\ ~ Waits(ses'.dlg)
  BY <1>3, <1>5 DEF CallInv, CallSound, CallSafe
<1> QED
  BY <1>2, <1>4, <1>5 DEF CallInv

LEMMA NewLeelenCall ==
    ASSUME SafeInv, NewLeelen
    PROVE  CallInv'
<1> DEFINE s == New(ses)
           f == [s EXCEPT !.dlg = Fresh(s.dlg.sent, s.dlg.idle)]
<1>1. Sound(s, 0) /\ s \in Sessions /\ s.dlg \in Dialogs
  BY NewIsSound DEF NewLeelen, Sound, Sessions
<1>2. worker = "none" /\ UNCHANGED <<worker, job, swept>>
  BY NewIsSound DEF NewLeelen, Running
<1>3. Same(s, f) /\ ~ Waits(f.dlg)
  BY <1>1, FreshDialog, SameDialog DEF Sessions
<1>4. PICK r \in Received(f, "CALL") : ses' = IF r.ret = 0 THEN r.ses ELSE Freed(r.ses)
  <2>1. [s EXCEPT !.dlg = Fresh(@.sent, @.idle)] = f
    BY <1>1 DEF Sessions
  <2> QED
    BY <2>1 DEF NewLeelen
<1> HIDE DEF s, f
<1>5. Sound(f, 0)
  BY <1>1, <1>3, SameSound
<1>6. r.ses.lost \/ (r.ses.alloc \in {"live", "freed"} /\ ~ Waits(r.ses.dlg))
  BY <1>3, <1>4, <1>5, ReceivedCall DEF Follows, WaitsAs
<1>7. r.ses \in Sessions
  BY <1>4, <1>5, ReceivedSafe DEF Outcome
<1>8. /\ Freed(r.ses).alloc = "freed" /\ Freed(r.ses).dlg = r.ses.dlg
      /\ Freed(r.ses).lost = r.ses.lost
  BY <1>7 DEF Freed, Sessions
<1>9. ses'.lost \/ (ses'.alloc \in {"live", "freed"} /\ ~ Waits(ses'.dlg))
  BY <1>4, <1>6, <1>8
<1> QED
  BY <1>2, <1>9 DEF CallInv, CallSound, CallSafe

\* What the sweep does to the session of a call that is being set up.
LEMMA SweptCall ==
    ASSUME NEW s, NEW n \in Nat, Sound(s, n), s.listed, CallSafe(s),
           NEW r \in Swept(s)
    PROVE  \/ r.lost
           \/ r.alloc = "crashed" /\ Dead(r.dlg)
           \/ /\ r.alloc \in {"live", "freed"}
              /\ r.listed /\ Waits(r.dlg) => r = s /\ s.dlg.sent < AckTimeout
<1>1. s \in Sessions /\ s.dlg \in Dialogs /\ s.alloc = "live"
  BY DEF Sound, Sessions, Covers
<1>2. CASE r = s /\ s.dlg.state = "CONNECTING" /\ ~ AckExpired(s.dlg)
  BY <1>1, <1>2, TimeAssumption DEF AckExpired, Dialogs, TimeAssumption, Never
<1>3. CASE r = s /\ s.dlg.state # "CONNECTING"
  BY <1>1, <1>3 DEF Waits
<1>4. CASE s.dlg.state = "CONNECTING" /\ AckExpired(s.dlg) /\ r \in DialTimeout(s)
  <2>1. CASE s.cur = Null
    <3>1. r = [s EXCEPT !.alloc = "crashed"]
      BY <1>4, <2>1 DEF DialTimeout
    <3>2. r.alloc = "crashed" /\ r.dlg = s.dlg
      BY <1>1, <3>1 DEF Sessions
    <3>3. ~ Waits(s.dlg)
      BY <2>1 DEF CallSafe
    <3> QED
      BY <1>4, <3>2, <3>3 DEF Waits, Dead
  <2>2. CASE s.cur # Null
    <3>1. PICK c \in Sessions :
             /\ Sound(c, n) /\ ~ Waits(c.dlg)
             /\ r \in Answers(c, c.cur) \/ r = Decref(c)
      BY <1>4, <2>2, DialTimeoutResults
    <3>2. c.alloc = "live" /\ c.cur \in Slots \cup {Null}
      BY <3>1 DEF Sound, Covers, Sessions
    <3>3. Follows(c, r)
      BY <3>1, <3>2, AnswersNear, NearFollows, DecrefFollows
    <3> QED
      BY <3>1, <3>2, <3>3 DEF Follows, WaitsAs
  <2> QED
    BY <2>1, <2>2
<1>5. CASE s.dlg.state = "CONNECTED" /\ r \in SessionTimeout(s)
  <2>1. PICK sent \in BOOLEAN, made \in BOOLEAN, out \in BOOLEAN :
           LET q == ByeSip(ByeLeelen(s, sent), made, out)
           IN  r = q \/ r = Decref(q)
    BY <1>5, SessionTimeoutResults
  <2> DEFINE b == ByeLeelen(s, sent)
             q == ByeSip(b, made, out)
  <2>2. Same(s, b)
    BY <1>1, SameBye
  <2>3. r = q \/ r = Decref(q)
    BY <2>1
  <2> HIDE DEF b
  <2>4. Sound(b, n) /\ WaitsAs(s.dlg, b.dlg)
    BY <2>2, SameSound DEF Same
  <2>5. q.dlg = b.dlg /\ q.alloc = "live"
    BY <2>4, ByeSipCalms
  <2>6. q \in Sessions
    BY <2>4, ByeSipSound DEF Sound
  <2> HIDE DEF q
  <2>7. r.lost \/ (r.alloc \in {"live", "freed"} /\ WaitsAs(q.dlg, r.dlg))
    BY <2>3, <2>5, <2>6, DecrefFollows, FollowsReflexive DEF Follows
  <2> QED
    BY <1>5, <2>4, <2>5, <2>7 DEF WaitsAs, Waits
<1>6. CASE r = DecrefOnly([s EXCEPT !.listed = FALSE])
  BY <1>1, <1>6, UnlistedGoes
<1>7. \/ r = s /\ s.dlg.state = "CONNECTING" /\ ~ AckExpired(s.dlg)
      \/ r = s /\ s.dlg.state # "CONNECTING"
      \/ s.dlg.state = "CONNECTING" /\ AckExpired(s.dlg) /\ r \in DialTimeout(s)
      \/ s.dlg.state = "CONNECTED" /\ r \in SessionTimeout(s)
      \/ r = DecrefOnly([s EXCEPT !.listed = FALSE])
  BY Zenon DEF Swept
<1> QED
  BY <1>2, <1>3, <1>4, <1>5, <1>6, <1>7

LEMMA ExecutedDialog ==
    ASSUME NEW s \in Sessions, NEW n \in Nat, Safe(s, n), NEW r \in Executed(s)
    PROVE  r.lost \/ (Same(s, r) /\ r.dlg = s.dlg)
<1>1. PICK u \in Sessions :
         /\ Same(s, u) /\ u.dlg = s.dlg
         /\ \/ r = u
            \/ s.alloc = "live" /\ "sip" \in Faults /\ \E t \in Attached(u) : r = Unsent(u, t)
  BY ExecutedSame
<1>2. CASE s.alloc = "live" /\ "sip" \in Faults /\ \E t \in Attached(u) : r = Unsent(u, t)
  <2>1. Sound(u, n)
    BY <1>1, <1>2, SameSound DEF Sound, Safe
  <2> QED
    BY <1>2, <2>1, UnsentSafe
<1> QED
  BY <1>1, <1>2

LEMMA SweepCall ==
    ASSUME SafeInv, CallSound, Sweep
    PROVE  CallInv'
<1> SUFFICES ASSUME ~ ses'.lost PROVE CallSound'
  BY DEF CallInv
<1>t. /\ ses \in Sessions /\ Busy + leaving \in Nat /\ swept' = TRUE
      /\ UNCHANGED <<worker, job>> /\ Safe(ses, Busy + leaving)
      /\ worker \in {"none", "discover", "prepare", "call", "reply", "finish"}
  BY BusyIsNumber DEF SafeInv, Sweep, TypeOK
<1>a. AckTimeout \in Nat \ {0}
  BY TimeAssumption DEF TimeAssumption
<1>1. CASE /\ ses.alloc = "live" /\ ses.listed /\ ~ Running
           /\ \E s \in Swept(ses) : ses' \in Executed(s)
  <2>1. PICK s \in Swept(ses) : ses' \in Executed(s)
    BY <1>1
  <2>2. Sound(ses, Busy + leaving) /\ CallSafe(ses) /\ worker = "none" /\ Linked(ses)
    BY <1>1, LiveIsSound DEF CallSound, Running, Sound
  <2>3. s \in Sessions /\ Safe(s, Busy + leaving)
    BY <1>t, <1>1, <2>2, SweptSafe DEF Outcome
  <2>4. Same(s, ses') /\ ses'.dlg = s.dlg
    BY <1>t, <2>1, <2>3, ExecutedDialog
  <2>5. \/ s.alloc = "crashed" /\ Dead(s.dlg)
        \/ /\ s.alloc \in {"live", "freed"}
           /\ s.listed /\ Waits(s.dlg) => s = ses /\ ses.dlg.sent < AckTimeout
    BY <1>t, <1>1, <2>2, <2>4, SweptCall DEF Same
  <2>6. CASE s.alloc = "crashed" /\ Dead(s.dlg)
    BY <1>t, <2>2, <2>4, <2>6 DEF CallSound, Running, Same
  <2>7. CASE s.alloc \in {"live", "freed"} /\ s = ses /\ ses.dlg.sent < AckTimeout
    <3>1. CallSafe(ses')
      BY <2>2, <2>4, <2>7, SameFollows, FollowsCall
    <3>2. ses'.dlg.sent # AckTimeout
      BY <1>a, <2>4, <2>7
    <3>3. CallSafe(ses)'
      BY <1>t, <2>2, <3>1, <3>2 DEF CallSafe
    <3> QED
      BY <2>4, <2>7, <3>3 DEF CallSound, Same
  <2>8. CASE s.alloc \in {"live", "freed"} /\ ~ (s.listed /\ Waits(s.dlg))
    <3>1. ~ (ses'.listed /\ Waits(ses'.dlg))
      BY <2>4, <2>8 DEF Same
    <3>2. CallSafe(ses)'
      BY <1>t, <2>2, <3>1 DEF CallSafe
    <3> QED
      BY <2>4, <2>8, <3>2 DEF CallSound, Same
  <2> QED
    BY <2>5, <2>6, <2>7, <2>8
<1>2. CASE ~ (ses.alloc = "live" /\ ses.listed /\ ~ Running) /\ ses' \in Executed(ses)
  <2>2. Same(ses, ses') /\ ses'.dlg = ses.dlg /\ ses'.alloc = ses.alloc
    BY <1>t, <1>2, ExecutedDialog DEF Same
  <2>3. CASE ses.alloc # "live"
    BY <1>t, <2>2, <2>3 DEF CallSound, Running
  <2>4. CASE ses.alloc = "live"
    <3>1. CallSafe(ses) /\ Linked(ses)
      BY <2>4, LiveIsSound DEF CallSound, Sound
    <3>2. CallSafe(ses')
      BY <2>2, <3>1, SameFollows, FollowsCall
    <3>3. ses'.listed /\ Waits(ses'.dlg) => ses'.dlg.sent = 0
      <4>1. ses'.listed => worker # "none"
        BY <1>2, <2>2, <2>4 DEF Same, Running
      <4> QED
        BY <1>t, <3>2, <4>1 DEF CallSafe
    <3>4. CallSafe(ses)'
      BY <1>t, <1>a, <3>2, <3>3 DEF CallSafe
    <3> QED
      BY <2>2, <2>4, <3>4 DEF CallSound
  <2> QED
    BY <2>3, <2>4
<1> QED
  BY <1>1, <1>2 DEF Sweep

LEMMA WorkCall ==
    ASSUME SafeInv, CallSound, Discover \/ Prepare \/ Call \/ Reply
    PROVE  CallInv'
<1> SUFFICES ASSUME ~ ses'.lost PROVE CallSound'
  BY DEF CallInv
<1>t. /\ ses \in Sessions /\ ses.dlg \in Dialogs /\ job \in Slots \cup {Null}
      /\ RetryAge \in Nat /\ AckTimeout \in Nat \ {0} /\ UNCHANGED <<job, swept>>
  BY SessionAssumption, TimeAssumption
     DEF SafeInv, TypeOK, Sessions, SessionAssumption, TimeAssumption, Discover, Prepare, Call, Reply
<1>r. worker # "none" /\ ses.alloc \notin {"none", "crashed"}
  BY DEF CallSound, Running, Discover, Prepare, Call, Reply
<1>1. CASE ses' = ses /\ worker' = "reply"
  BY <1>t, <1>r, <1>1 DEF CallSound, CallSafe, Discover, Prepare, Call, Reply
<1>2. CASE Discover /\ worker' = "prepare" /\ ses' = [ses EXCEPT !.dlg = Fresh(ses.dlg.sent, ses.dlg.idle)]
  <2>1. /\ ~ Waits(ses'.dlg) /\ ses'.alloc = ses.alloc /\ ses'.tr = ses.tr
        /\ Attached(ses') = Attached(ses)
    BY <1>t, <1>2, FreshDialog DEF Sessions, Attached
  <2> QED
    BY <1>t, <1>r, <1>2, <2>1 DEF CallSound, CallSafe, Discover
<1>3. CASE Prepare /\ worker' = "call" /\ ses' = [ses EXCEPT !.cur = job]
  <2>1. /\ ses'.dlg = ses.dlg /\ ses'.alloc = ses.alloc /\ ses'.tr = ses.tr /\ ses'.cur = job
        /\ Attached(ses') = Attached(ses)
    BY <1>t, <1>3 DEF Sessions, Attached
  <2> QED
    BY <1>t, <1>r, <1>3, <2>1 DEF CallSound, CallSafe, Prepare
<1>4. CASE Call /\ worker' = "finish" /\ ses' = [ses EXCEPT !.dlg = Sent(ses.dlg, "CALL")]
  <2>1. /\ ses'.dlg.sent = 0 /\ ses'.alloc = ses.alloc /\ ses'.tr = ses.tr /\ ses'.cur = ses.cur
    BY <1>t, <1>4, SentDialog DEF Sessions
  <2>2. CASE ses.alloc = "live"
    <3>1. job \in Slots /\ ses.cur = job /\ ses.tr[job].age <= RetryAge
      BY <1>4, <2>2 DEF CallSound, CallSafe, Call, Attached
    <3>2. job # Null
      BY <3>1, SlotIsNotNull
    <3>3. ses.tr[job].age \in Nat
      BY <1>t, <3>1, SessionAssumption DEF Sessions, Trs, NoTr, SessionAssumption
    <3>4. CallSafe(ses)'
      BY <1>t, <1>4, <2>1, <3>1, <3>2, <3>3 DEF CallSafe
    <3> QED
      BY <2>1, <2>2, <3>4 DEF CallSound
  <2>3. CASE ses.alloc # "live"
    BY <1>r, <2>1, <2>3 DEF CallSound
  <2> QED
    BY <2>2, <2>3
<1>5. CASE Reply
  <2>1. ses'.alloc \in {ses.alloc, "freed"} /\ (~ Waits(ses.dlg) => ~ Waits(ses'.dlg))
    <3>1. CASE ses.alloc = "live"
      <4>1. Sound(ses, Busy + leaving) /\ Busy + leaving \in Nat /\ ses' \in MayAnswer(ses, job)
        BY <1>5, <3>1, LiveIsSound, BusyIsNumber DEF Reply, SafeInv
      <4>2. Near(ses, Busy + leaving, ses')
        BY <1>t, <4>1, AnswersNear
      <4> QED
        BY <4>2 DEF Near, Same, WaitsAs
    <3>2. CASE ses.alloc # "live"
      BY <1>5, <3>2, OneAnswersTheLiving DEF Reply
    <3> QED
      BY <3>1, <3>2
  <2>2. ses'.alloc = "live" => CallSafe(ses)'
    BY <1>5, <2>1 DEF CallSound, CallSafe, Reply
  <2> QED
    BY <1>r, <2>1, <2>2 DEF CallSound
<1>6. /\ Discover => \/ worker' = "prepare" /\ ses' = [ses EXCEPT !.dlg = Fresh(ses.dlg.sent, ses.dlg.idle)]
                     \/ ses' = ses /\ worker' = "reply"
      /\ Prepare => \/ worker' = "call" /\ ses' = [ses EXCEPT !.cur = job]
                    \/ ses' = ses /\ worker' = "reply"
      /\ Call => \/ worker' = "finish" /\ ses' = [ses EXCEPT !.dlg = Sent(ses.dlg, "CALL")]
                 \/ ses' = ses /\ worker' = "reply"
  BY <1>t DEF Discover, Prepare, Call, Sessions
<1> QED
  BY <1>1, <1>2, <1>3, <1>4, <1>5, <1>6

LEMMA FinishCall ==
    ASSUME CallSound, Finish
    PROVE  CallInv'
BY DEF CallInv, CallSound, CallSafe, Finish, Running

LEMMA LeaveCall ==
    ASSUME SafeInv, CallSound, Leave
    PROVE  CallInv'
<1>1. /\ ses \in Sessions /\ ses' = DecrefOnly(ses) /\ UNCHANGED <<worker, job, swept>>
  BY DEF SafeInv, TypeOK, Leave
<1>2. ses'.alloc = ses.alloc /\ ses'.dlg = ses.dlg
  BY <1>1 DEF DecrefOnly, Sessions
<1>3. CASE ses.alloc = "live"
  BY <1>1, <1>3, LiveIsSound, DecrefFollows, FollowsStep DEF CallSound, Sound
<1>4. CASE ses.alloc # "live"
  BY <1>1, <1>2, <1>4 DEF CallInv, CallSound, Running
<1> QED
  BY <1>3, <1>4

LEMMA AgesAreNumbers ==
    ASSUME NEW s \in Sessions, NEW t \in Slots
    PROVE  s.tr[t].age \in Nat
BY SessionAssumption DEF SessionAssumption, Sessions, Trs, NoTr

\* libosip2 ends no transaction that a call or a worker still needs.
LEMMA TerminateCall ==
    ASSUME SafeInv, CallSound, ~ ses.lost, NEW t \in Slots, Terminate(t)
    PROVE  CallInv'
<1>1. /\ Sound(ses, Busy + leaving) /\ Busy + leaving \in Nat /\ CallSafe(ses)
      /\ ses \in Sessions /\ Linked(ses) /\ UNCHANGED <<worker, job, swept>>
  BY LiveIsSound, BusyIsNumber DEF Terminate, SafeInv, CallSound, TypeOK, Sound
<1>2. t \in Attached(ses) /\ ses.tr[t].age >= Linger /\ ses.tr[t].age \in Nat
  BY <1>1, AgesAreNumbers DEF Attached, Terminate, Sessions, NoTr, Trs
<1>3. Linger \in Nat /\ RetryAge \in Nat /\ Linger > RetryAge + AckTimeout /\ AckTimeout \in Nat
  BY SessionAssumption, TimeAssumption DEF SessionAssumption, TimeAssumption
<1>4. /\ ses'.alloc \in {"live", "freed"} /\ ses'.dlg = ses.dlg
      /\ ses'.listed => ses.listed
      /\ ses.cur # t => ses'.cur = ses.cur
      /\ \A u \in Attached(ses) \ {t} : u \in Attached(ses') /\ ses'.tr[u].age = ses.tr[u].age
  BY <1>1, <1>2, KillDialog, KillSafe DEF Terminate
<1>5. worker \in {"discover", "prepare", "call"} => job # t
  BY <1>1, <1>2, <1>3 DEF CallSafe
<1>6. ses.listed /\ Waits(ses.dlg) => ses.cur # t
  <2> SUFFICES ASSUME ses.listed, Waits(ses.dlg), ses.cur = t PROVE FALSE
    OBVIOUS
  <2>1. ses.tr[t].age <= RetryAge + ses.dlg.sent /\ ses.dlg.sent \in 0 .. AckTimeout
    BY <1>1 DEF CallSafe
  <2> QED
    BY <1>2, <1>3, <2>1
<1>7. ASSUME ses'.listed, Waits(ses'.dlg)
      PROVE  /\ ses'.cur # Null /\ ses'.tr[ses'.cur].age <= RetryAge + ses'.dlg.sent
             /\ ses'.dlg.sent \in 0 .. AckTimeout
             /\ ses'.dlg.sent = AckTimeout => ~ swept
  <2>1. ses.listed /\ Waits(ses.dlg) /\ ses.cur # t /\ ses'.cur = ses.cur
    BY <1>4, <1>6, <1>7
  <2>2. /\ ses.cur # Null /\ ses.tr[ses.cur].age <= RetryAge + ses.dlg.sent
        /\ ses.dlg.sent \in 0 .. AckTimeout
        /\ ses.dlg.sent = AckTimeout => ~ swept
    BY <1>1, <2>1 DEF CallSafe
  <2>3. ses.cur \in Attached(ses) \ {t}
    BY <1>1, <2>1, <2>2 DEF Linked
  <2>4. ses'.tr[ses.cur].age = ses.tr[ses.cur].age
    BY <1>4, <2>3
  <2> QED
    BY <1>4, <2>1, <2>2, <2>4
<1>8. worker \in {"discover", "prepare", "call"} =>
          job \in Attached(ses') /\ ses'.tr[job].age <= RetryAge
  BY <1>1, <1>4, <1>5 DEF CallSafe
<1>9. worker = "call" => ses'.cur = job
  BY <1>1, <1>4, <1>5 DEF CallSafe
<1>10. CallSafe(ses')
  BY <1>1, <1>4, <1>7, <1>8, <1>9 DEF CallSafe
<1>11. CallSafe(ses)'
  BY <1>1, <1>10 DEF CallSafe
<1> QED
  BY <1>4, <1>11 DEF CallInv, CallSound

LEMMA TickCall ==
    ASSUME SafeInv, CallSound, Tick
    PROVE  CallSound'
<1> DEFINE tr2 == [t \in Slots |->
               IF ses.tr[t].state = "completed" /\ ses.tr[t].age < LingerMax
               THEN [ses.tr[t] EXCEPT !.age = @ + 1] ELSE ses.tr[t]]
<1>1. /\ ses \in Sessions /\ ses.dlg \in Dialogs /\ worker = "none" /\ swept /\ swept' = FALSE
      /\ UNCHANGED <<worker, job>>
  BY DEF SafeInv, TypeOK, Tick, Running, Sessions
<1>2. /\ ses'.tr = tr2 /\ ses'.dlg = IF ses.alloc = "live" THEN Aged(ses.dlg) ELSE ses.dlg
      /\ ses'.alloc = ses.alloc /\ ses'.listed = ses.listed /\ ses'.cur = ses.cur
  BY <1>1 DEF Tick, Sessions
<1>3. ASSUME NEW t \in Slots
      PROVE  /\ tr2[t].age \in Nat /\ ses.tr[t].age \in Nat
             /\ tr2[t].age <= ses.tr[t].age + 1
  <2>1. ses.tr[t] \in Trs \cup {NoTr} /\ ses.tr[t].age \in Nat
    BY <1>1, AgesAreNumbers DEF Sessions
  <2>2. CASE ses.tr[t].state = "completed" /\ ses.tr[t].age < LingerMax
    <3>1. ses.tr[t] \in Trs
      BY <2>1, <2>2 DEF NoTr
    <3>2. tr2[t].age = ses.tr[t].age + 1
      BY <2>2, <3>1 DEF Trs
    <3> QED
      BY <2>1, <3>2
  <2>3. CASE ~ (ses.tr[t].state = "completed" /\ ses.tr[t].age < LingerMax)
    BY <2>1, <2>3
  <2> QED
    BY <2>2, <2>3
<1> HIDE DEF tr2
<1>4. CASE ses.alloc # "live"
  BY <1>1, <1>2, <1>4 DEF CallSound, Running
<1>5. CASE ses.alloc = "live"
  <2>1. CallSafe(ses) /\ Linked(ses) /\ ses'.dlg = Aged(ses.dlg)
    BY <1>2, <1>5, LiveIsSound DEF CallSound, Sound
  <2>2. ASSUME ses'.listed, Waits(ses'.dlg)
        PROVE  /\ ses'.cur # Null /\ ses'.tr[ses'.cur].age <= RetryAge + ses'.dlg.sent
               /\ ses'.dlg.sent \in 0 .. AckTimeout
    <3>1. ses.listed /\ Waits(ses.dlg)
      BY <1>1, <1>2, <2>1, <2>2 DEF Aged, Waits, Dialogs
    <3>2. /\ ses.cur # Null /\ ses.tr[ses.cur].age <= RetryAge + ses.dlg.sent
          /\ ses.dlg.sent \in 0 .. AckTimeout /\ ses.dlg.sent # AckTimeout
      BY <1>1, <2>1, <3>1 DEF CallSafe
    <3>3. ses'.dlg.sent = ses.dlg.sent + 1
      BY <1>1, <2>1, <3>2, TimeAssumption DEF Aged, Dialogs, TimeAssumption, Never
    <3>4. ses.cur \in Slots /\ RetryAge \in Nat /\ AckTimeout \in Nat
      BY <1>1, <3>2, SessionAssumption, TimeAssumption DEF Sessions, SessionAssumption, TimeAssumption
    <3>5. /\ tr2[ses.cur].age \in Nat /\ ses.tr[ses.cur].age \in Nat
          /\ tr2[ses.cur].age <= ses.tr[ses.cur].age + 1
      BY <1>3, <3>4
    <3>6. ses'.dlg.sent \in 0 .. AckTimeout
      BY <3>2, <3>3, <3>4
    <3>7. tr2[ses.cur].age <= RetryAge + ses'.dlg.sent
      BY <3>2, <3>3, <3>4, <3>5
    <3> QED
      BY <1>2, <3>2, <3>6, <3>7
  <2>3. CallSafe(ses)'
    BY <1>1, <2>2 DEF CallSafe
  <2> QED
    BY <1>2, <1>5, <2>3 DEF CallSound
<1> QED
  BY <1>4, <1>5

LEMMA InitCall == Init => CallInv
<1> SUFFICES ASSUME Init PROVE CallInv
  OBVIOUS
<1>1. PICK d \in Garbage :
         ses = [alloc |-> "none", listed |-> FALSE, sip |-> FALSE, refs |-> 1,
                cur |-> Null, lost |-> FALSE, dlg |-> d, tr |-> [t \in Slots |-> NoTr]]
  BY DEF Init
<1>2. ses.alloc = "none" /\ ~ ses.dlg.live /\ worker = "none"
  BY <1>1, SessionAssumption DEF SessionAssumption, Init
<1> QED
  BY <1>2 DEF CallInv, CallSound, Running

LEMMA NextCall ==
    ASSUME SafeInv, CallInv, [Next]_vars
    PROVE  CallInv'
<1> SUFFICES ASSUME ~ ses'.lost PROVE CallInv'
  BY DEF CallInv
<1>0. CallSound /\ ~ ses.lost
  BY NextSafe DEF Inherits, CallInv
<1>1. CASE NewInvite \/ ReInvite \/ RetransmittedInvite
  BY <1>0, <1>1, InvitesCall
<1>2. CASE NistBye \/ Options \/ NoCallback
  BY <1>0, <1>2, RequestsCall
<1>3. CASE Register \/ NotNew \/ UNCHANGED vars
  BY <1>0, <1>3 DEF Register, NotNew, vars, CallInv, CallSound, CallSafe, Running
<1>4. CASE LeelenMessage
  BY <1>0, <1>4, LeelenMessageCall
<1>5. CASE NewLeelen
  BY <1>5, NewLeelenCall
<1>6. CASE Discover \/ Prepare \/ Call \/ Reply
  BY <1>0, <1>6, WorkCall
<1>7. CASE Finish \/ Leave
  BY <1>0, <1>7, FinishCall, LeaveCall
<1>8. CASE Sweep
  BY <1>0, <1>8, SweepCall
<1>9. ASSUME NEW t \in Slots, Terminate(t) \/ Repeat(t) PROVE CallInv'
  <2>1. ~ Repeat(t)
    BY RepeatStep
  <2> QED
    BY <1>0, <1>9, <2>1, TerminateCall
<1>10. CASE Tick
  BY <1>0, <1>10, TickCall DEF CallInv
<1> QED
  BY <1>1, <1>2, <1>3, <1>4, <1>5, <1>6, <1>7, <1>8, <1>9, <1>10 DEF Next, Work

LEMMA AlwaysCall == Spec => []CallInv
<1>1. SafeInv /\ CallInv /\ [Next]_vars => CallInv'
  BY NextCall
<1> QED
  BY <1>1, InitCall, AlwaysSafe, PTL DEF Spec

\* The sweep finds the transaction of a call that it has to answer, although the
\* client may repeat or cancel the INVITE and libosip2 ends it by a timer of its
\* own: that timer is the longer one (SessionAssumption).  It does not find it if a
\* SIP message was not sent, or if there was no call, but malloc() left something
\* that looks like one.
THEOREM CallKeepsTransaction == Spec => []CallHasTransaction
<1>1. CallInv => CallHasTransaction
  BY DEF CallInv, CallSound, CallHasTransaction, Dead
<1> QED
  BY <1>1, AlwaysCall, PTL

\* Those are the only two causes: where every SIP message is sent and no memory of a
\* new session looks like a dialog that is being set up (sipleelen.c:430), the sweep
\* follows no NULL (sipleelen.c:435).
THEOREM NeverCrashes ==
    ASSUME "sip" \notin Faults, CleanMemory
    PROVE  Spec => [](ses.alloc # "crashed")
<1>1. SafeInv /\ CallInv => ses.alloc # "crashed"
  BY DEF SafeInv, CallInv, CallSound
<1> QED
  BY <1>1, AlwaysSafe, AlwaysCall, PTL
============================================================================
