--------------------------- MODULE SessionTable ---------------------------
(***************************************************************************)
(* The sessions of the bridge, as far as they share anything: the array    *)
(* SIPLeelen.sessions, the reference counters and the memory.  Session has *)
(* the details of one; here a session is its holders and whether its       *)
(* LEELEN dialog is over.                                                  *)
(*                                                                         *)
(* Only the thread of SIPLeelen_mainloop reads and writes the array.  Its  *)
(* sweep looks at one element per step, since workers end meanwhile.  Two  *)
(* ways to lose a reference are left to Session: the ACK of a 200, and a   *)
(* BYE of a session timeout that cannot be sent.                           *)
(***************************************************************************)
EXTENDS PtrVector, FiniteSets

CONSTANTS
    Sessions,   \* the memory there is for sessions
    MaxHeld,    \* bound: transactions attached to a session at a time
    MaxRefs     \* bound: how far references that nobody gives back add up

ASSUME TableAssumption == Null \notin Sessions /\ MaxHeld \in Nat /\ MaxRefs \in Nat

VARIABLES
    sessions,   \* SIPLeelen.sessions
    alloc,      \* the sessions that are allocated
    refs,       \* SIPLeelenSession.refcount
    held,       \* transactions of a session
    busy,       \* sessions with an INVITE worker: single_still_running
    over,       \* sessions the sweep would remove
    at,         \* where the sweep is, 0 between sweeps
    due,        \* history: sessions of this sweep that it has not come to
    peak        \* history: most sessions there have been in the array

vars == <<sessions, alloc, refs, held, busy, over, at, due, peak>>

Listed == Entries(sessions)

TypeOK ==
    /\ sessions \in Seq(Sessions \cup {Null})
    /\ alloc \subseteq Sessions /\ busy \subseteq Sessions
    /\ over \subseteq Sessions /\ due \subseteq Sessions
    /\ refs \in [Sessions -> Nat] /\ held \in [Sessions -> Nat]
    /\ at \in Nat /\ peak \in Nat

Init ==
    /\ sessions = <<>> /\ alloc = {} /\ busy = {} /\ over = {} /\ due = {}
    /\ refs = [s \in Sessions |-> 0] /\ held = [s \in Sessions |-> 0]
    /\ at = 0 /\ peak = 0

Idle == at = 0

\* History of the longest the array has to be.
Count(v) == peak' = IF Cardinality(Entries(v)) > peak THEN Cardinality(Entries(v)) ELSE peak

\* (mutant: frees the session and leaves the pointer)
FreeKeepsEntry(s, v) ==
    /\ alloc' = alloc \ {s}
    /\ sessions' = v

\* SIPLeelen_free_session: out of memory, and out of the array v if it is there.
Free(s, v) ==
    /\ alloc' = alloc \ {s}
    /\ sessions' \in ptrvtake(v, s)

\* (mutant: the transaction gets the reference of the array)
AttachUncounted(s) == held' = [held EXCEPT ![s] = @ + 1] /\ UNCHANGED refs

\* A transaction of s, and a reference for it.
Attach(s) ==
    /\ held' = [held EXCEPT ![s] = @ + 1]
    /\ refs' = [refs EXCEPT ![s] = @ + 1]

\* What the end or the beginning of a call does to the counter: nothing, a
\* transaction for a BYE of ours, or a reference that is never given back
\* (uac.c:103, sipleelen.c:440).
Talk(s) ==
    \/ UNCHANGED <<held, refs>>
    \/ held[s] < MaxHeld /\ Attach(s)
    \/ /\ refs[s] < MaxRefs /\ refs' = [refs EXCEPT ![s] = @ + 1]
       /\ UNCHANGED held

\* SIPLeelenSession_decref, which never frees.
DecrefOnly(s) == refs' = [refs EXCEPT ![s] = IF @ = 1 THEN 1 ELSE @ - 1]

---------------------------------------------------------------------------
(* Packets and timers of libosip2, in the thread of the mainloop. *)

\* SIPLeelen_new_session for an INVITE: the array and the transaction hold it,
\* and what its dialog looks like is up to malloc().
NewInvite(s) ==
    /\ Idle /\ s \notin alloc
    /\ \E v \in ptrvinsert(sessions, s) : sessions' = v /\ Count(v)
    /\ alloc' = alloc \cup {s}
    /\ refs' = [refs EXCEPT ![s] = 2] /\ held' = [held EXCEPT ![s] = 1]
    /\ over' \in {over, over \cup {s}}
    /\ UNCHANGED <<busy, at, due>>

\* The same for a LEELEN invitation that is answered, which takes a reference.
NewLeelen(s) ==
    /\ Idle /\ s \notin alloc
    /\ \E v \in ptrvinsert(sessions, s) : sessions' = v /\ Count(v)
    /\ alloc' = alloc \cup {s}
    /\ refs' = [refs EXCEPT ![s] = 2]
    /\ UNCHANGED <<held, busy, over, at, due>>

\* And for one that fails: the session goes at once.
RefusedLeelen(s) ==
    /\ Idle /\ s \notin alloc
    /\ \E v \in ptrvinsert(sessions, s) : Free(s, v) /\ Count(v)
    /\ UNCHANGED <<refs, held, busy, over, at, due>>

\* A request that matches a session of the array, and perhaps ends its call.
Request(s) ==
    /\ Idle /\ s \in Listed /\ held[s] < MaxHeld
    /\ Attach(s)
    /\ over' \in {over, over \cup {s}}
    /\ UNCHANGED <<sessions, alloc, busy, at, due, peak>>

\* A LEELEN message for a session of the array begins or ends a call.
Message(s) ==
    /\ Idle /\ s \in Listed /\ s \notin busy
    /\ over' \in {over \cup {s}, over \ {s}}
    /\ Talk(s)
    /\ UNCHANGED <<sessions, alloc, busy, at, due, peak>>

\* An INVITE, or a retransmission of one, starts the worker.
StartWorker(s) ==
    /\ Idle /\ s \in alloc /\ held[s] > 0 /\ s \notin busy
    /\ busy' = busy \cup {s}
    /\ refs' = [refs EXCEPT ![s] = @ + 1]
    /\ UNCHANGED <<sessions, alloc, held, over, at, due, peak>>

\* (mutant: counts a transaction that has no session)
KillUnattached(s) ==
    /\ Idle
    /\ held' = [held EXCEPT ![s] = @ - 1]
    /\ refs' = [refs EXCEPT ![s] = @ - 1]
    /\ UNCHANGED <<sessions, alloc, over, busy, at, due, peak>>

\* _SIPLeelen_kill_transaction: the last reference frees the session.
Kill(s) ==
    /\ Idle /\ held[s] > 0
    /\ held' = [held EXCEPT ![s] = @ - 1]
    /\ refs' = [refs EXCEPT ![s] = @ - 1]
    /\ IF refs[s] = 1
       THEN Free(s, sessions) /\ over' = over \ {s}
       ELSE UNCHANGED <<sessions, alloc, over>>
    /\ UNCHANGED <<busy, at, due, peak>>

\* The end of the worker, at any time.  It has called the phone, or failed.
EndWorker(s) ==
    /\ s \in busy /\ busy' = busy \ {s}
    /\ over' \in {over, over \ {s}}
    /\ DecrefOnly(s)
    /\ UNCHANGED <<sessions, alloc, held, at, due, peak>>

---------------------------------------------------------------------------
(* The sweep. *)

StartSweep ==
    /\ Idle /\ at' = 1 /\ due' = Listed
    /\ UNCHANGED <<sessions, alloc, refs, held, busy, over, peak>>

\* An element that is NULL, has a worker, or has to wait, a session whose BYE
\* has grown old included.
Pass ==
    /\ at \in 1 .. Len(sessions)
    /\ at' = at + 1 /\ due' = due \ {sessions[at]}
    /\ UNCHANGED <<sessions, alloc, refs, held, busy, over, peak>>

\* A timeout ends the call.
Expire(s) ==
    /\ at \in 1 .. Len(sessions) /\ sessions[at] = s
    /\ s \notin busy /\ s \notin over
    /\ at' = at + 1 /\ due' = due \ {s}
    /\ over' = over \cup {s}
    /\ Talk(s)
    /\ UNCHANGED <<sessions, alloc, busy, peak>>

\* A session that is over leaves the array.
Remove(s) ==
    /\ at \in 1 .. Len(sessions) /\ sessions[at] = s
    /\ s \notin busy /\ s \in over
    /\ at' = at + 1 /\ due' = due \ {s}
    /\ sessions' \in ptrvsteal(sessions, at)
    /\ DecrefOnly(s)
    /\ UNCHANGED <<alloc, held, busy, over, peak>>

EndSweep ==
    /\ at > Len(sessions) /\ at' = 0 /\ due' = {}
    /\ UNCHANGED <<sessions, alloc, refs, held, busy, over, peak>>

Next ==
    \/ \E s \in Sessions :
          \/ NewInvite(s) \/ NewLeelen(s) \/ RefusedLeelen(s)
          \/ Request(s) \/ Message(s) \/ StartWorker(s) \/ Kill(s)
          \/ EndWorker(s) \/ Expire(s) \/ Remove(s)
    \/ StartSweep \/ Pass \/ EndSweep

Spec == Init /\ [][Next]_vars

---------------------------------------------------------------------------
(* Properties. *)

\* Every pointer of the array is to a session that is allocated, and to one
\* that is not there twice, although sessions are freed from the callbacks of
\* libosip2, by address, and the memory of one becomes that of the next.
ArrayIsSound ==
    \A i \in 1 .. Len(sessions) :
        sessions[i] # Null =>
            /\ sessions[i] \in alloc
            /\ \A j \in 1 .. Len(sessions) : sessions[j] = sessions[i] => j = i

\* Transactions and workers never outlive the session they point to.
HoldersAreSafe ==
    \A s \in Sessions \ alloc : held[s] = 0 /\ s \notin busy

\* The sweep comes to every session that was in the array when it began and
\* still is, although it takes elements out while it walks over them.
SweepMissesNone == at > Len(sessions) => due \cap Listed = {}

\* The array is no longer than the most sessions it ever had to hold.
HolesAreReused == Len(sessions) <= peak

\* `Remove a session from self->sessions' (sipleelen.c:68): a session whose
\* call goes on does not leave the array because another one does.
OthersStay ==
    [][\A s \in Listed \ Entries(sessions') : s \in over \/ s \notin alloc']_vars
===========================================================================
