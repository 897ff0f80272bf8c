----------------------------- MODULE Discovery -----------------------------
(***************************************************************************)
(* Peer discovery (leelen/discovery/discovery.c).  INVITE workers call     *)
(* LeelenDiscovery_discovery() at the same time; one daemon thread reads   *)
(* the advertisements and hands the first one over through the fields host *)
(* and initres, a mutex and a condition variable.                          *)
(*                                                                         *)
(* Each call looks for a device of its own.  An advertisement carries the  *)
(* address and description of a device but not the phone number that was   *)
(* asked for, so nothing in it says whose answer it is.  Every section     *)
(* under the mutex is one action; what runs outside it (the first test of  *)
(* initres, the wait) is a step of its own.                                *)
(***************************************************************************)
EXTENDS Integers, FiniteSets

CONSTANTS
    Workers,   \* threads that may be in LeelenDiscovery_discovery()
    MaxCalls,  \* bound: calls in a behaviour
    OneSocket  \* whether the daemon polls a single socket (IPv4, no address set)

ASSUME DiscoveryAssumption == MaxCalls \in Nat /\ OneSocket \in BOOLEAN

\* The device a worker looks for; it is named after the worker.
None == "none"
Devices == Workers \cup {None}

VARIABLES
    state,     \* the daemon's single_flag: 1 while it runs
    daemon,    \* what the daemon thread does
    initres,   \* LeelenDiscovery.initres
    host,      \* LeelenDiscovery.host: whose advertisement it was parsed from
    ads,       \* advertisements on their way, by device
    pc,        \* where each worker is
    res,       \* what its last call returned
    got,       \* the host it returned
    calls,     \* calls so far
    fresh,     \* history: workers whose call began before host was written
    alone      \* history: workers whose call nobody else's has overlapped

vars == <<state, daemon, initres, host, ads, pc, res, got, calls, fresh, alone>>

Timeout == 254    \* timeout reached
NotRunning == 255
SendError == -1
BadReports == {7} \* the bits LeelenHost_init sets for a malformed report
Results == {0, Timeout, NotRunning, SendError} \cup BadReports

\* The daemon polls, is stuck in recvfromto(), has ended, or is about to take
\* the mutex with an advertisement that passed its first test.
DaemonStates == {"poll", "stuck", "ended"} \cup Workers

TypeOK ==
    /\ state \in BOOLEAN
    /\ daemon \in DaemonStates
    /\ initres \in {0, Timeout} \cup BadReports
    /\ host \in Devices
    /\ ads \subseteq Workers
    /\ pc \in [Workers -> {"idle", "ready", "waiting", "woken"}]
    /\ res \in [Workers -> Results]
    /\ got \in [Workers -> Devices]
    /\ calls \in 0 .. MaxCalls
    /\ fresh \subseteq Workers /\ alone \subseteq Workers

Init ==
    /\ state = TRUE /\ daemon = "poll"
    /\ initres = 0 /\ host = None
    /\ ads = {}
    /\ pc = [w \in Workers |-> "idle"]
    /\ res = [w \in Workers |-> 0]
    /\ got = [w \in Workers |-> None]
    /\ calls = 0
    /\ fresh = {} /\ alone = {}

Goto(w, place) == pc' = [pc EXCEPT ![w] = place]
Return(w, r) == res' = [res EXCEPT ![w] = r] /\ Goto(w, "idle")
InCall == {w \in Workers : pc[w] # "idle"}

---------------------------------------------------------------------------
(* LeelenDiscovery_discovery. *)

\* The test of the daemon's flag, before the mutex.
Enter(w) ==
    /\ pc[w] = "idle" /\ calls < MaxCalls
    /\ calls' = calls + 1
    /\ IF state
       THEN /\ Goto(w, "ready")
            /\ alone' = IF InCall = {} THEN {w} ELSE {}
            /\ UNCHANGED res
       ELSE Return(w, NotRunning) /\ UNCHANGED alone
    /\ UNCHANGED <<state, daemon, initres, host, ads, got, fresh>>

\* (mutant: no reset)
SolicitOnly(w) ==
    /\ pc[w] = "ready"
    /\ fresh' = fresh \ {w}
    /\ \/ Goto(w, "waiting") /\ UNCHANGED res
       \/ Return(w, SendError)
    /\ UNCHANGED <<state, daemon, initres, host, ads, got, calls, alone>>

\* (mutant: resets to -1)
SolicitMinusOne(w) ==
    /\ pc[w] = "ready"
    /\ initres' = SendError
    /\ fresh' = fresh \ {w}
    /\ \/ Goto(w, "waiting") /\ UNCHANGED res
       \/ Return(w, SendError)
    /\ UNCHANGED <<state, daemon, host, ads, got, calls, alone>>

\* Reset the result, send the solicitation, start the wait; sendto() may fail.
Solicit(w) ==
    /\ pc[w] = "ready"
    /\ initres' = Timeout
    /\ fresh' = fresh \ {w}
    /\ \/ Goto(w, "waiting") /\ UNCHANGED res
       \/ Return(w, SendError)
    /\ UNCHANGED <<state, daemon, host, ads, got, calls, alone>>

\* (mutant: waits again as long as there is no result)
WakeAnswered(w) ==
    /\ pc[w] = "waiting" /\ initres # Timeout
    /\ Goto(w, "woken")
    /\ UNCHANGED <<state, daemon, initres, host, ads, res, got, calls, fresh, alone>>

\* cnd_timedwait() ends without a signal: the time is over, or spuriously.
Wake(w) ==
    /\ pc[w] = "waiting"
    /\ Goto(w, "woken")
    /\ UNCHANGED <<state, daemon, initres, host, ads, res, got, calls,
                   fresh, alone>>

\* (mutant: believes the wait, which may have ended without the signal)
FetchByWait(w) ==
    /\ pc[w] = "woken"
    /\ \E r \in {initres, Timeout} : Return(w, r)
    /\ got' = [got EXCEPT ![w] = host]
    /\ UNCHANGED <<state, daemon, initres, host, ads, calls, fresh, alone>>

\* The mutex is back: fetch whatever the fields hold now.
Fetch(w) ==
    /\ pc[w] = "woken"
    /\ Return(w, initres)
    /\ got' = [got EXCEPT ![w] = host]
    /\ UNCHANGED <<state, daemon, initres, host, ads, calls, fresh, alone>>

---------------------------------------------------------------------------
(* The network: the device that w asked for may answer at any later time,  *)
(* more than once (both families are asked) or never.                      *)

Answer(w) ==
    /\ pc[w] \in {"waiting", "woken"}
    /\ ads' = ads \cup {w}
    /\ UNCHANGED <<state, daemon, initres, host, pc, res, got, calls,
                   fresh, alone>>

---------------------------------------------------------------------------
(* LeelenDiscovery_mainloop. *)

\* (mutant: a malformed report does not count)
OpenUntilGood == initres # 0

\* The daemon takes an advertisement only while no result stands.
Open == initres > 8

\* Read an advertisement; the first test of initres, without the mutex.
Take(d) ==
    /\ daemon = "poll" /\ d \in ads
    /\ ads' = ads \ {d}
    /\ daemon' = IF Open THEN d ELSE "poll"
    /\ UNCHANGED <<state, initres, host, pc, res, got, calls, fresh, alone>>

\* cnd_signal: one waiting thread, if any.
Signal ==
    \/ \E w \in Workers : pc[w] = "waiting" /\ Goto(w, "woken")
    \/ (\A w \in Workers : pc[w] # "waiting") /\ UNCHANGED pc

\* The second test and LeelenHost_init, under the mutex.
Accept ==
    /\ daemon \in Workers
    /\ daemon' = "poll"
    /\ IF Open
       THEN /\ initres' \in {0} \cup BadReports
            /\ host' = daemon
            /\ fresh' = InCall
            /\ Signal
       ELSE UNCHANGED <<initres, host, pc, fresh>>
    /\ UNCHANGED <<state, ads, res, got, calls, alone>>

\* With one socket the loop over two slots reads pollfds[1], which nobody has
\* set: when its revents happens not to be 0, recvfromto() blocks or fails.
ReadUnset ==
    /\ OneSocket /\ daemon = "poll"
    /\ daemon' = "stuck"
    /\ UNCHANGED <<state, initres, host, ads, pc, res, got, calls, fresh, alone>>

\* LeelenDiscovery_stop, and the broadcast of LeelenDiscovery_destroy.
Stop ==
    /\ state
    /\ state' = FALSE
    /\ pc' = [w \in Workers |-> IF pc[w] = "waiting" THEN "woken" ELSE pc[w]]
    /\ UNCHANGED <<daemon, initres, host, ads, res, got, calls, fresh, alone>>

\* single_continue says no.
End ==
    /\ daemon = "poll" /\ ~ state
    /\ daemon' = "ended"
    /\ UNCHANGED <<state, initres, host, ads, pc, res, got, calls, fresh, alone>>

Call(w) == Solicit(w) \/ Wake(w) \/ Fetch(w)
Daemon == (\E d \in Workers : Take(d)) \/ Accept \/ ReadUnset \/ End

Next ==
    \/ \E w \in Workers : Enter(w) \/ Call(w) \/ Answer(w)
    \/ Daemon
    \/ Stop

\* The time of a wait runs out, and threads that can run do.
Spec == Init /\ [][Next]_vars
FairSpec == Spec /\ \A w \in Workers : WF_vars(Call(w))

---------------------------------------------------------------------------
(* Properties. *)

\* A call never succeeds with a host of an earlier call: initres was reset
\* after it began, so somebody has written host since (discovery.c:34,62).
NeverStale ==
    [][\A w \in Workers :
          pc[w] = "woken" /\ pc'[w] = "idle" /\ res'[w] = 0 => w \in fresh]_vars

\* No answer is lost on a caller that has the daemon for itself: it reports a
\* timeout only when no advertisement was accepted since it began, whether the
\* signal, the end of the wait or a spurious wake-up came first.
SoleCallerIsTold ==
    [][\A w \in Workers :
          pc[w] = "woken" /\ pc'[w] = "idle" /\ res'[w] = Timeout /\ w \in alone
             => w \notin fresh]_vars

\* Two answers never fight for the fields: while a result waits to be fetched,
\* host does not change until another call begins (discovery.c:155).
ResultStands ==
    [][initres < 8 /\ initres' < 8 => host' = host]_vars

\* Every call returns, with or without an answer, also when the daemon stops
\* or hangs.
CallReturns == \A w \in Workers : pc[w] # "idle" ~> pc[w] = "idle"

\* `0 on success, 254 if timeout reached' for `phone Peer phone number'
\* (discovery.h:63-65): success is the host of the phone that was asked for.
SuccessIsThePeer ==
    [][\A w \in Workers :
          pc[w] = "woken" /\ pc'[w] = "idle" /\ res'[w] = 0 => got'[w] = w]_vars
===========================================================================
