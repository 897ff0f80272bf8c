---------------------------- MODULE SingleFlag ----------------------------
(***************************************************************************)
(* The flag of utils/single.h: it lets several threads start, stop and     *)
(* join one daemon.  The flag is the only shared state; an atomic access   *)
(* to it is one step.  A daemon is a loop over single_continue(), or a     *)
(* function that ends with single_finish() (the INVITE worker of uas.c).   *)
(***************************************************************************)
EXTENDS Integers, FiniteSets

CONSTANTS
    Callers,   \* threads that start and join; one becomes the daemon in single_run
    Workers,   \* threads thrd_create() can give
    MaxStops   \* how often single_stop() hits a running daemon

ASSUME SingleAssumption == Callers \cap Workers = {} /\ MaxStops \in Nat

Threads == Callers \cup Workers

STOPPING == -1
STOPPED == 0
RUNNING == 1

VARIABLES
    flag,      \* the single_flag
    pc,        \* where each thread is
    mode,      \* which of single_start and single_run a caller is in
    old,       \* old_flag of single_acquire, as the compare-exchange left it
    stops      \* bound: calls of single_stop so far that found it running

vars == <<flag, pc, mode, old, stops>>

Acquiring == {"acquire", "test", "spin", "create"}
Joining == {"join", "joining"}
InDaemon == {"check", "body", "finish"}

TypeOK ==
    /\ flag \in {STOPPING, STOPPED, RUNNING}
    /\ pc \in [Threads -> {"idle"} \cup Acquiring \cup Joining \cup InDaemon]
    /\ mode \in [Callers -> {"start", "run"}]
    /\ old \in [Callers -> {STOPPING, STOPPED, RUNNING}]
    /\ \A w \in Workers : pc[w] \in {"idle"} \cup InDaemon
    /\ stops \in 0 .. MaxStops

Init ==
    /\ flag = STOPPED
    /\ pc = [t \in Threads |-> "idle"]
    /\ mode = [c \in Callers |-> "start"]
    /\ old = [c \in Callers |-> STOPPED]
    /\ stops = 0

Goto(t, place) == pc' = [pc EXCEPT ![t] = place]
At(t, place) == pc[t] = place

single_is_running(value) == value > 0
single_still_running(value) == value # 0

---------------------------------------------------------------------------
(* single_acquire, single_start and single_run. *)

Call(c) ==
    /\ At(c, "idle")
    /\ \E m \in {"start", "run"} : mode' = [mode EXCEPT ![c] = m]
    /\ Goto(c, "acquire")
    /\ UNCHANGED <<flag, old, stops>>

\* (mutant: takes a stopping flag for a stopped one)
ExchangeStopping(c) ==
    /\ At(c, "acquire") /\ flag # RUNNING
    /\ flag' = RUNNING
    /\ Goto(c, IF mode[c] = "start" THEN "create" ELSE "check")
    /\ UNCHANGED <<mode, old, stops>>

\* The compare-exchange takes a stopped flag.
Exchange(c) ==
    /\ At(c, "acquire") /\ flag = STOPPED
    /\ flag' = RUNNING
    /\ Goto(c, IF mode[c] = "start" THEN "create" ELSE "check")
    /\ UNCHANGED <<mode, old, stops>>

\* It fails on another value, and may fail on a stopped flag too, being weak.
ExchangeFails(c) ==
    /\ At(c, "acquire")
    /\ old' = [old EXCEPT ![c] = flag]
    /\ Goto(c, "test")
    /\ UNCHANGED <<flag, mode, stops>>

\* Give up when the flag was running, otherwise wait.
Test(c) ==
    /\ At(c, "test")
    /\ Goto(c, IF single_is_running(old[c]) THEN "idle" ELSE "spin")
    /\ old' = [old EXCEPT ![c] = STOPPED]
    /\ UNCHANGED <<flag, mode, stops>>

\* (mutant: waits for the stopped flag itself)
SpunStopped(c) ==
    /\ At(c, "spin") /\ flag = STOPPED
    /\ Goto(c, "acquire")
    /\ UNCHANGED <<flag, mode, old, stops>>

\* `while (*flag < 0) thrd_yield ()', its last round.
Spun(c) ==
    /\ At(c, "spin") /\ ~ flag < 0
    /\ Goto(c, "acquire")
    /\ UNCHANGED <<flag, mode, old, stops>>

\* thrd_create() in single_start.
Create(c) ==
    /\ At(c, "create")
    /\ \E w \in Workers :
          /\ At(w, "idle")
          /\ pc' = [pc EXCEPT ![c] = "idle", ![w] = "check"]
    /\ UNCHANGED <<flag, mode, old, stops>>

\* (mutant: forgets single_finish)
CreateFailsKeepsFlag(c) ==
    /\ At(c, "create")
    /\ Goto(c, "idle")
    /\ UNCHANGED <<flag, mode, old, stops>>

\* thrd_create() fails: single_finish.
CreateFails(c) ==
    /\ At(c, "create")
    /\ flag' = STOPPED
    /\ Goto(c, "idle")
    /\ UNCHANGED <<mode, old, stops>>

---------------------------------------------------------------------------
(* single_stop and single_join. *)

\* (mutant: stores STOPPING whatever the flag is)
StopStores ==
    /\ stops < MaxStops
    /\ flag' = STOPPING
    /\ stops' = stops + 1
    /\ UNCHANGED <<pc, mode, old>>

\* One compare-exchange; a signal handler calls it too, on any thread.
single_stop ==
    /\ flag = RUNNING /\ stops < MaxStops
    /\ flag' = STOPPING
    /\ stops' = stops + 1
    /\ UNCHANGED <<pc, mode, old>>

JoinCall(c) ==
    /\ At(c, "idle")
    /\ Goto(c, "join")
    /\ UNCHANGED <<flag, mode, old, stops>>

\* The inline part of single_join: wait only for a running daemon.
single_join(c) ==
    /\ At(c, "join")
    /\ Goto(c, IF single_is_running(flag) THEN "joining" ELSE "idle")
    /\ UNCHANGED <<flag, mode, old, stops>>

\* (mutant: waits only while the daemon has not been told to stop)
JoinedStopping(c) ==
    /\ At(c, "joining") /\ ~ single_is_running(flag)
    /\ Goto(c, "idle")
    /\ UNCHANGED <<flag, mode, old, stops>>

\* The last round of the loop in _single_join.
Joined(c) ==
    /\ At(c, "joining") /\ ~ single_still_running(flag)
    /\ Goto(c, "idle")
    /\ UNCHANGED <<flag, mode, old, stops>>

---------------------------------------------------------------------------
(* The daemon. *)

\* The test of single_continue.
Check(t) ==
    /\ At(t, "check")
    /\ Goto(t, IF single_is_running(flag) THEN "body" ELSE "finish")
    /\ UNCHANGED <<flag, mode, old, stops>>

\* One round of work; a one-shot daemon goes on to single_finish.
Body(t) ==
    /\ At(t, "body")
    /\ \E place \in {"check", "finish"} : Goto(t, place)
    /\ UNCHANGED <<flag, mode, old, stops>>

\* (mutant: counts the flag down instead of storing)
FinishCountsDown(t) ==
    /\ At(t, "finish")
    /\ flag' = flag - 1
    /\ Goto(t, "idle")
    /\ UNCHANGED <<mode, old, stops>>

\* single_finish; the thread ends, or its caller returns from single_run.
Finish(t) ==
    /\ At(t, "finish")
    /\ flag' = STOPPED
    /\ Goto(t, "idle")
    /\ UNCHANGED <<mode, old, stops>>

Acquire(c) == Exchange(c) \/ ExchangeFails(c) \/ Test(c) \/ Spun(c)
Daemon(t) == Check(t) \/ Body(t) \/ Finish(t)

Next ==
    \/ \E c \in Callers :
          \/ Call(c) \/ Acquire(c) \/ Create(c) \/ CreateFails(c)
          \/ JoinCall(c) \/ single_join(c) \/ Joined(c)
    \/ single_stop
    \/ \E t \in Threads : Daemon(t)

Spec == Init /\ [][Next]_vars

\* Threads that are inside the library or a daemon are scheduled again; a weak
\* compare-exchange does not fail for ever on a flag it could take.
Fairness ==
    /\ \A c \in Callers :
          /\ WF_vars(Acquire(c)) /\ SF_vars(Exchange(c))
          /\ WF_vars(Create(c) \/ CreateFails(c))
          /\ WF_vars(single_join(c)) /\ WF_vars(Joined(c))
    /\ \A t \in Threads : WF_vars(Daemon(t))

FairSpec == Spec /\ Fairness

---------------------------------------------------------------------------
(* Properties. *)

Daemons == {t \in Threads : pc[t] \in InDaemon}

\* Who may write single_finish: the daemon, or the caller about to create it.
Owners == Daemons \cup {c \in Callers : pc[c] = "create"}

\* `promise that only one thread will be running at the same time, even if
\* invoked from several threads' (single.h:152).
AtMostOneDaemon == \A t, u \in Daemons : t = u

\* A flag that is up belongs to somebody who will take it down: no failure of
\* thrd_create and no stop that comes before the daemon's first instruction
\* leaves single_acquire and _single_join spinning on it.
FlagHasOwner == flag # STOPPED => Owners # {}

\* A join that found the daemon running returns only when it has finished,
\* although single_stop, a new single_start and the end of the daemon race it.
JoinWaits ==
    [][\A c \in Callers : At(c, "joining") /\ At(c, "idle")' => Daemons = {}]_vars

\* A stop takes effect, whatever the callers do meanwhile.
StopTakesEffect == flag = STOPPING ~> flag = STOPPED

\* single_start and single_run return, or run the daemon; no caller waits for
\* ever for a flag that others keep taking.
StartReturns ==
    \A c \in Callers : pc[c] \in Acquiring ~> pc[c] \notin Acquiring
===========================================================================
