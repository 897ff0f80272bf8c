----------------------------- MODULE Forwarder -----------------------------
(***************************************************************************)
(* The media forwarder, sipleelen/forwarder.c: two detached threads copy   *)
(* datagrams between two sockets, one in each direction, and share one     *)
(* single_flag with the thread that starts, stops and destroys them.  The  *)
(* flag is the one of utils/single.h; an access to it is one step here,    *)
(* and what SingleFlag says of one daemon does not carry over to two.      *)
(*                                                                         *)
(* A half that still sleeps in poll() while the forwarder is stopped and   *)
(* started again belongs to an earlier start, so halves are named after    *)
(* the start that made them.                                               *)
(***************************************************************************)
EXTENDS Integers, FiniteSets

CONSTANT MaxStarts    \* bound: calls of Forwarder_start that take the flag

ASSUME ForwarderAssumption == MaxStarts \in Nat

Directions == {1, 2}
Halves == (1 .. MaxStarts) \X Directions

VARIABLES
    fwd,       \* Forwarder.state
    owner,     \* where the thread that owns the forwarder is
    half,      \* where each HalfForwarder_mainloop is
    sockets,   \* socket1 and socket2: not set, open, or closed
    starts,    \* starts so far
    late       \* history: receives of each half on sockets that were closed

forwarderVars == <<fwd, owner, half, sockets, starts, late>>

FlagValues == {-1, 0, 1}     \* STOPPING, STOPPED, RUNNING
OwnerPlaces ==
    {"idle", "create1", "create2", "failed", "close", "join", "destroyed"}
HalfPlaces == {"none", "check", "poll", "finish", "ended"}

ForwarderTypeOK ==
    /\ fwd \in FlagValues
    /\ owner \in OwnerPlaces
    /\ half \in [Halves -> HalfPlaces]
    /\ sockets \in {"unset", "open", "closed"}
    /\ starts \in 0 .. MaxStarts
    /\ late \in [Halves -> Nat]

\* Forwarder_init
ForwarderInit ==
    /\ fwd = 0 /\ owner = "idle"
    /\ half = [h \in Halves |-> "none"]
    /\ sockets = "unset"
    /\ starts = 0
    /\ late = [h \in Halves |-> 0]

Alive == {h \in Halves : half[h] \notin {"none", "ended"}}
Step(h, place) == half' = [half EXCEPT ![h] = place]
OwnerTo(place) == owner' = place

---------------------------------------------------------------------------
(* The owner. *)

\* SIPLeelenSession_connect sets the sockets.
SetSockets ==
    /\ owner = "idle" /\ sockets = "unset"
    /\ sockets' = "open"
    /\ UNCHANGED <<fwd, owner, half, starts, late>>

\* (mutant: takes the flag while it is stopping)
StartStopping ==
    /\ owner = "idle" /\ sockets = "open" /\ starts < MaxStarts
    /\ fwd # 1
    /\ fwd' = 1
    /\ starts' = starts + 1
    /\ OwnerTo("create1")
    /\ UNCHANGED <<half, sockets, late>>

\* Forwarder_start with sockets: single_acquire waits while the flag is
\* STOPPING and takes it when it is STOPPED.
Start ==
    /\ owner = "idle" /\ sockets = "open" /\ starts < MaxStarts
    /\ fwd = 0
    /\ fwd' = 1
    /\ starts' = starts + 1
    /\ OwnerTo("create1")
    /\ UNCHANGED <<half, sockets, late>>

\* One round of the loop: malloc and thrd_execute of a half.
CreateHalf(d) ==
    /\ owner = IF d = 1 THEN "create1" ELSE "create2"
    /\ Step(<<starts, d>>, "check")
    /\ OwnerTo(IF d = 1 THEN "create2" ELSE "idle")
    /\ UNCHANGED <<fwd, sockets, starts, late>>

\* malloc or thrd_create fails; `goto fail'.
HalfFails ==
    /\ owner \in {"create1", "create2"}
    /\ OwnerTo("failed")
    /\ UNCHANGED <<fwd, half, sockets, starts, late>>

\* single_finish at fail:, also when the first half runs.
StartFails ==
    /\ owner = "failed"
    /\ fwd' = 0
    /\ OwnerTo("idle")
    /\ UNCHANGED <<half, sockets, starts, late>>

\* Forwarder_stop
Stop ==
    /\ owner = "idle" /\ fwd = 1
    /\ fwd' = -1
    /\ UNCHANGED <<owner, half, sockets, starts, late>>

\* (mutant: closes the sockets without a stop)
DestroyOnly ==
    /\ owner = "idle"
    /\ OwnerTo("close")
    /\ UNCHANGED <<fwd, half, sockets, starts, late>>

\* Forwarder_destroy begins with Forwarder_stop.
Destroy ==
    /\ owner = "idle"
    /\ fwd' = IF fwd = 1 THEN -1 ELSE fwd
    /\ OwnerTo("close")
    /\ UNCHANGED <<half, sockets, starts, late>>

Close ==
    /\ owner = "close"
    /\ sockets' = IF sockets = "open" THEN "closed" ELSE sockets
    /\ OwnerTo("join")
    /\ UNCHANGED <<fwd, half, starts, late>>

\* single_join: it waits for a running flag only.
Join ==
    /\ owner = "join" /\ fwd # 1
    /\ OwnerTo("destroyed")
    /\ UNCHANGED <<fwd, half, sockets, starts, late>>

---------------------------------------------------------------------------
(* HalfForwarder_mainloop. *)

\* The test of single_continue.
Continue(h) ==
    /\ half[h] = "check"
    /\ Step(h, IF fwd = 1 THEN "poll" ELSE "finish")
    /\ UNCHANGED <<fwd, owner, sockets, starts, late>>

\* (mutant: each half takes back its part of the stop)
FinishCounts(h) ==
    /\ half[h] = "finish"
    /\ fwd' = fwd + 1
    /\ Step(h, "ended")
    /\ UNCHANGED <<owner, sockets, starts, late>>

\* Its single_finish; the thread ends.
FinishHalf(h) ==
    /\ half[h] = "finish"
    /\ fwd' = 0
    /\ Step(h, "ended")
    /\ UNCHANGED <<owner, sockets, starts, late>>

\* (mutant: an error of poll() ends the half)
PollErrorEnds(h) ==
    /\ half[h] = "poll"
    /\ \E place \in {"finish", "check"} : Step(h, place)
    /\ late' = [late EXCEPT ![h] = IF sockets = "closed" THEN @ + 1 ELSE @]
    /\ UNCHANGED <<fwd, owner, sockets, starts>>

\* poll() returns, because of a datagram, of an error or after a second; a
\* closed descriptor may be another socket of the program by now.
Poll(h) ==
    /\ half[h] = "poll"
    /\ Step(h, "check")
    /\ late' = [late EXCEPT ![h] = IF sockets = "closed" THEN @ + 1 ELSE @]
    /\ UNCHANGED <<fwd, owner, sockets, starts>>

Owner ==
    \/ SetSockets \/ Start \/ (\E d \in Directions : CreateHalf(d))
    \/ HalfFails \/ StartFails
    \/ Stop \/ Destroy \/ Close \/ Join
Half(h) == Continue(h) \/ FinishHalf(h) \/ Poll(h)

ForwarderNext == Owner \/ \E h \in Halves : Half(h)

ForwarderSpec == ForwarderInit /\ [][ForwarderNext]_forwarderVars

---------------------------------------------------------------------------
(* Properties. *)

\* Threads do not pile up: a start adds two, and the flag can be taken again
\* only after one thread or one failed start has lowered it.  More than two are
\* possible, as a half of an earlier start sees the flag of a later one.
HalvesAreBounded == Cardinality(Alive) <= starts + 1

\* A forwarder that was started runs until it is stopped: its flag goes from
\* RUNNING to STOPPED only when a thread cannot be created, or by a half of an
\* earlier start that looked at the flag before this one (single.h:81).
StartHolds ==
    [][fwd = 1 /\ fwd' = 0 =>
          \/ owner = "failed"
          \/ \E h \in Halves : h[1] < starts /\ half[h] = "finish" /\ half'[h] = "ended"]_forwarderVars

\* After Forwarder_destroy has closed the sockets, whose numbers may be given to
\* the next call, each half looks at them once at most, although the join at the
\* end of it does not wait for a flag that is STOPPING.
LastReceive == \A h \in Halves : late[h] <= 1
===========================================================================
