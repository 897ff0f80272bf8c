----------------------------- MODULE Lifecycle -----------------------------
(***************************************************************************)
(* The life of the program, leelen2sip.c and sipleelen.c: main() builds    *)
(* what the bridge needs, opens its sockets, starts the discovery daemon   *)
(* and runs the mainloop in its own thread; the mainloop starts INVITE     *)
(* workers; SIGINT ends it, and main() takes everything down again while   *)
(* the daemon and the workers, all of them detached, may still be on       *)
(* their last errand.  Here a call is what it does to the resources of the *)
(* program and to the two flags; Session and Discovery have the rest.      *)
(***************************************************************************)
EXTENDS Integers, Sequences

CONSTANT InviteWorkers     \* the INVITE workers there may be

ASSUME InviteWorkersAssumption == "nobody" \notin InviteWorkers

VARIABLES
    stage,     \* where main() is
    todo,      \* sockets that SIPLeelen_connect has still to open
    held,      \* resources that are held
    misused,   \* history: whether one was released that was not held
    state,     \* SIPLeelen.state
    dstate,    \* LeelenDiscovery.state
    daemon,    \* where LeelenDiscovery_mainloop is
    worker,    \* where each _SIPLeelen_ist_invite_process is
    joined,    \* the worker that the mainloop waits for, or "nobody"
    rounds     \* history: times the daemon has used its closed sockets

lifecycleVars ==
    <<stage, todo, held, misused, state, dstate, daemon, worker, joined, rounds>>
others == <<daemon, worker, joined, rounds>>

DiscoverySockets == {"sockfd", "sockfd6"}
Sockets == DiscoverySockets \cup {"spec_sockfd", "socket_leelen", "socket_sip"}
Resources == Sockets \cup {"mutex", "cond", "mtx_sessions", "osip", "desc", "ua"}

Starting == {"init", "sessions", "osip", "parse", "connect", "daemonize", "start", "run"}
Running == {"poll", "work"}
Ending == {"undo", "stop", "close", "join", "free", "release", "config", "exited"}

LifecycleTypeOK ==
    /\ stage \in Starting \cup Running \cup Ending
    /\ todo \in Seq(Sockets) /\ held \subseteq Resources /\ misused \in BOOLEAN
    /\ {state, dstate} \subseteq {-1, 0, 1}
    /\ daemon \in {"none", "check", "poll", "handle", "ended"}
    /\ worker \in [InviteWorkers -> {"none", "look", "wait", "call", "ended"}]
    /\ joined \in InviteWorkers \cup {"nobody"}
    /\ rounds \in Nat

LifecycleInit ==
    /\ stage = "init" /\ todo = <<>> /\ held = {} /\ misused = FALSE
    /\ state = 0 /\ dstate = 0 /\ daemon = "none" /\ rounds = 0
    /\ worker = [w \in InviteWorkers |-> "none"] /\ joined = "nobody"

From(here, there) == stage = here /\ stage' = there

Keep == UNCHANGED <<held, misused>>
Take(new) == held' = held \cup new /\ UNCHANGED misused
Release(old) == held' = held \ old /\ misused' = (misused \/ ~ old \subseteq held)

\* (mutant: a stop that is forgotten)
NotStopped(flag) == flag

\* single_stop
Stopped(flag) == IF flag = 1 THEN -1 ELSE flag

---------------------------------------------------------------------------
(* main() builds the program. *)

\* LeelenDiscovery_init: the mutex, or the condition variable, may fail, and
\* then nothing is left behind.
InitDiscovery ==
    /\ \/ From("init", "sessions") /\ Take({"mutex", "cond"})
       \/ From("init", "config") /\ Keep
    /\ UNCHANGED <<todo, state, dstate, others>>

\* mtx_init of the sessions; fail_mtx undoes the discovery.
InitSessions ==
    /\ \/ From("sessions", "osip") /\ Take({"mtx_sessions"})
       \/ From("sessions", "undo") /\ Keep
    /\ UNCHANGED <<todo, state, dstate, others>>

\* (mutant: the mutex of the sessions is forgotten)
InitOsipKeepsMutex ==
    /\ \/ From("osip", "parse") /\ Take({"osip"})
       \/ From("osip", "undo") /\ Keep
    /\ UNCHANGED <<todo, state, dstate, others>>

\* osip_init
InitOsip ==
    /\ \/ From("osip", "parse") /\ Take({"osip"})
       \/ From("osip", "undo") /\ Release({"mtx_sessions"})
    /\ UNCHANGED <<todo, state, dstate, others>>

\* LeelenDiscovery_destroy at fail_mtx.
Undo ==
    /\ From("undo", "config") /\ Release({"mutex", "cond"})
    /\ UNCHANGED <<todo, state, dstate, others>>

\* The sockets, by the <interface> of the command line (CommandLine): none or
\* an IPv4 one, an IPv4 address, `::' or an interface with -6, an IPv6 address.
Plans ==
    {d \o <<"socket_leelen", "socket_sip">> :
        d \in {<<"sockfd">>, <<"sockfd", "spec_sockfd">>,
               <<"sockfd6", "sockfd">>, <<"sockfd6", "spec_sockfd">>}}

\* The options, their defaults and the check of the ports; every failure goes
\* to `fail:', which destroys everything, and --help to `end:', which does too.
Parse ==
    /\ \/ /\ From("parse", "connect")
          /\ todo' \in Plans
          /\ Take({"desc", "ua"})
       \/ /\ From("parse", "stop")
          /\ UNCHANGED todo
          /\ \E given \in SUBSET {"desc", "ua"} : Take(given)
    /\ UNCHANGED <<state, dstate, others>>

\* SIPLeelen_connect, one socket at a time.  A socket that cannot be opened or
\* set up is closed and ends the program: also the IPv6 one beside an IPv4 one,
\* where a warning says otherwise but setsockopt() is called all the same.
Open ==
    /\ todo # <<>>
    /\ \/ /\ From("connect", "connect")
          /\ todo' = Tail(todo)
          /\ Take({Head(todo)})
       \/ From("connect", "stop") /\ UNCHANGED todo /\ Keep
    /\ UNCHANGED <<state, dstate, others>>

Opened ==
    /\ todo = <<>> /\ From("connect", "daemonize") /\ Keep
    /\ UNCHANGED <<todo, state, dstate, others>>

\* daemon(), if asked for; and signal().
Daemonize ==
    /\ From("daemonize", "start") \/ From("daemonize", "stop")
    /\ Keep /\ UNCHANGED <<todo, state, dstate, others>>

\* SIPLeelen_run begins with LeelenDiscovery_start.
DiscoveryStart ==
    /\ \/ From("start", "run") /\ dstate' = 1 /\ daemon' = "check"
       \/ From("start", "stop") /\ UNCHANGED <<dstate, daemon>>
    /\ Keep /\ UNCHANGED <<todo, state, worker, joined, rounds>>

\* single_run: until here a SIGINT finds no daemon to stop, and is ignored.
Run ==
    /\ From("run", "poll") /\ state' = 1
    /\ Keep /\ UNCHANGED <<todo, dstate, others>>

---------------------------------------------------------------------------
(* SIPLeelen_mainloop. *)

\* poll() and single_continue; after it, main() goes to SIPLeelen_destroy.
PollContinue ==
    /\ \/ state = 1 /\ From("poll", "work") /\ UNCHANGED state
       \/ state # 1 /\ From("poll", "stop") /\ state' = 0
    /\ Keep /\ UNCHANGED <<todo, dstate, others>>

\* Packets that concern no worker.
Packets ==
    /\ From("work", "poll") /\ joined = "nobody"
    /\ Keep /\ UNCHANGED <<todo, state, dstate, others>>

\* An INVITE.
StartWorker(w) ==
    /\ From("work", "poll") /\ joined = "nobody"
    /\ worker[w] = "none"
    /\ worker' = [worker EXCEPT ![w] = "look"]
    /\ Keep /\ UNCHANGED <<todo, state, dstate, daemon, joined, rounds>>

\* A LEELEN message for the session of a worker: single_join.
JoinWorker(w) ==
    /\ stage = "work" /\ joined = "nobody"
    /\ worker[w] \notin {"none", "ended"}
    /\ joined' = w
    /\ Keep /\ UNCHANGED <<stage, todo, state, dstate, daemon, worker, rounds>>

WorkerJoined ==
    /\ From("work", "poll") /\ joined # "nobody"
    /\ worker[joined] = "ended"
    /\ joined' = "nobody"
    /\ Keep /\ UNCHANGED <<todo, state, dstate, daemon, worker, rounds>>

\* shutdown_leelen2sip, the handler of SIGINT.
Interrupt ==
    /\ state = 1 /\ state' = -1
    /\ Keep /\ UNCHANGED <<stage, todo, dstate, others>>

---------------------------------------------------------------------------
(* SIPLeelen_destroy and the end of main(). *)

StopBoth ==
    /\ From("stop", "close")
    /\ state' = Stopped(state) /\ dstate' = Stopped(dstate)
    /\ Keep /\ UNCHANGED <<todo, others>>

\* LeelenDiscovery_destroy: its stop finds nothing to do.  Of the sockets it
\* closes those of all addresses and forgets the one of a given address.
CloseDiscovery ==
    /\ From("close", "join")
    /\ Release(DiscoverySockets \cap held)
    /\ UNCHANGED <<todo, state, dstate, others>>

\* cnd_broadcast and single_join, which looks for a running flag.
JoinDiscovery ==
    /\ dstate # 1
    /\ From("join", "free")
    /\ Keep /\ UNCHANGED <<todo, state, dstate, others>>

\* mtx_destroy and cnd_destroy, which waits until nobody waits any more.
FreeDiscovery ==
    /\ \A w \in InviteWorkers : worker[w] # "wait"
    /\ From("free", "release")
    /\ Release({"mutex", "cond"})
    /\ UNCHANGED <<todo, state, dstate, others>>

\* The rest of SIPLeelen_destroy.  The sessions are destroyed under the workers:
\* SIPLeelenSession_destroy stops a worker and does not wait for it either.
ReleaseBridge ==
    /\ From("release", "config")
    /\ Release({"osip", "mtx_sessions"} \cup (held \cap {"ua", "socket_leelen", "socket_sip"}))
    /\ UNCHANGED <<todo, state, dstate, others>>

\* LeelenConfig_destroy, and main() returns.
Exit ==
    /\ From("config", "exited")
    /\ Release(held \cap {"desc"})
    /\ UNCHANGED <<todo, state, dstate, others>>

---------------------------------------------------------------------------
(* The discovery daemon and the INVITE workers, until the program is gone. *)

DaemonTo(here, there) == stage # "exited" /\ daemon = here /\ daemon' = there

DaemonContinue ==
    /\ \/ dstate = 1 /\ DaemonTo("check", "poll") /\ UNCHANGED dstate
       \/ dstate # 1 /\ DaemonTo("check", "ended") /\ dstate' = 0
    /\ Keep /\ UNCHANGED <<stage, todo, state, worker, joined, rounds>>

\* poll() returns after a second at the latest, or because of what is now
\* behind the descriptors.
DaemonPoll ==
    /\ DaemonTo("poll", "handle") \/ DaemonTo("poll", "check")
    /\ Keep /\ UNCHANGED <<stage, todo, state, dstate, worker, joined, rounds>>

\* Reading and handling the packets.
DaemonHandle ==
    /\ DaemonTo("handle", "check")
    /\ rounds' = IF held \cap DiscoverySockets = {} THEN rounds + 1 ELSE rounds
    /\ Keep /\ UNCHANGED <<stage, todo, state, dstate, worker, joined>>

WorkerTo(w, here, there) ==
    /\ stage # "exited" /\ worker[w] = here
    /\ worker' = [worker EXCEPT ![w] = there]
    /\ Keep /\ UNCHANGED <<stage, todo, state, dstate, daemon, joined, rounds>>

\* LeelenDiscovery_discovery asks for the daemon first; the worker of a session
\* that is known does not come here.
Look(w) == dstate = 1 /\ WorkerTo(w, "look", "wait")
NoLook(w) == WorkerTo(w, "look", "call")

\* The wait ends by an answer, by the broadcast or by its timeout.
EndWait(w) == WorkerTo(w, "wait", "call")

\* (mutant: the worker needs the mutex that the mainloop holds while it joins)
EndCallLocked(w) == joined # w /\ WorkerTo(w, "call", "ended")

\* Sending the CALL or the answer, and the end of the worker.
EndCall(w) == WorkerTo(w, "call", "ended")

Main ==
    \/ InitDiscovery \/ InitSessions \/ InitOsip \/ Undo
    \/ Parse \/ Open \/ Opened \/ Daemonize \/ DiscoveryStart \/ Run
    \/ PollContinue \/ Packets \/ WorkerJoined
    \/ (\E w \in InviteWorkers : StartWorker(w) \/ JoinWorker(w))
    \/ StopBoth \/ CloseDiscovery \/ JoinDiscovery \/ FreeDiscovery
    \/ ReleaseBridge \/ Exit
DaemonStep == DaemonContinue \/ DaemonPoll \/ DaemonHandle
WorkerStep(w) == Look(w) \/ NoLook(w) \/ EndWait(w) \/ EndCall(w)

LifecycleNext == Main \/ Interrupt \/ DaemonStep \/ \E w \in InviteWorkers : WorkerStep(w)

\* Threads are scheduled, and poll() and cnd_timedwait() have timeouts; nobody
\* has to press Ctrl-C.
LifecycleFairness ==
    /\ WF_lifecycleVars(Main) /\ WF_lifecycleVars(DaemonStep)
    /\ \A w \in InviteWorkers : WF_lifecycleVars(WorkerStep(w))

LifecycleSpec == LifecycleInit /\ [][LifecycleNext]_lifecycleVars /\ LifecycleFairness

---------------------------------------------------------------------------
(* Properties. *)

\* On every way to the end of the program, whatever has failed on the way,
\* nothing is released that is not held, and everything is released, but for
\* the socket of a given address, which LeelenDiscovery_destroy forgets.
AllReleasedOnce ==
    /\ ~ misused
    /\ stage = "exited" => held \subseteq {"spec_sockfd"}

\* A SIGINT that was taken ends the program: no wait of the mainloop or of
\* SIPLeelen_destroy for another thread lasts for ever.
StopEnds == (state = -1) ~> (stage = "exited")

\* After LeelenDiscovery_destroy has closed the sockets, the daemon reads from
\* them in one round at most, although nobody waits for it.
LastRound == rounds <= 1
===========================================================================
