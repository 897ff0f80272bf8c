------------------------- MODULE Lifecycle_proofs -------------------------
(***************************************************************************)
(* Theorems of Lifecycle, for any number of INVITE workers, and of what    *)
(* MCThreads puts beside it.                                               *)
(***************************************************************************)
EXTENDS MCThreads, Forwarder_proofs, SequenceTheorems, TLAPS

\* Every plan opens a socket of the discovery first.
LEMMA PlansAreSockets ==
    ASSUME NEW plan \in Plans
    PROVE  /\ plan \in Seq(Sockets)
           /\ plan # <<>>
           /\ Head(plan) \in DiscoverySockets
<1> DEFINE rest == <<"socket_leelen", "socket_sip">>
<1>1. PICK d \in {<<"sockfd">>, <<"sockfd", "spec_sockfd">>,
                  <<"sockfd6", "sockfd">>, <<"sockfd6", "spec_sockfd">>} : plan = d \o rest
  BY DEF Plans
<1>2. d \in Seq(Sockets) /\ Len(d) \in {1, 2} /\ d[1] \in DiscoverySockets
  <2>1. CASE d = <<"sockfd">>
    BY <2>1 DEF Sockets, DiscoverySockets
  <2>2. CASE d = <<"sockfd", "spec_sockfd">>
    BY <2>2 DEF Sockets, DiscoverySockets
  <2>3. CASE d = <<"sockfd6", "sockfd">>
    BY <2>3 DEF Sockets, DiscoverySockets
  <2>4. CASE d = <<"sockfd6", "spec_sockfd">>
    BY <2>4 DEF Sockets, DiscoverySockets
  <2> QED
    BY <2>1, <2>2, <2>3, <2>4
<1>3. rest \in Seq(Sockets) /\ Len(rest) = 2
  BY DEF Sockets
<1> HIDE DEF rest
<1>4. plan \in Seq(Sockets) /\ Len(plan) = Len(d) + Len(rest) /\ plan[1] = d[1]
  BY <1>1, <1>2, <1>3, ConcatProperties
<1>5. Len(plan) # 0
  BY <1>2, <1>3, <1>4
<1> QED
  BY <1>2, <1>4, <1>5, EmptySeq

LEMMA InitType == LifecycleInit => LifecycleTypeOK
<1> SUFFICES ASSUME LifecycleInit PROVE LifecycleTypeOK
  OBVIOUS
<1>1. todo \in Seq(Sockets)
  BY EmptySeq DEF LifecycleInit
<1>2. worker \in [InviteWorkers -> {"none", "look", "wait", "call", "ended"}]
  BY DEF LifecycleInit
<1> QED
  BY <1>1, <1>2 DEF LifecycleInit, LifecycleTypeOK, Starting

LEMMA NextType == LifecycleTypeOK /\ [LifecycleNext]_lifecycleVars => LifecycleTypeOK'
<1> SUFFICES ASSUME LifecycleTypeOK, [LifecycleNext]_lifecycleVars PROVE LifecycleTypeOK'
  OBVIOUS
<1> USE InviteWorkersAssumption
        DEF InviteWorkersAssumption, LifecycleTypeOK, Starting, Running, Ending, From, Keep, Take, Release,
            others, Resources
<1>1. CASE InitDiscovery \/ InitSessions \/ InitOsip \/ Undo
  BY <1>1 DEF InitDiscovery, InitSessions, InitOsip, Undo
<1>2. CASE Parse
  BY <1>2, PlansAreSockets DEF Parse
<1>3. CASE Open
  <2>1. Head(todo) \in Sockets /\ Tail(todo) \in Seq(Sockets)
    BY <1>3, HeadTailProperties DEF Open
  <2> QED
    BY <1>3, <2>1 DEF Open
<1>4. CASE Opened \/ Daemonize
  BY <1>4 DEF Opened, Daemonize
<1>5. CASE DiscoveryStart \/ Run \/ PollContinue \/ Packets \/ WorkerJoined \/ Interrupt
  BY <1>5 DEF DiscoveryStart, Run, PollContinue, Packets, WorkerJoined, Interrupt
<1>6. ASSUME NEW w \in InviteWorkers, StartWorker(w) \/ JoinWorker(w) PROVE LifecycleTypeOK'
  BY <1>6 DEF StartWorker, JoinWorker
<1>7. CASE StopBoth
  BY <1>7 DEF StopBoth, Stopped
<1>8. CASE CloseDiscovery \/ JoinDiscovery \/ FreeDiscovery \/ ReleaseBridge \/ Exit
  BY <1>8 DEF CloseDiscovery, JoinDiscovery, FreeDiscovery, ReleaseBridge, Exit
<1>9. CASE DaemonStep
  BY <1>9 DEF DaemonStep, DaemonContinue, DaemonPoll, DaemonHandle, DaemonTo
<1>10. ASSUME NEW w \in InviteWorkers, WorkerStep(w) PROVE LifecycleTypeOK'
  BY <1>10 DEF WorkerStep, Look, NoLook, EndWait, EndCall, WorkerTo
<1>11. CASE UNCHANGED lifecycleVars
  BY <1>11 DEF lifecycleVars
<1> QED
  BY <1>1, <1>2, <1>3, <1>4, <1>5, <1>6, <1>7, <1>8, <1>9, <1>10, <1>11 DEF LifecycleNext, Main

\* The stages of main(), its resources and flags, and the places of the threads
\* keep their types for any set of INVITE workers.
THEOREM TypeCorrect == LifecycleSpec => []LifecycleTypeOK
BY InitType, NextType, PTL DEF LifecycleSpec

---------------------------------------------------------------------------
(* What is held follows from where main() is: each stage says what it needs *)
(* and what is gone for good.                                               *)

Built == {"mutex", "cond", "mtx_sessions", "osip"}

HeldBy ==
    /\ stage = "init" => held = {}
    /\ stage \in {"sessions", "undo"} => held = {"mutex", "cond"}
    /\ stage = "osip" => held = {"mutex", "cond", "mtx_sessions"}
    /\ stage \in {"parse", "connect", "daemonize", "start", "run", "poll", "work", "stop", "close",
                  "join", "free"} => Built \subseteq held
    /\ stage \in {"join", "free"} => held \cap DiscoverySockets = {}
    /\ stage = "release" =>
          /\ {"mtx_sessions", "osip"} \subseteq held
          /\ held \cap (DiscoverySockets \cup {"mutex", "cond"}) = {}
    /\ stage = "config" => held \subseteq {"desc", "spec_sockfd"}
    /\ stage = "exited" => held \subseteq {"spec_sockfd"}

HeldInv == LifecycleTypeOK /\ ~ misused /\ HeldBy

LEMMA InitHeld == LifecycleInit => HeldInv
BY InitType DEF LifecycleInit, HeldInv, HeldBy

LEMMA NextHeld == HeldInv /\ [LifecycleNext]_lifecycleVars => HeldInv'
<1> SUFFICES ASSUME HeldInv, [LifecycleNext]_lifecycleVars PROVE (~ misused /\ HeldBy)'
  BY NextType DEF HeldInv
<1> USE DEF HeldInv, HeldBy, Built, From, Keep, Take, Release
<1>1. CASE InitDiscovery \/ InitSessions \/ InitOsip \/ Undo
  <2>1. CASE InitDiscovery
    BY <2>1 DEF InitDiscovery
  <2>2. CASE InitSessions
    BY <2>2 DEF InitSessions
  <2>3. CASE InitOsip
    <3>1. {"mutex", "cond", "mtx_sessions"} \ {"mtx_sessions"} = {"mutex", "cond"}
      OBVIOUS
    <3>2. ~ misused'
      BY <2>3 DEF InitOsip
    <3>3. HeldBy'
      BY <2>3, <3>1 DEF InitOsip
    <3> QED
      BY <3>2, <3>3
  <2>4. CASE Undo
    BY <2>4 DEF Undo
  <2> QED
    BY <1>1, <2>1, <2>2, <2>3, <2>4
<1>2. CASE Parse \/ Open \/ Opened \/ Daemonize
  BY <1>2 DEF Parse, Open, Opened, Daemonize
<1>3. CASE DiscoveryStart \/ Run \/ PollContinue \/ Packets \/ WorkerJoined \/ Interrupt
  BY <1>3 DEF DiscoveryStart, Run, PollContinue, Packets, WorkerJoined, Interrupt
<1>4. ASSUME NEW w \in InviteWorkers, StartWorker(w) \/ JoinWorker(w)
      PROVE  (~ misused /\ HeldBy)'
  BY <1>4 DEF StartWorker, JoinWorker
<1>5. CASE StopBoth
  BY <1>5 DEF StopBoth
<1>6. CASE CloseDiscovery
  BY <1>6 DEF CloseDiscovery, DiscoverySockets
<1>7. CASE JoinDiscovery
  BY <1>7 DEF JoinDiscovery
<1>8. CASE FreeDiscovery
  BY <1>8 DEF FreeDiscovery, DiscoverySockets
<1>9. CASE ReleaseBridge
  BY <1>9 DEF ReleaseBridge, DiscoverySockets, LifecycleTypeOK, Resources, Sockets
<1>10. CASE Exit
  BY <1>10 DEF Exit
<1>11. CASE DaemonStep
  BY <1>11 DEF DaemonStep, DaemonContinue, DaemonPoll, DaemonHandle
<1>12. ASSUME NEW w \in InviteWorkers, WorkerStep(w) PROVE (~ misused /\ HeldBy)'
  BY <1>12 DEF WorkerStep, Look, NoLook, EndWait, EndCall, WorkerTo
<1>13. CASE UNCHANGED lifecycleVars
  BY <1>13 DEF lifecycleVars
<1> QED
  BY <1>1, <1>2, <1>3, <1>4, <1>5, <1>6, <1>7, <1>8, <1>9, <1>10, <1>11, <1>12, <1>13
     DEF LifecycleNext, Main

\* Whatever fails on the way, main() gives back what it holds and nothing else,
\* but for the socket of a given address.
THEOREM NothingLeftBehind == LifecycleSpec => []AllReleasedOnce
<1>1. HeldInv => AllReleasedOnce
  BY DEF HeldInv, HeldBy, AllReleasedOnce
<1> QED
  BY <1>1, InitHeld, NextHeld, PTL DEF LifecycleSpec

---------------------------------------------------------------------------
(* The daemon was started with sockets, and is told to stop before they are *)
(* closed.                                                                  *)

Closed == {"join", "free", "release", "config", "exited"}
Serving == held \cap DiscoverySockets # {}

DaemonInv ==
    /\ LifecycleTypeOK
    /\ stage = "connect" => Serving \/ (todo # <<>> /\ Head(todo) \in DiscoverySockets)
    /\ stage \in {"daemonize", "start", "run", "poll", "work"} => Serving
    /\ daemon # "none" =>
          (stage \in {"run", "poll", "work", "stop", "close"} /\ Serving) \/ stage \in Closed
    /\ dstate = 1 => stage \in {"run", "poll", "work", "stop"}
    /\ rounds # 0 => rounds = 1 /\ stage \in Closed /\ daemon \in {"check", "ended"}

LEMMA InitDaemon == LifecycleInit => DaemonInv
BY InitType DEF LifecycleInit, DaemonInv

LEMMA NextDaemon == DaemonInv /\ [LifecycleNext]_lifecycleVars => DaemonInv'
<1> SUFFICES ASSUME DaemonInv, [LifecycleNext]_lifecycleVars PROVE DaemonInv'
  OBVIOUS
<1>t. LifecycleTypeOK'
  BY NextType DEF DaemonInv
<1> USE <1>t DEF DaemonInv, Closed, Serving, From, Keep, Take, Release, others
<1>1. CASE InitDiscovery \/ InitSessions \/ InitOsip \/ Undo
  BY <1>1 DEF InitDiscovery, InitSessions, InitOsip, Undo
<1>2. CASE Parse
  BY <1>2, PlansAreSockets DEF Parse
<1>3. CASE Open
  BY <1>3 DEF Open
<1>4. CASE Opened \/ Daemonize
  BY <1>4 DEF Opened, Daemonize
<1>5. CASE DiscoveryStart
  BY <1>5 DEF DiscoveryStart
<1>6. CASE Run \/ PollContinue \/ Packets \/ WorkerJoined \/ Interrupt
  BY <1>6 DEF Run, PollContinue, Packets, WorkerJoined, Interrupt
<1>7. ASSUME NEW w \in InviteWorkers, StartWorker(w) \/ JoinWorker(w) PROVE DaemonInv'
  BY <1>7 DEF StartWorker, JoinWorker
<1>8. CASE StopBoth
  BY <1>8 DEF StopBoth, Stopped
<1>9. CASE CloseDiscovery \/ JoinDiscovery \/ FreeDiscovery \/ ReleaseBridge \/ Exit
  BY <1>9 DEF CloseDiscovery, JoinDiscovery, FreeDiscovery, ReleaseBridge, Exit
<1>10. CASE DaemonContinue
  BY <1>10 DEF DaemonContinue, DaemonTo
<1>11. CASE DaemonPoll
  BY <1>11 DEF DaemonPoll, DaemonTo
<1>12. CASE DaemonHandle
  <2>1. rounds = 0
    BY <1>12 DEF DaemonHandle, DaemonTo
  <2> QED
    BY <1>12, <2>1 DEF DaemonHandle, DaemonTo
<1>13. ASSUME NEW w \in InviteWorkers, WorkerStep(w) PROVE DaemonInv'
  BY <1>13 DEF WorkerStep, Look, NoLook, EndWait, EndCall, WorkerTo
<1>14. CASE UNCHANGED lifecycleVars
  BY <1>14 DEF lifecycleVars
<1> QED
  BY <1>1, <1>2, <1>3, <1>4, <1>5, <1>6, <1>7, <1>8, <1>9, <1>10, <1>11, <1>12, <1>13, <1>14
     DEF LifecycleNext, Main, DaemonStep

\* The daemon reads from its closed sockets in one round at most, although the
\* join of LeelenDiscovery_destroy does not see a flag that is stopping.
THEOREM OneRoundAtMost == LifecycleSpec => []LastRound
<1>1. DaemonInv => LastRound
  BY DEF DaemonInv, LastRound
<1> QED
  BY <1>1, InitDaemon, NextDaemon, PTL DEF LifecycleSpec

---------------------------------------------------------------------------
(* The program beside a flag and a forwarder that do not touch it. *)

\* A program that has ended, or never moves, is one whose types are kept too.
LEMMA GoneType == Gone => LifecycleTypeOK
<1> SUFFICES ASSUME Gone PROVE LifecycleTypeOK
  OBVIOUS
<1>1. todo \in Seq(Sockets)
  BY EmptySeq DEF Gone
<1>2. worker \in [InviteWorkers -> {"none", "look", "wait", "call", "ended"}]
  BY DEF Gone
<1> QED
  BY <1>1, <1>2 DEF Gone, LifecycleTypeOK, Ending

\* Whichever of the three moves, the program and the forwarder keep their types.
THEOREM ThreadsKeepTypes == MCSpec => []TypesOK
<1>1. MCInit => TypesOK
  BY InitType, GoneType, ForwarderInitType DEF MCInit, TypesOK
<1>2. TypesOK /\ [MCNext]_<<part, vars, lifecycleVars, forwarderVars>> => TypesOK'
  <2>1. [MCNext]_<<part, vars, lifecycleVars, forwarderVars>>
          => [LifecycleNext]_lifecycleVars /\ [ForwarderNext]_forwarderVars
    BY DEF MCNext
  <2> QED
    BY <2>1, NextType, ForwarderNextType DEF TypesOK
<1> QED
  BY <1>1, <1>2, PTL DEF MCSpec
===========================================================================
