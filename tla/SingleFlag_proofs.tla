------------------------- MODULE SingleFlag_proofs -------------------------
(***************************************************************************)
(* Theorems of SingleFlag, for every number of threads.                    *)
(***************************************************************************)
EXTENDS SingleFlag, TLAPS

\* The flag is up exactly while there is one owner.
OneOwner == \A t, u \in Owners : t = u

Inv ==
    /\ TypeOK
    /\ OneOwner
    /\ FlagHasOwner
    /\ flag = STOPPED => Owners = {}

\* A step that moves no thread in or out of Owners, and does not raise or
\* lower the flag, keeps the invariant.
LEMMA QuietStep ==
    ASSUME Inv, TypeOK', Owners' = Owners, flag' = STOPPED <=> flag = STOPPED
    PROVE  Inv'
BY DEF Inv, OneOwner, FlagHasOwner

\* The step of a thread that is no owner before or after it.
LEMMA BystanderStep ==
    ASSUME Inv, NEW t \in Threads, t \notin Owners,
           NEW place \in {"idle", "acquire", "test", "spin", "join", "joining"},
           t \in Callers, Goto(t, place), TypeOK', flag' = flag
    PROVE  Inv'
<1>1. \A u \in Threads : pc'[u] = IF u = t THEN place ELSE pc[u]
  BY DEF Goto, Inv, TypeOK
<1>2. pc[t] \notin InDaemon \cup {"create"}
  BY DEF Owners, Daemons
<1>3. Owners' = Owners
  <2>1. \A u \in Threads : u \in Daemons' <=> u \in Daemons
    BY <1>1, <1>2 DEF Daemons, InDaemon
  <2>2. \A c \in Callers : pc'[c] = "create" <=> pc[c] = "create"
    BY <1>1, <1>2 DEF Threads
  <2>3. Daemons' = Daemons
    BY <2>1 DEF Daemons
  <2> QED
    BY <2>2, <2>3 DEF Owners
<1> QED
  BY <1>3, QuietStep

\* The owner lets the flag down and is no owner any more.
LEMMA ReleaseStep ==
    ASSUME Inv, NEW t \in Owners, Goto(t, "idle"), flag' = STOPPED, TypeOK'
    PROVE  Inv'
<1>1. t \in Threads
  BY DEF Owners, Daemons, Threads
<1>2. \A u \in Threads : pc'[u] = IF u = t THEN "idle" ELSE pc[u]
  BY <1>1 DEF Goto, Inv, TypeOK
<1>3. Owners' \subseteq Owners \ {t}
  BY <1>1, <1>2 DEF Owners, Daemons, InDaemon, Threads
<1>4. Owners' = {}
  BY <1>3 DEF Inv, OneOwner
<1> QED
  BY <1>4 DEF Inv, OneOwner, FlagHasOwner

\* The one owner hands over, or stays one in another place.
LEMMA HandoverStep ==
    ASSUME Inv, NEW t \in Owners, NEW u \in Owners', Owners' \subseteq (Owners \ {t}) \cup {u},
           flag' = flag, TypeOK'
    PROVE  Inv'
<1>1. Owners \ {t} = {}
  BY DEF Inv, OneOwner
<1>2. Owners' = {u} /\ flag # STOPPED
  BY <1>1 DEF Inv
<1> QED
  BY <1>2 DEF Inv, OneOwner, FlagHasOwner

LEMMA InitInv == Init => Inv
BY SingleAssumption
   DEF SingleAssumption, Init, Inv, TypeOK, OneOwner, FlagHasOwner, Owners, Daemons,
       InDaemon, Threads, STOPPED, STOPPING, RUNNING

LEMMA NextType == TypeOK /\ [Next]_vars => TypeOK'
<1> SUFFICES ASSUME TypeOK, [Next]_vars PROVE TypeOK'
  OBVIOUS
<1> USE SingleAssumption DEF SingleAssumption, TypeOK, Threads, STOPPED, STOPPING, RUNNING,
        Acquiring, Joining, InDaemon, Goto, At
<1>1. ASSUME NEW c \in Callers, Call(c) PROVE TypeOK'
  BY <1>1 DEF Call
<1>2. ASSUME NEW c \in Callers, Acquire(c) PROVE TypeOK'
  BY <1>2 DEF Acquire, Exchange, ExchangeFails, Test, Spun
<1>3. ASSUME NEW c \in Callers, Create(c) PROVE TypeOK'
  BY <1>3 DEF Create
<1>4. ASSUME NEW c \in Callers, CreateFails(c) PROVE TypeOK'
  BY <1>4 DEF CreateFails
<1>5. ASSUME NEW c \in Callers, JoinCall(c) \/ single_join(c) \/ Joined(c) PROVE TypeOK'
  BY <1>5 DEF JoinCall, single_join, Joined
<1>6. CASE single_stop
  BY <1>6 DEF single_stop
<1>7. ASSUME NEW t \in Threads, Daemon(t) PROVE TypeOK'
  BY <1>7 DEF Daemon, Check, Body, Finish
<1>8. CASE UNCHANGED vars
  BY <1>8 DEF vars
<1> QED
  BY <1>1, <1>2, <1>3, <1>4, <1>5, <1>6, <1>7, <1>8 DEF Next

LEMMA NextInv == Inv /\ [Next]_vars => Inv'
<1> SUFFICES ASSUME Inv, [Next]_vars PROVE Inv'
  OBVIOUS
<1>0. TypeOK'
  BY NextType DEF Inv
<1>p. \A t \in Threads : \A place : Goto(t, place) =>
         \A u \in Threads : pc'[u] = IF u = t THEN place ELSE pc[u]
  BY DEF Goto, Inv, TypeOK
<1>1. ASSUME NEW c \in Callers, Call(c) PROVE Inv'
  BY <1>0, <1>1, SingleAssumption, BystanderStep
     DEF SingleAssumption, Call, At, Owners, Daemons, InDaemon, Threads
<1>2. ASSUME NEW c \in Callers, Exchange(c) PROVE Inv'
  <2>1. Owners = {} /\ c \in Threads
    BY <1>2 DEF Exchange, Inv, Threads
  <2>2. \A u \in Threads \ {c} : pc'[u] = pc[u]
    BY <1>2, <1>p, <2>1 DEF Exchange
  <2>3. c \in Owners'
    BY <1>2, <1>p, <2>1 DEF Exchange, Owners, Daemons, InDaemon
  <2>4. Owners' \subseteq {c}
    BY <2>1, <2>2 DEF Owners, Daemons, Threads
  <2>5. flag' # STOPPED
    BY <1>2 DEF Exchange, RUNNING, STOPPED
  <2> QED
    BY <1>0, <2>3, <2>4, <2>5 DEF Inv, OneOwner, FlagHasOwner
<1>3. ASSUME NEW c \in Callers, ExchangeFails(c) \/ Test(c) \/ Spun(c) PROVE Inv'
  BY <1>0, <1>3, BystanderStep
     DEF ExchangeFails, Test, Spun, At, Owners, Daemons, InDaemon, Threads
<1>4. ASSUME NEW c \in Callers, Create(c) PROVE Inv'
  <2>1. PICK w \in Workers : /\ At(w, "idle")
                             /\ pc' = [pc EXCEPT ![c] = "idle", ![w] = "check"]
    BY <1>4 DEF Create
  <2>2. c \in Owners /\ c \in Threads /\ w \in Threads /\ w # c
    BY <1>4, SingleAssumption DEF SingleAssumption, Create, At, Owners, Threads
  <2>3. \A u \in Threads : pc'[u] = IF u = w THEN "check" ELSE IF u = c THEN "idle" ELSE pc[u]
    BY <2>1, <2>2 DEF Inv, TypeOK
  <2>4. w \in Owners'
    BY <2>2, <2>3 DEF Owners, Daemons, InDaemon
  <2>5. Owners' \subseteq (Owners \ {c}) \cup {w}
    BY <2>2, <2>3 DEF Owners, Daemons, InDaemon, Threads
  <2> QED
    BY <1>0, <1>4, <2>2, <2>4, <2>5, HandoverStep DEF Create
<1>5. ASSUME NEW c \in Callers, CreateFails(c) PROVE Inv'
  BY <1>0, <1>5, ReleaseStep DEF CreateFails, At, Owners
<1>6. ASSUME NEW c \in Callers, JoinCall(c) \/ single_join(c) \/ Joined(c) PROVE Inv'
  BY <1>0, <1>6, BystanderStep
     DEF JoinCall, single_join, Joined, At, Owners, Daemons, InDaemon, Threads
<1>7. CASE single_stop
  <2>1. Owners' = Owners
    BY <1>7 DEF single_stop, Owners, Daemons
  <2> QED
    BY <1>0, <1>7, <2>1, QuietStep DEF single_stop, STOPPING, STOPPED, RUNNING
<1>8. ASSUME NEW t \in Threads, Check(t) \/ Body(t) PROVE Inv'
  <2>1. PICK place \in InDaemon : Goto(t, place)
    BY <1>8 DEF Check, Body, InDaemon
  <2>2. t \in Owners /\ t \in Owners' /\ flag' = flag
    BY <1>8, <1>p, <2>1 DEF Check, Body, At, Owners, Daemons, InDaemon
  <2>3. Owners' \subseteq (Owners \ {t}) \cup {t}
    BY <1>p, <2>1, <2>2 DEF Owners, Daemons, InDaemon, Threads
  <2> QED
    BY <1>0, <2>2, <2>3, HandoverStep
<1>9. ASSUME NEW t \in Threads, Finish(t) PROVE Inv'
  BY <1>0, <1>9, ReleaseStep DEF Finish, At, Owners, Daemons, InDaemon
<1>10. CASE UNCHANGED vars
  BY <1>0, <1>10, QuietStep DEF vars, Owners, Daemons
<1> QED
  BY <1>1, <1>2, <1>3, <1>4, <1>5, <1>6, <1>7, <1>8, <1>9, <1>10
     DEF Next, Acquire, Daemon

LEMMA Invariance == Spec => []Inv
BY InitInv, NextInv, PTL DEF Spec

\* The flag and the threads always have the values SingleFlag declares.
THEOREM TypeCorrect == Spec => []TypeOK
<1>1. Inv => TypeOK
  BY DEF Inv
<1> QED
  BY <1>1, Invariance, PTL

\* The promise of single_start: one daemon at a time, for any number of
\* threads that start, stop and join it.
THEOREM MutualExclusion == Spec => []AtMostOneDaemon
<1>1. Inv => AtMostOneDaemon
  BY DEF Inv, OneOwner, AtMostOneDaemon, Owners
<1> QED
  BY <1>1, Invariance, PTL

\* Nobody spins on a flag that no thread will ever take down.
THEOREM NeverOrphaned == Spec => []FlagHasOwner
<1>1. Inv => FlagHasOwner
  BY DEF Inv
<1> QED
  BY <1>1, Invariance, PTL

\* A join that waits outlives the daemon.
THEOREM JoinOutlivesDaemon == Spec => JoinWaits
<1>1. Inv /\ [Next]_vars =>
         [\A c \in Callers : At(c, "joining") /\ At(c, "idle")' => Daemons = {}]_vars
  <2> SUFFICES ASSUME Inv, Next, NEW c \in Callers, At(c, "joining"), At(c, "idle")'
               PROVE  Daemons = {}
    OBVIOUS
  <2>1. c \in Threads /\ pc[c] = "joining" /\ pc'[c] = "idle"
    BY DEF At, Threads
  <2>2. Joined(c)
    <3> USE DEF At
    <3>1. \A t \in Threads : \A place : Goto(t, place) => t = c
      BY <2>1 DEF Goto, Inv, TypeOK
    <3>2. ASSUME NEW b \in Callers, Call(b) \/ Acquire(b) \/ CreateFails(b)
          PROVE  FALSE
      <4>1. b = c
        BY <3>1, <3>2 DEF Call, Acquire, Exchange, ExchangeFails, Test, Spun, CreateFails, Threads
      <4> QED
        BY <2>1, <3>2, <4>1
           DEF Call, Acquire, Exchange, ExchangeFails, Test, Spun, CreateFails
    <3>3. ASSUME NEW b \in Callers, Create(b) PROVE FALSE
      BY <2>1, <3>3, SingleAssumption DEF SingleAssumption, Create, Inv, TypeOK, Threads
    <3>4. ASSUME NEW b \in Callers, JoinCall(b) \/ single_join(b) \/ Joined(b)
          PROVE  Joined(c)
      <4>1. b = c
        BY <3>1, <3>4 DEF JoinCall, single_join, Joined, Threads
      <4> QED
        BY <2>1, <3>4, <4>1 DEF JoinCall, single_join
    <3>5. ASSUME NEW t \in Threads, Daemon(t) PROVE FALSE
      <4>1. t = c
        BY <3>1, <3>5 DEF Daemon, Check, Body, Finish
      <4> QED
        BY <2>1, <3>5, <4>1 DEF Daemon, Check, Body, Finish
    <3>6. ~ single_stop
      BY <2>1 DEF single_stop
    <3> QED
      BY <3>2, <3>3, <3>4, <3>5, <3>6 DEF Next
  <2>3. flag = STOPPED
    BY <2>2 DEF Joined, single_still_running, STOPPED
  <2> QED
    BY <2>3 DEF Inv, Owners
<1> QED
  BY <1>1, Invariance, PTL DEF Spec, JoinWaits
===========================================================================
