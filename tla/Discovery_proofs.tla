------------------------- MODULE Discovery_proofs -------------------------
(***************************************************************************)
(* Theorems of Discovery, for every number of workers and calls, with one  *)
(* socket or two.                                                          *)
(***************************************************************************)
EXTENDS Discovery, TLAPS

Codes == {0, Timeout} \cup BadReports

LEMMA InitType == Init => TypeOK
BY DiscoveryAssumption
   DEF DiscoveryAssumption, Init, TypeOK, DaemonStates, Devices, Results, Timeout

LEMMA NextType == TypeOK /\ [Next]_vars => TypeOK'
<1> SUFFICES ASSUME TypeOK, [Next]_vars PROVE TypeOK'
  OBVIOUS
<1> USE DiscoveryAssumption
        DEF DiscoveryAssumption, TypeOK, DaemonStates, Devices, Results, Goto, Return
<1>1. ASSUME NEW w \in Workers, Enter(w) PROVE TypeOK'
  BY <1>1 DEF Enter
<1>2. ASSUME NEW w \in Workers, Solicit(w) PROVE TypeOK'
  BY <1>2 DEF Solicit
<1>3. ASSUME NEW w \in Workers, Wake(w) \/ Answer(w) PROVE TypeOK'
  BY <1>3 DEF Wake, Answer
<1>4. ASSUME NEW w \in Workers, Fetch(w) PROVE TypeOK'
  BY <1>4 DEF Fetch
<1>5. ASSUME NEW d \in Workers, Take(d) PROVE TypeOK'
  BY <1>5 DEF Take
<1>6. CASE Accept
  <2>1. pc' \in [Workers -> {"idle", "ready", "waiting", "woken"}]
    BY <1>6 DEF Accept, Signal
  <2>2. initres' \in {0, Timeout} \cup BadReports /\ host' \in Devices
    BY <1>6 DEF Accept
  <2>3. fresh' \subseteq Workers /\ daemon' \in DaemonStates
    BY <1>6 DEF Accept, InCall
  <2> QED
    BY <1>6, <2>1, <2>2, <2>3 DEF Accept
<1>7. CASE ReadUnset \/ End
  BY <1>7 DEF ReadUnset, End
<1>8. CASE Stop
  <2>1. pc' \in [Workers -> {"idle", "ready", "waiting", "woken"}]
    BY <1>8 DEF Stop
  <2> QED
    BY <1>8, <2>1 DEF Stop
<1>9. CASE UNCHANGED vars
  BY <1>9 DEF vars
<1> QED
  BY <1>1, <1>2, <1>3, <1>4, <1>5, <1>6, <1>7, <1>8, <1>9 DEF Next, Call, Daemon

\* The fields that the workers and the daemon share keep their types, whatever
\* the order of the sections under the mutex.
THEOREM TypeCorrect == Spec => []TypeOK
BY InitType, NextType, PTL DEF Spec

---------------------------------------------------------------------------
(* Where a call is changes in one section only. *)

Past(w) == pc[w] \in {"waiting", "woken"}

\* The actions, by what they do to a call that is under way.
LEMMA Moves ==
    ASSUME TypeOK, [Next]_vars
    PROVE  \A w \in Workers :
              /\ pc[w] = "woken" /\ pc'[w] = "idle" => Fetch(w)
              /\ Past(w)' => Past(w) \/ Solicit(w)
<1> USE DEF TypeOK, Goto, Return, Past
<1>1. ASSUME NEW u \in Workers, Enter(u) \/ Solicit(u) \/ Wake(u) \/ Fetch(u),
             NEW w \in Workers, u # w
      PROVE  pc'[w] = pc[w]
  BY <1>1 DEF Enter, Solicit, Wake, Fetch
<1>2. ASSUME NEW w \in Workers, Enter(w)
      PROVE  pc[w] = "idle" /\ pc'[w] \in {"idle", "ready"}
  BY <1>2 DEF Enter
<1>3. ASSUME NEW w \in Workers, Solicit(w)
      PROVE  pc[w] = "ready"
  BY <1>3 DEF Solicit
<1>4. ASSUME NEW w \in Workers, Wake(w)
      PROVE  pc[w] = "waiting" /\ pc'[w] = "woken"
  BY <1>4 DEF Wake
<1>5. ASSUME NEW w \in Workers, Fetch(w)
      PROVE  pc[w] = "woken" /\ pc'[w] = "idle"
  BY <1>5 DEF Fetch
<1>6. ASSUME \/ (\E d \in Workers : Answer(d) \/ Take(d))
             \/ Accept \/ ReadUnset \/ End \/ Stop \/ UNCHANGED vars,
             NEW w \in Workers
      PROVE  pc'[w] = pc[w] \/ (pc[w] = "waiting" /\ pc'[w] = "woken")
  <2>1. CASE Accept
    BY <2>1 DEF Accept, Signal
  <2>2. CASE Stop
    BY <2>2 DEF Stop
  <2>3. CASE \/ (\E d \in Workers : Answer(d) \/ Take(d)) \/ ReadUnset \/ End \/ UNCHANGED vars
    BY <2>3 DEF Answer, Take, ReadUnset, End, vars
  <2> QED
    BY <1>6, <2>1, <2>2, <2>3
<1> QED
  <2> SUFFICES ASSUME NEW w \in Workers
               PROVE  /\ pc[w] = "woken" /\ pc'[w] = "idle" => Fetch(w)
                      /\ pc'[w] \in {"waiting", "woken"} =>
                            pc[w] \in {"waiting", "woken"} \/ Solicit(w)
    OBVIOUS
  <2>1. CASE \E u \in Workers : Enter(u) \/ Solicit(u) \/ Wake(u) \/ Fetch(u)
    <3>1. PICK u \in Workers : Enter(u) \/ Solicit(u) \/ Wake(u) \/ Fetch(u)
      BY <2>1
    <3>2. CASE u # w
      BY <1>1, <3>1, <3>2
    <3>3. CASE u = w
      BY <1>2, <1>3, <1>4, <1>5, <3>1, <3>3
    <3> QED
      BY <3>2, <3>3
  <2>2. CASE \/ (\E d \in Workers : Answer(d) \/ Take(d))
             \/ Accept \/ ReadUnset \/ End \/ Stop \/ UNCHANGED vars
    BY <1>6, <2>2
  <2> QED
    BY <2>1, <2>2 DEF Next, Call, Daemon

---------------------------------------------------------------------------
(* A result that stands was written after every call that is past its reset *)
(* of initres had begun to wait.                                            *)

FreshInv ==
    /\ TypeOK
    /\ \A w \in Workers : Past(w) /\ initres # Timeout => w \in fresh

LEMMA InitFresh == Init => FreshInv
BY InitType DEF Init, FreshInv, Past

\* What may change initres or take a worker out of fresh.
LEMMA Writes ==
    ASSUME [Next]_vars
    PROVE  \/ UNCHANGED <<initres, fresh, host>>
           \/ \E w \in Workers : Solicit(w)
           \/ Accept /\ Open
BY DEF Next, Call, Daemon, Enter, Solicit, Wake, Fetch, Answer, Take, Accept, ReadUnset, End, Stop,
       vars

LEMMA NextFresh == FreshInv /\ [Next]_vars => FreshInv'
<1> SUFFICES ASSUME FreshInv, [Next]_vars PROVE FreshInv'
  OBVIOUS
<1>t. TypeOK /\ TypeOK'
  BY NextType DEF FreshInv
<1>1. CASE \E w \in Workers : Solicit(w)
  <2>1. initres' = Timeout
    BY <1>1 DEF Solicit
  <2> QED
    BY <1>t, <2>1 DEF FreshInv
<1>2. CASE Accept /\ Open
  <2>1. fresh' = {w \in Workers : pc[w] # "idle"}
    BY <1>2 DEF Accept, InCall
  <2>2. \A w \in Workers : Past(w)' => pc[w] # "idle"
    BY <1>t, Moves DEF Past, Solicit
  <2> QED
    BY <1>t, <2>1, <2>2 DEF FreshInv
<1>3. CASE UNCHANGED <<initres, fresh>> /\ ~ \E w \in Workers : Solicit(w)
  BY <1>t, <1>3, Moves DEF FreshInv
<1> QED
  BY <1>1, <1>2, <1>3, Writes

\* What NeverStale says of a step.
FetchesFresh ==
    \A w \in Workers : pc[w] = "woken" /\ pc'[w] = "idle" /\ res'[w] = 0 => w \in fresh

LEMMA StepFresh == FreshInv /\ [Next]_vars => FetchesFresh
<1> SUFFICES ASSUME FreshInv, [Next]_vars, NEW w \in Workers,
                    pc[w] = "woken", pc'[w] = "idle", res'[w] = 0
             PROVE  w \in fresh
  BY DEF FetchesFresh
<1>1. Fetch(w)
  BY Moves DEF FreshInv
<1>2. initres = 0
  BY <1>1 DEF Fetch, Return, FreshInv, TypeOK
<1> QED
  BY <1>2 DEF FreshInv, Past, Timeout

\* No call succeeds with a host that was written before it began, however many
\* calls share the fields.
THEOREM NoStaleHost == Spec => NeverStale
<1>1. FreshInv /\ [Next]_vars => [FetchesFresh]_vars
  BY StepFresh
<1>2. Spec => [][FetchesFresh]_vars
  BY <1>1, InitFresh, NextFresh, PTL DEF Spec
<1> QED
  BY <1>2 DEF NeverStale, FetchesFresh

---------------------------------------------------------------------------
(* A caller that is alone is the only one that resets initres.              *)

AloneInv ==
    /\ TypeOK
    /\ \A w \in alone, u \in Workers : pc[w] # "idle" /\ pc[u] # "idle" => u = w
    /\ \A w \in alone : Past(w) /\ w \in fresh => initres # Timeout

LEMMA InitAlone == Init => AloneInv
BY InitType DEF Init, AloneInv, Past

\* A call begins: if another one is under way, nobody is alone any more.
LEMMA EnterAlone ==
    ASSUME AloneInv, NEW c \in Workers, Enter(c), TypeOK'
    PROVE  AloneInv'
<1> USE DEF TypeOK, Goto, Return, Past
<1>1. pc[c] = "idle" /\ UNCHANGED <<initres, fresh>>
  BY DEF Enter
<1>2. CASE state
  <2>1. /\ alone' = IF InCall = {} THEN {c} ELSE {}
        /\ \A u \in Workers : pc'[u] = IF u = c THEN "ready" ELSE pc[u]
    BY <1>2 DEF Enter, AloneInv
  <2>2. ASSUME NEW w \in alone', NEW u \in Workers, pc'[w] # "idle", pc'[u] # "idle"
        PROVE  u = w
    <3>1. w = c /\ \A v \in Workers : pc[v] = "idle"
      BY <2>1, <2>2 DEF InCall
    <3> QED
      BY <2>1, <2>2, <3>1
  <2>3. \A w \in alone' : ~ Past(w)'
    BY <2>1
  <2> QED
    BY <2>2, <2>3 DEF AloneInv
<1>3. CASE ~ state
  <2>1. alone' = alone /\ \A u \in Workers : pc'[u] = pc[u]
    BY <1>1, <1>3 DEF Enter, AloneInv
  <2> QED
    BY <1>1, <2>1 DEF AloneInv
<1> QED
  BY <1>2, <1>3

LEMMA NextAlone == AloneInv /\ [Next]_vars => AloneInv'
<1> SUFFICES ASSUME AloneInv, [Next]_vars PROVE AloneInv'
  OBVIOUS
<1>t. TypeOK /\ TypeOK'
  BY NextType DEF AloneInv
<1>1. ASSUME NEW c \in Workers, Enter(c) PROVE AloneInv'
  BY <1>1, <1>t, EnterAlone
<1>2. CASE ~ \E c \in Workers : Enter(c)
  <2>1. alone' = alone
    BY <1>2 DEF Next, Call, Daemon, Solicit, Wake, Fetch, Answer, Take, Accept, ReadUnset, End, Stop,
                vars
  <2>2. \A u \in Workers : pc'[u] # "idle" => pc[u] # "idle"
    <3>1. CASE Accept
      BY <1>t, <3>1 DEF Accept, Signal, Goto, TypeOK
    <3>2. CASE Stop
      BY <1>t, <3>2 DEF Stop, TypeOK
    <3>3. ASSUME NEW c \in Workers, Call(c) PROVE \A u \in Workers : pc'[u] # "idle" => pc[u] # "idle"
      BY <1>t, <3>3 DEF Call, Solicit, Wake, Fetch, Goto, Return, TypeOK
    <3>4. CASE \/ (\E d \in Workers : Answer(d) \/ Take(d)) \/ ReadUnset \/ End \/ UNCHANGED vars
      BY <3>4 DEF Answer, Take, ReadUnset, End, vars
    <3> QED
      BY <1>2, <3>1, <3>2, <3>3, <3>4 DEF Next, Daemon
  <2>3. alone \subseteq Workers
    BY <1>t DEF TypeOK
  <2>4. \A w \in alone', u \in Workers : pc'[w] # "idle" /\ pc'[u] # "idle" => u = w
    BY <2>1, <2>2, <2>3 DEF AloneInv
  <2>5. ASSUME NEW w \in alone, Past(w)', w \in fresh' PROVE initres' # Timeout
    <3>0. pc[w] # "idle"
      BY <2>2, <2>3, <2>5 DEF Past
    <3>1. ASSUME NEW c \in Workers, Solicit(c) PROVE FALSE
      <4>1. pc[c] = "ready" /\ fresh' = fresh \ {c}
        BY <3>1 DEF Solicit
      <4>2. c = w
        BY <3>0, <4>1 DEF AloneInv
      <4> QED
        BY <2>5, <4>1, <4>2
    <3>2. CASE Accept /\ Open
      BY <3>2 DEF Accept, BadReports, Timeout
    <3>3. CASE UNCHANGED <<initres, fresh, host>>
      <4>1. Past(w)
        BY <1>t, <2>3, <2>5, <3>1, Moves
      <4> QED
        BY <2>5, <3>3, <4>1 DEF AloneInv
    <3> QED
      BY <3>1, <3>2, <3>3, Writes
  <2> QED
    BY <1>t, <2>1, <2>4, <2>5 DEF AloneInv
<1> QED
  BY <1>1, <1>2

\* What SoleCallerIsTold says of a step.
TellsSoleCaller ==
    \A w \in Workers :
        pc[w] = "woken" /\ pc'[w] = "idle" /\ res'[w] = Timeout /\ w \in alone => w \notin fresh

LEMMA StepAlone == AloneInv /\ [Next]_vars => TellsSoleCaller
<1> SUFFICES ASSUME AloneInv, [Next]_vars, NEW w \in Workers,
                    pc[w] = "woken", pc'[w] = "idle", res'[w] = Timeout, w \in alone
             PROVE  w \notin fresh
  BY DEF TellsSoleCaller
<1>1. Fetch(w)
  BY Moves DEF AloneInv
<1>2. initres = Timeout
  BY <1>1 DEF Fetch, Return, AloneInv, TypeOK
<1> QED
  BY <1>2 DEF AloneInv, Past

\* A caller that nobody overlaps never misses an accepted answer, however the
\* signal, the end of the wait and the broadcast of the destructor race.
THEOREM SoleCallerHears == Spec => SoleCallerIsTold
<1>1. AloneInv /\ [Next]_vars => [TellsSoleCaller]_vars
  BY StepAlone
<1>2. Spec => [][TellsSoleCaller]_vars
  BY <1>1, InitAlone, NextAlone, PTL DEF Spec
<1> QED
  BY <1>2 DEF SoleCallerIsTold, TellsSoleCaller

---------------------------------------------------------------------------
(* The daemon writes when no result stands, and tests that under the mutex. *)

\* What ResultStands says of a step.
Stands == initres < 8 /\ initres' < 8 => host' = host

LEMMA StepStands == TypeOK /\ [Next]_vars => Stands
<1> SUFFICES ASSUME [Next]_vars, TypeOK, initres < 8, initres' < 8 PROVE host' = host
  BY DEF Stands
<1>1. initres \in Int
  BY DEF TypeOK, Timeout, BadReports
<1>2. ~ Open
  BY <1>1 DEF Open
<1>3. ~ \E w \in Workers : Solicit(w)
  BY DEF Solicit, Timeout
<1> QED
  BY <1>2, <1>3, Writes

\* An answer never replaces one that has not been fetched, although the first
\* test of the daemon is made without the mutex.
THEOREM FirstAnswerStands == Spec => ResultStands
<1>1. TypeOK /\ [Next]_vars => [Stands]_vars
  BY StepStands
<1>2. Spec => [][Stands]_vars
  BY <1>1, InitType, NextType, PTL DEF Spec
<1> QED
  BY <1>2 DEF ResultStands, Stands
===========================================================================
