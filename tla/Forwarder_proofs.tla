------------------------- MODULE Forwarder_proofs -------------------------
(***************************************************************************)
(* Theorems of Forwarder, for any number of starts.                        *)
(***************************************************************************)
EXTENDS Forwarder, FiniteSetTheorems, TLAPS

LEMMA ForwarderInitType == ForwarderInit => ForwarderTypeOK
BY ForwarderAssumption
   DEF ForwarderAssumption, ForwarderInit, ForwarderTypeOK, FlagValues, OwnerPlaces, HalfPlaces

LEMMA ForwarderNextType == ForwarderTypeOK /\ [ForwarderNext]_forwarderVars => ForwarderTypeOK'
<1> SUFFICES ASSUME ForwarderTypeOK, [ForwarderNext]_forwarderVars PROVE ForwarderTypeOK'
  OBVIOUS
<1> USE ForwarderAssumption DEF ForwarderAssumption, ForwarderTypeOK, FlagValues, OwnerPlaces,
        HalfPlaces, Step, OwnerTo
<1>1. CASE SetSockets \/ Start
  BY <1>1 DEF SetSockets, Start
<1>2. ASSUME NEW d \in Directions, CreateHalf(d) PROVE ForwarderTypeOK'
  BY <1>2 DEF CreateHalf
<1>3. CASE HalfFails \/ StartFails
  BY <1>3 DEF HalfFails, StartFails
<1>4. CASE Stop \/ Destroy \/ Close \/ Join
  BY <1>4 DEF Stop, Destroy, Close, Join
<1>5. ASSUME NEW h \in Halves, Half(h) PROVE ForwarderTypeOK'
  <2>1. CASE Continue(h)
    BY <2>1 DEF Continue
  <2>2. CASE FinishHalf(h)
    BY <2>2 DEF FinishHalf
  <2>3. CASE Poll(h)
    BY <2>3 DEF Poll
  <2> QED
    BY <1>5, <2>1, <2>2, <2>3 DEF Half
<1>6. CASE UNCHANGED forwarderVars
  BY <1>6 DEF forwarderVars
<1> QED
  BY <1>1, <1>2, <1>3, <1>4, <1>5, <1>6 DEF ForwarderNext, Owner

\* The flag, the place of the owner and those of the halves are always values
\* of the code, for any number of starts.
THEOREM ForwarderTypeCorrect == ForwarderSpec => []ForwarderTypeOK
BY ForwarderInitType, ForwarderNextType, PTL DEF ForwarderSpec

---------------------------------------------------------------------------
(* The flag is not raised again once the owner destroys the forwarder, so a *)
(* half that was in poll() when the sockets were closed is never there      *)
(* again.                                                                   *)

Destroying == {"close", "join", "destroyed"}

DestroyedIsDown == owner \in Destroying => fwd # 1
ClosedByOwner == sockets = "closed" => owner \in {"join", "destroyed"}
ClosedHalf(h) ==
    /\ late[h] <= 1
    /\ late[h] # 0 => sockets = "closed" /\ half[h] # "poll"

CloseInv ==
    /\ ForwarderTypeOK
    /\ DestroyedIsDown
    /\ ClosedByOwner
    /\ \A h \in Halves : ClosedHalf(h)

LEMMA InitClose == ForwarderInit => CloseInv
BY ForwarderInitType DEF ForwarderInit, CloseInv, DestroyedIsDown, ClosedByOwner, ClosedHalf, Destroying

LEMMA NextClose == CloseInv /\ [ForwarderNext]_forwarderVars => CloseInv'
<1> SUFFICES ASSUME CloseInv, [ForwarderNext]_forwarderVars PROVE CloseInv'
  OBVIOUS
<1>t. ForwarderTypeOK /\ ForwarderTypeOK'
  BY ForwarderNextType DEF CloseInv
<1> USE <1>t DEF CloseInv, DestroyedIsDown, ClosedByOwner, ClosedHalf, Destroying, OwnerTo
<1>1. CASE SetSockets
  BY <1>1 DEF SetSockets
<1>2. CASE Start
  BY <1>2 DEF Start
<1>3. ASSUME NEW d \in Directions, CreateHalf(d) PROVE CloseInv'
  <2>1. \A h \in Halves : half'[h] \in {half[h], "check"}
    BY <1>3 DEF CreateHalf, Step, ForwarderTypeOK
  <2> QED
    BY <1>3, <2>1 DEF CreateHalf
<1>4. CASE HalfFails \/ StartFails \/ Stop
  BY <1>4 DEF HalfFails, StartFails, Stop
<1>5. CASE Destroy
  BY <1>5 DEF Destroy
<1>6. CASE Close
  BY <1>6 DEF Close
<1>7. CASE Join
  BY <1>7 DEF Join
<1>8. ASSUME NEW h \in Halves, Half(h) PROVE CloseInv'
  <2>1. CASE Continue(h)
    <3>1. \A g \in Halves : half'[g] = half[g] \/ (fwd = 1 /\ half'[g] = "poll") \/ half'[g] = "finish"
      BY <2>1 DEF Continue, Step, ForwarderTypeOK
    <3> QED
      BY <2>1, <3>1 DEF Continue
  <2>2. CASE FinishHalf(h)
    <3>1. \A g \in Halves : half'[g] \in {half[g], "ended"}
      BY <2>2 DEF FinishHalf, Step, ForwarderTypeOK
    <3> QED
      BY <2>2, <3>1 DEF FinishHalf
  <2>3. CASE Poll(h)
    <3>1. \A g \in Halves \ {h} : half'[g] = half[g] /\ late'[g] = late[g]
      BY <2>3 DEF Poll, Step, ForwarderTypeOK
    <3>2. half'[h] = "check" /\ late[h] = 0
      BY <2>3 DEF Poll, Step, ForwarderTypeOK
    <3>3. late'[h] = IF sockets = "closed" THEN 1 ELSE 0
      BY <2>3, <3>2 DEF Poll, ForwarderTypeOK
    <3> QED
      BY <2>3, <3>1, <3>2, <3>3 DEF Poll
  <2> QED
    BY <1>8, <2>1, <2>2, <2>3 DEF Half
<1>9. CASE UNCHANGED forwarderVars
  BY <1>9 DEF forwarderVars
<1> QED
  BY <1>1, <1>2, <1>3, <1>4, <1>5, <1>6, <1>7, <1>8, <1>9 DEF ForwarderNext, Owner

\* Each half looks at the closed sockets once at most, whatever number of
\* halves of earlier starts there are, although Forwarder_destroy waits for
\* none of them.
THEOREM AtMostOneLateReceive == ForwarderSpec => []LastReceive
<1>1. CloseInv => LastReceive
  BY DEF CloseInv, ClosedHalf, LastReceive
<1> QED
  BY <1>1, InitClose, NextClose, PTL DEF ForwarderSpec

---------------------------------------------------------------------------
(* A half that is about to lower a raised flag saw it lowered before, which *)
(* was in an earlier start: nothing but a start raises the flag.            *)

StartInv ==
    /\ ForwarderTypeOK
    /\ \A h \in Halves : half[h] # "none" => h[1] <= starts
    /\ \A h \in Halves : fwd = 1 /\ half[h] = "finish" => h[1] < starts

LEMMA HalvesAreCounted == \A h \in Halves : h[1] \in Nat
BY ForwarderAssumption DEF ForwarderAssumption, Halves

LEMMA InitStart == ForwarderInit => StartInv
BY ForwarderInitType DEF ForwarderInit, StartInv

LEMMA NextStart == StartInv /\ [ForwarderNext]_forwarderVars => StartInv'
<1> SUFFICES ASSUME StartInv, [ForwarderNext]_forwarderVars PROVE StartInv'
  OBVIOUS
<1>t. ForwarderTypeOK /\ ForwarderTypeOK'
  BY ForwarderNextType DEF StartInv
<1>n. starts \in Nat /\ starts' \in Nat
  BY <1>t, ForwarderAssumption DEF ForwarderTypeOK, ForwarderAssumption
<1> USE <1>t, <1>n, HalvesAreCounted DEF StartInv
<1>1. CASE SetSockets \/ HalfFails \/ StartFails \/ Stop \/ Destroy \/ Close \/ Join
  BY <1>1 DEF SetSockets, HalfFails, StartFails, Stop, Destroy, Close, Join
<1>2. CASE Start
  BY <1>2 DEF Start
<1>3. ASSUME NEW d \in Directions, CreateHalf(d) PROVE StartInv'
  <2>1. \A h \in Halves : half'[h] = IF h = <<starts, d>> THEN "check" ELSE half[h]
    BY <1>3 DEF CreateHalf, Step, ForwarderTypeOK
  <2> QED
    BY <1>3, <2>1 DEF CreateHalf
<1>4. ASSUME NEW h \in Halves, Half(h) PROVE StartInv'
  <2>1. CASE Continue(h)
    <3>1. \A g \in Halves : half'[g] =
             IF g # h THEN half[g] ELSE IF fwd = 1 THEN "poll" ELSE "finish"
      BY <2>1 DEF Continue, Step, ForwarderTypeOK
    <3> QED
      BY <2>1, <3>1 DEF Continue
  <2>2. CASE FinishHalf(h)
    <3>1. \A g \in Halves : half'[g] = IF g = h THEN "ended" ELSE half[g]
      BY <2>2 DEF FinishHalf, Step, ForwarderTypeOK
    <3> QED
      BY <2>2, <3>1 DEF FinishHalf
  <2>3. CASE Poll(h)
    <3>1. \A g \in Halves : half'[g] = IF g = h THEN "check" ELSE half[g]
      BY <2>3 DEF Poll, Step, ForwarderTypeOK
    <3> QED
      BY <2>3, <3>1 DEF Poll
  <2> QED
    BY <1>4, <2>1, <2>2, <2>3 DEF Half
<1>5. CASE UNCHANGED forwarderVars
  BY <1>5 DEF forwarderVars
<1> QED
  BY <1>1, <1>2, <1>3, <1>4, <1>5 DEF ForwarderNext, Owner

\* The same formula as the action of StartHolds.
KeepsStart ==
    fwd = 1 /\ fwd' = 0 =>
        \/ owner = "failed"
        \/ \E h \in Halves : h[1] < starts /\ half[h] = "finish" /\ half'[h] = "ended"

LEMMA StepKeepsStart == StartInv /\ [ForwarderNext]_forwarderVars => KeepsStart
<1> SUFFICES ASSUME StartInv, [ForwarderNext]_forwarderVars, fwd = 1, fwd' = 0,
                    owner # "failed"
             PROVE  \E h \in Halves : h[1] < starts /\ half[h] = "finish" /\ half'[h] = "ended"
  BY DEF KeepsStart
<1>1. PICK h \in Halves : FinishHalf(h)
  BY DEF ForwarderNext, Owner, Half, SetSockets, Start, CreateHalf, HalfFails, StartFails, Stop,
         Destroy, Close, Join, Continue, Poll, forwarderVars
<1>2. half[h] = "finish" /\ half'[h] = "ended"
  BY <1>1 DEF FinishHalf, Step, StartInv, ForwarderTypeOK
<1> QED
  BY <1>2 DEF StartInv

\* A started forwarder is ended by its owner, by a failed start, or by a half
\* of an earlier start, and by nothing else.
THEOREM OnlyStopEnds == ForwarderSpec => StartHolds
<1>1. StartInv /\ [ForwarderNext]_forwarderVars => [KeepsStart]_forwarderVars
  BY StepKeepsStart
<1>2. ForwarderSpec => [][KeepsStart]_forwarderVars
  BY <1>1, InitStart, NextStart, PTL DEF ForwarderSpec
<1> QED
  BY <1>2 DEF StartHolds, KeepsStart

---------------------------------------------------------------------------
(* Each start pays for one of its two halves, and the lowered flag, without *)
(* which there is no start, for the other.                                  *)

Flagged == IF fwd = 0 THEN 1 ELSE 0

\* The halves that the owner may add before it is idle again.
Missing ==
    IF owner = "create1" THEN 2 ELSE IF owner \in {"create2", "failed"} THEN 1 ELSE 0

CountInv ==
    /\ ForwarderTypeOK
    /\ Cardinality(Alive) + Missing + Flagged <= starts + 1

LEMMA AliveIsFinite == IsFiniteSet(Alive) /\ Cardinality(Alive) \in Nat
<1>1. IsFiniteSet(1 .. MaxStarts) /\ IsFiniteSet(1 .. 2)
  <2>1. MaxStarts \in Int /\ 1 \in Int /\ 2 \in Int
    BY ForwarderAssumption DEF ForwarderAssumption
  <2> QED
    BY ONLY <2>1, FS_Interval
<1>2. Directions = 1 .. 2
  BY DEF Directions
<1>3. IsFiniteSet(Halves)
  BY <1>1, <1>2, FS_Product DEF Halves
<1> QED
  BY <1>3, FS_Subset, FS_CardinalityType DEF Alive

\* A half that starts adds one.
LEMMA OneMore ==
    ASSUME NEW h, Alive' \subseteq Alive \cup {h}, Cardinality(Alive') \in Nat
    PROVE  Cardinality(Alive') <= Cardinality(Alive) + 1
<1>1. IsFiniteSet(Alive \cup {h}) /\ Cardinality(Alive \cup {h}) <= Cardinality(Alive) + 1
  BY AliveIsFinite, FS_AddElement
<1>2. Cardinality(Alive') <= Cardinality(Alive \cup {h})
  BY <1>1, FS_Subset
<1>3. Cardinality(Alive \cup {h}) \in Nat
  BY <1>1, FS_CardinalityType
<1> QED
  BY <1>1, <1>2, <1>3, AliveIsFinite

\* A half that ends takes one away.
LEMMA OneLess ==
    ASSUME NEW h \in Alive, Alive' = Alive \ {h}
    PROVE  Cardinality(Alive') = Cardinality(Alive) - 1
BY AliveIsFinite, FS_RemoveElement

\* Arithmetic of a half that starts.
LEMMA MoreButLessMissing ==
    ASSUME NEW c \in Nat, NEW d \in Nat, NEW s \in Nat, NEW m \in {0, 1, 2}, NEW k \in {0, 1},
           NEW f \in {0, 1}, c + m + f <= s + 1, d <= c + 1, k + 1 = m
    PROVE  d + k + f <= s + 1
OBVIOUS

LEMMA InitCount == ForwarderInit => CountInv
<1> SUFFICES ASSUME ForwarderInit PROVE CountInv
  OBVIOUS
<1>1. Alive = {}
  BY DEF ForwarderInit, Alive
<1>2. Cardinality(Alive) = 0
  BY <1>1, FS_EmptySet
<1> QED
  BY <1>2, ForwarderInitType DEF CountInv, ForwarderInit, Missing, Flagged

LEMMA NextCount == CountInv /\ [ForwarderNext]_forwarderVars => CountInv'
<1> SUFFICES ASSUME CountInv, [ForwarderNext]_forwarderVars PROVE CountInv'
  OBVIOUS
<1>t. ForwarderTypeOK /\ ForwarderTypeOK'
  BY ForwarderNextType DEF CountInv
<1>n. starts \in Nat /\ Cardinality(Alive) \in Nat
  BY <1>t, ForwarderAssumption, AliveIsFinite DEF ForwarderTypeOK, ForwarderAssumption
<1>i. ASSUME half' = half PROVE Alive' = Alive
  BY <1>i DEF Alive
<1>f. Flagged \in {0, 1} /\ Missing \in {0, 1, 2}
  BY DEF Flagged, Missing
<1>1. CASE SetSockets \/ Stop \/ Destroy \/ Close \/ Join
  <2>1. Alive' = Alive /\ starts' = starts
    BY <1>1, <1>i DEF SetSockets, Stop, Destroy, Close, Join
  <2>2. Missing' = Missing /\ Flagged' = Flagged
    BY <1>1 DEF SetSockets, Stop, Destroy, Close, Join, Missing, Flagged, OwnerTo
  <2> QED
    BY <1>t, <2>1, <2>2 DEF CountInv
<1>2. CASE Start
  <2>1. Alive' = Alive /\ starts' = starts + 1
    BY <1>2, <1>i DEF Start
  <2>2. Flagged = 1 /\ Flagged' = 0 /\ Missing = 0 /\ Missing' = 2
    BY <1>2 DEF Start, Missing, Flagged, OwnerTo
  <2> QED
    BY <1>t, <1>n, <2>1, <2>2 DEF CountInv
<1>3. ASSUME NEW d \in Directions, CreateHalf(d) PROVE CountInv'
  <2>1. \A h \in Halves : half'[h] = IF h = <<starts, d>> THEN "check" ELSE half[h]
    BY <1>3, <1>t DEF CreateHalf, Step, ForwarderTypeOK
  <2>2. Alive' \subseteq Alive \cup {<<starts, d>>}
    BY <2>1 DEF Alive
  <2>3. Cardinality(Alive') \in Nat
    <3>1. Alive' \subseteq Alive \cup {<<starts, d>>}
      BY <2>2
    <3> QED
      BY <3>1, AliveIsFinite, FS_AddElement, FS_Subset, FS_CardinalityType
  <2>4. Cardinality(Alive') <= Cardinality(Alive) + 1
    BY <2>2, <2>3, OneMore
  <2>5. Missing' + 1 = Missing /\ Flagged' = Flagged /\ starts' = starts
    BY <1>3 DEF CreateHalf, Missing, Flagged, OwnerTo, Directions
  <2>6. Missing' \in {0, 1} /\ starts' \in Nat
    BY <1>n, <2>5 DEF Missing
  <2>7. Cardinality(Alive) + Missing + Flagged <= starts + 1
    BY DEF CountInv
  <2>8. Cardinality(Alive') + Missing' + Flagged' <= starts' + 1
    BY <1>n, <1>f, <2>3, <2>4, <2>5, <2>6, <2>7, MoreButLessMissing
  <2> QED
    BY <1>t, <2>8 DEF CountInv
<1>4. CASE HalfFails
  <2>1. Alive' = Alive /\ starts' = starts /\ Flagged' = Flagged
    BY <1>4, <1>i DEF HalfFails, Flagged
  <2>2. Missing' = 1 /\ Missing \in {1, 2}
    BY <1>4 DEF HalfFails, Missing, OwnerTo
  <2> QED
    BY <1>t, <1>n, <1>f, <2>1, <2>2 DEF CountInv
<1>5. CASE StartFails
  <2>1. Alive' = Alive /\ starts' = starts /\ Flagged' = 1
    BY <1>5, <1>i DEF StartFails, Flagged
  <2>2. Missing' = 0 /\ Missing = 1
    BY <1>5 DEF StartFails, Missing, OwnerTo
  <2> QED
    BY <1>t, <1>n, <1>f, <2>1, <2>2 DEF CountInv
<1>6. ASSUME NEW h \in Halves, Half(h) PROVE CountInv'
  <2>1. CASE Continue(h) \/ Poll(h)
    <3>1. \A g \in Halves : half'[g] = half[g] \/
              (half[g] \in {"check", "poll"} /\ half'[g] \in {"check", "poll", "finish"})
      BY <2>1, <1>t DEF Continue, Poll, Step, ForwarderTypeOK
    <3>2. Alive' = Alive
      BY <3>1 DEF Alive
    <3>3. Missing' = Missing /\ Flagged' = Flagged /\ starts' = starts
      BY <2>1 DEF Continue, Poll, Missing, Flagged
    <3> QED
      BY <1>t, <3>2, <3>3 DEF CountInv
  <2>2. CASE FinishHalf(h)
    <3>1. \A g \in Halves : half'[g] = IF g = h THEN "ended" ELSE half[g]
      BY <2>2, <1>t DEF FinishHalf, Step, ForwarderTypeOK
    <3>2. h \in Alive /\ Alive' = Alive \ {h}
      BY <2>2, <3>1 DEF FinishHalf, Alive
    <3>3. Cardinality(Alive') = Cardinality(Alive) - 1
      BY <3>2, OneLess
    <3>4. Missing' = Missing /\ Flagged' = 1 /\ starts' = starts
      BY <2>2 DEF FinishHalf, Missing, Flagged
    <3> QED
      BY <1>t, <1>n, <1>f, <3>3, <3>4 DEF CountInv
  <2> QED
    BY <1>6, <2>1, <2>2 DEF Half
<1>7. CASE UNCHANGED forwarderVars
  <2>1. Alive' = Alive /\ starts' = starts /\ Missing' = Missing /\ Flagged' = Flagged
    BY <1>7, <1>i DEF forwarderVars, Missing, Flagged
  <2> QED
    BY <1>t, <2>1 DEF CountInv
<1> QED
  BY <1>1, <1>2, <1>3, <1>4, <1>5, <1>6, <1>7 DEF ForwarderNext, Owner

\* However often the forwarder is stopped and started again, with halves of
\* earlier starts still asleep, a start adds one thread to those there may be.
THEOREM ThreadsAreBounded == ForwarderSpec => []HalvesAreBounded
<1>1. CountInv => HalvesAreBounded
  BY AliveIsFinite, ForwarderAssumption
     DEF CountInv, HalvesAreBounded, Missing, Flagged, ForwarderTypeOK, ForwarderAssumption
<1> QED
  BY <1>1, InitCount, NextCount, PTL DEF ForwarderSpec
===========================================================================
