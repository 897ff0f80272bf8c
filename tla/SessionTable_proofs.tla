------------------------ MODULE SessionTable_proofs ------------------------
(***************************************************************************)
(* Theorems of SessionTable, for every number of sessions, and the lemmas  *)
(* about the vectors of utils/array.h that they rest on.                   *)
(***************************************************************************)
EXTENDS SessionTable, FiniteSetTheorems, TLAPS

---------------------------------------------------------------------------
(* What the functions of array.h leave. *)

\* ptrvinsert puts the element into one place and keeps the others.
LEMMA InsertResult ==
    ASSUME NEW S, NEW v \in Seq(S), NEW ele \in S, NEW w \in ptrvinsert(v, ele)
    PROVE  /\ w \in Seq(S)
           /\ \E i \in 1 .. Len(w) :
                 /\ w[i] = ele
                 /\ \A j \in (1 .. Len(w)) \ {i} : j \in 1 .. Len(v) /\ w[j] = v[j]
<1>1. PICK i \in 1 .. Len(v) + 1 :
         w = IF i <= Len(v) THEN [v EXCEPT ![i] = ele] ELSE Append(v, ele)
  BY DEF ptrvinsert, ptrvreserve
<1>2. CASE i <= Len(v)
  <2>1. w = [v EXCEPT ![i] = ele] /\ i \in 1 .. Len(v)
    BY <1>1, <1>2
  <2>2. w \in Seq(S) /\ Len(w) = Len(v)
    BY <2>1
  <2>3. \A j \in 1 .. Len(v) : w[j] = IF j = i THEN ele ELSE v[j]
    BY <2>1
  <2> QED
    BY <2>1, <2>2, <2>3
<1>3. CASE i > Len(v)
  <2>1. w = Append(v, ele)
    BY <1>1, <1>3
  <2>2. w \in Seq(S) /\ Len(w) = Len(v) + 1 /\ w[Len(w)] = ele
    BY <2>1
  <2>3. \A j \in 1 .. Len(v) : w[j] = v[j]
    BY <2>1
  <2> QED
    BY <2>2, <2>3
<1> QED
  BY <1>2, <1>3

\* Vector w is a beginning of v, with place i empty.
Emptied(w, v, i) ==
    /\ Len(w) <= Len(v)
    /\ \A j \in 1 .. Len(w) : w[j] = IF j = i THEN Null ELSE v[j]

\* ptrvsteal empties the place, and may cut off the end.
LEMMA StealResult ==
    ASSUME NEW S, Null \in S, NEW v \in Seq(S), NEW i \in 1 .. Len(v),
           NEW w \in ptrvsteal(v, i)
    PROVE  w \in Seq(S) /\ Emptied(w, v, i)
<1> DEFINE u == [v EXCEPT ![i] = Null]
<1>1. /\ u \in Seq(S) /\ Len(u) = Len(v)
      /\ \A j \in 1 .. Len(v) : u[j] = IF j = i THEN Null ELSE v[j]
  OBVIOUS
<1>2. w = u \/ w \in ptrvshrink(u)
  BY DEF ptrvsteal
<1> HIDE DEF u
<1>3. CASE w \in ptrvshrink(u)
  <2>1. PICK n \in 0 .. Len(u) - 1 : w = SubSeq(u, 1, n)
    BY <1>3 DEF ptrvshrink
  <2>2. w \in Seq(S) /\ Len(w) = n /\ \A j \in 1 .. n : w[j] = u[j]
    BY <1>1, <2>1
  <2> QED
    BY <1>1, <2>1, <2>2 DEF Emptied
<1> QED
  BY <1>1, <1>2, <1>3 DEF Emptied

\* ptrvtake finds nothing, or steals one of the places of the element.
LEMMA TakeIsSteal ==
    ASSUME NEW v, NEW ele, NEW w \in ptrvtake(v, ele)
    PROVE  \/ w = v /\ ptrvfind(v, ele) = {}
           \/ \E i \in 1 .. Len(v) : v[i] = ele /\ w \in ptrvsteal(v, i)
BY DEF ptrvtake, ptrvfind

\* It only empties places and cuts off the end, and an element that was there
\* once is gone.
LEMMA TakeResult ==
    ASSUME NEW S, Null \in S, NEW v \in Seq(S), NEW ele, ele # Null,
           \A k, j \in 1 .. Len(v) : v[k] = ele /\ v[j] = ele => k = j,
           NEW w \in ptrvtake(v, ele)
    PROVE  /\ w \in Seq(S) /\ Len(w) <= Len(v)
           /\ \A j \in 1 .. Len(w) : w[j] # ele /\ w[j] \in {v[j], Null}
<1>1. CASE w = v /\ ptrvfind(v, ele) = {}
  <2>1. \A j \in 1 .. Len(v) : v[j] # ele
    <3>1. SUFFICES ASSUME NEW k \in 1 .. Len(v), v[k] = ele PROVE FALSE
      OBVIOUS
    <3>2. k \in ptrvfind(v, ele)
      BY <3>1 DEF ptrvfind
    <3> QED
      BY <1>1, <3>2
  <2> QED
    BY <1>1, <2>1
<1>2. ASSUME NEW i \in 1 .. Len(v), v[i] = ele, w \in ptrvsteal(v, i)
      PROVE  /\ w \in Seq(S) /\ Len(w) <= Len(v)
             /\ \A j \in 1 .. Len(w) : w[j] # ele /\ w[j] \in {v[j], Null}
  <2>1. w \in Seq(S) /\ Emptied(w, v, i)
    BY <1>2, StealResult
  <2>2. ASSUME NEW j \in 1 .. Len(w) PROVE w[j] # ele /\ w[j] \in {v[j], Null}
    <3>1. CASE j = i
      BY <2>1, <3>1 DEF Emptied
    <3>2. CASE j # i
      <4>1. j \in 1 .. Len(v) /\ w[j] = v[j]
        BY <2>1, <3>2 DEF Emptied
      <4> QED
        BY <1>2, <3>2, <4>1
    <3> QED
      BY <3>1, <3>2
  <2> QED
    BY <2>1, <2>2 DEF Emptied
<1> QED
  BY <1>1, <1>2, TakeIsSteal

---------------------------------------------------------------------------
(* The inductive invariant. *)

\* The counter covers the array, the worker and the transactions.
Counted ==
    \A s \in alloc :
        /\ refs[s] >= 1
        /\ refs[s] >= held[s] + (IF s \in busy THEN 1 ELSE 0) + (IF s \in Listed THEN 1 ELSE 0)

IInv == TypeOK /\ ArrayIsSound /\ HoldersAreSafe /\ Counted

\* A new array whose entries come from the old one is sound when those that
\* were freed are not in it.
LEMMA ArrayStep ==
    ASSUME IInv, sessions' \in Seq(Sessions \cup {Null}),
           \A i \in 1 .. Len(sessions') :
               sessions'[i] = Null \/ (i \in 1 .. Len(sessions) /\ sessions'[i] = sessions[i]),
           \A i \in 1 .. Len(sessions') : sessions'[i] \in alloc => sessions'[i] \in alloc'
    PROVE  ArrayIsSound' /\ Listed' \subseteq Listed
<1>1. \A i \in 1 .. Len(sessions') : sessions'[i] # Null =>
         i \in 1 .. Len(sessions) /\ sessions'[i] = sessions[i]
  OBVIOUS
<1>2. ArrayIsSound'
  BY <1>1 DEF IInv, ArrayIsSound
<1>3. Listed' \subseteq Listed
  BY <1>1 DEF Listed, Entries
<1> QED
  BY <1>2, <1>3

\* The number of sessions of a vector is a number.
LEMMA PeakType ==
    ASSUME TypeOK, NEW v \in Seq(Sessions \cup {Null}), Count(v)
    PROVE  peak' \in Nat
<1>1. Entries(v) \subseteq {v[i] : i \in 1 .. Len(v)}
  BY DEF Entries
<1>2. IsFiniteSet(1 .. Len(v))
  BY FS_Interval
<1>3. IsFiniteSet({v[i] : i \in 1 .. Len(v)})
  <2>1. v \in Surjection(1 .. Len(v), {v[i] : i \in 1 .. Len(v)})
    BY DEF Surjection
  <2> QED
    BY <1>2, <2>1, FS_Surjection
<1>4. IsFiniteSet(Entries(v))
  BY <1>1, <1>3, FS_Subset
<1>5. Cardinality(Entries(v)) \in Nat
  BY <1>4, FS_CardinalityType
<1> QED
  BY <1>5 DEF Count, TypeOK

\* Inserting a session that was not allocated.
LEMMA InsertStep ==
    ASSUME IInv, NEW s \in Sessions, s \notin alloc, NEW v \in ptrvinsert(sessions, s)
    PROVE  /\ v \in Seq(Sessions \cup {Null})
           /\ \A i \in 1 .. Len(v) : v[i] # Null =>
                 /\ v[i] \in alloc \cup {s}
                 /\ \A j \in 1 .. Len(v) : v[j] = v[i] => j = i
           /\ Entries(v) \subseteq Listed \cup {s}
<1>1. sessions \in Seq(Sessions \cup {Null}) /\ s \in Sessions \cup {Null} /\ s # Null
  BY TableAssumption DEF TableAssumption, IInv, TypeOK
<1>2. PICK i \in 1 .. Len(v) :
         /\ v[i] = s
         /\ \A j \in (1 .. Len(v)) \ {i} : j \in 1 .. Len(sessions) /\ v[j] = sessions[j]
  BY <1>1, InsertResult
<1>3. v \in Seq(Sessions \cup {Null})
  BY <1>1, InsertResult
<1>4. \A j \in 1 .. Len(sessions) : sessions[j] # Null =>
         /\ sessions[j] \in alloc /\ sessions[j] # s
         /\ \A k \in 1 .. Len(sessions) : sessions[k] = sessions[j] => k = j
  BY DEF IInv, ArrayIsSound
<1>5. ASSUME NEW k \in 1 .. Len(v), v[k] # Null
      PROVE  /\ v[k] \in alloc \cup {s} /\ v[k] \in Listed \cup {s}
             /\ \A j \in 1 .. Len(v) : v[j] = v[k] => j = k
  <2>1. CASE k = i
    <3>1. \A j \in (1 .. Len(v)) \ {i} : v[j] # s
      BY <1>1, <1>2, <1>4
    <3> QED
      BY <1>2, <2>1, <3>1
  <2>2. CASE k # i
    <3>1. k \in 1 .. Len(sessions) /\ v[k] = sessions[k]
      BY <1>2, <2>2
    <3>2. v[k] \in alloc /\ v[k] # s /\ v[k] \in Listed
      BY <1>4, <1>5, <3>1 DEF Listed, Entries
    <3>3. \A j \in 1 .. Len(v) : v[j] = v[k] => j = k
      BY <1>2, <1>4, <1>5, <3>1, <3>2
    <3> QED
      BY <3>2, <3>3
  <2> QED
    BY <2>1, <2>2
<1>6. Entries(v) \subseteq Listed \cup {s}
  BY <1>5 DEF Entries
<1> QED
  BY <1>3, <1>5, <1>6

\* What the array and the holders point to is allocated.
LEMMA ListedAllocated ==
    ASSUME IInv
    PROVE  Listed \subseteq alloc /\ \A s \in Sessions \ alloc : held[s] = 0 /\ s \notin busy
BY DEF IInv, ArrayIsSound, HoldersAreSafe, Listed, Entries

---------------------------------------------------------------------------
(* Steps that only count. *)

\* The holders and the counter of session s change, and they still agree.
Recounted(s) ==
    /\ \A t \in Sessions \ {s} :
          refs'[t] = refs[t] /\ held'[t] = held[t] /\ (t \in busy' <=> t \in busy)
    /\ refs'[s] >= 1
    /\ refs'[s] >= held'[s] + (IF s \in busy' THEN 1 ELSE 0) + (IF s \in Listed THEN 1 ELSE 0)

\* Only the counter and the holders of one session change, and stay in order.
LEMMA CountStep ==
    ASSUME IInv, NEW s \in alloc, Recounted(s), UNCHANGED <<sessions, alloc>>
    PROVE  ArrayIsSound' /\ HoldersAreSafe' /\ Counted'
<1>1. Listed' = Listed /\ alloc \subseteq Sessions
  BY DEF IInv, TypeOK, Listed
<1>2. ArrayIsSound'
  BY DEF IInv, ArrayIsSound
<1>3. HoldersAreSafe'
  BY <1>1 DEF IInv, HoldersAreSafe, Recounted
<1>4. ASSUME NEW t \in alloc'
      PROVE  /\ refs'[t] >= 1
             /\ refs'[t] >= held'[t] + (IF t \in busy' THEN 1 ELSE 0)
                                     + (IF t \in Listed' THEN 1 ELSE 0)
  <2>1. CASE t = s
    BY <1>1, <2>1 DEF Recounted
  <2>2. CASE t # s
    BY <1>1, <1>4, <2>2 DEF Recounted, IInv, Counted
  <2> QED
    BY <2>1, <2>2
<1>5. Counted'
  BY <1>4 DEF Counted
<1> QED
  BY <1>2, <1>3, <1>5

\* One more transaction, or a reference of nobody.
LEMMA TalkStep ==
    ASSUME IInv, NEW s \in alloc, Talk(s) \/ Attach(s), UNCHANGED busy
    PROVE  /\ refs' \in [Sessions -> Nat] /\ held' \in [Sessions -> Nat]
           /\ Recounted(s)
<1>1. /\ refs \in [Sessions -> Nat] /\ held \in [Sessions -> Nat] /\ s \in Sessions
      /\ refs[s] >= 1
      /\ refs[s] >= held[s] + (IF s \in busy THEN 1 ELSE 0) + (IF s \in Listed THEN 1 ELSE 0)
  BY DEF IInv, TypeOK, Counted
<1>2. \/ UNCHANGED <<held, refs>>
      \/ /\ held' = [held EXCEPT ![s] = @ + 1] /\ refs' = [refs EXCEPT ![s] = @ + 1]
      \/ UNCHANGED held /\ refs' = [refs EXCEPT ![s] = @ + 1]
  BY DEF Talk, Attach
<1> QED
  BY <1>1, <1>2 DEF Recounted

---------------------------------------------------------------------------
(* Every action. *)

\* The strengthening holds at first.
LEMMA InitInv == Init => IInv
<1> SUFFICES ASSUME Init PROVE IInv
  OBVIOUS
<1>1. sessions = <<>> /\ Listed = {}
  BY DEF Init, Listed, Entries
<1>2. TypeOK
  BY <1>1 DEF Init, TypeOK
<1> QED
  BY <1>1, <1>2 DEF Init, IInv, ArrayIsSound, HoldersAreSafe, Counted

\* Steps that leave the array and the memory alone.
LEMMA QuietStep ==
    ASSUME IInv, NEW s \in Sessions,
           \/ Request(s) \/ Message(s) \/ StartWorker(s) \/ EndWorker(s) \/ Expire(s)
    PROVE  IInv'
<1>0. TypeOK /\ Listed \subseteq alloc /\ (held[s] > 0 \/ s \in busy => s \in alloc)
  BY ListedAllocated DEF IInv
<1>1. CASE Request(s)
  <2>1. s \in alloc /\ Attach(s) /\ UNCHANGED <<sessions, alloc, busy>>
    BY <1>0, <1>1 DEF Request
  <2>2. refs' \in [Sessions -> Nat] /\ held' \in [Sessions -> Nat] /\ Recounted(s)
    BY <2>1, TalkStep
  <2>3. TypeOK'
    BY <1>0, <1>1, <2>2 DEF Request, TypeOK
  <2> QED
    BY <2>1, <2>2, <2>3, CountStep DEF IInv
<1>2. CASE Message(s)
  <2>1. s \in alloc /\ Talk(s) /\ UNCHANGED <<sessions, alloc, busy>>
    BY <1>0, <1>2 DEF Message
  <2>2. refs' \in [Sessions -> Nat] /\ held' \in [Sessions -> Nat] /\ Recounted(s)
    BY <2>1, TalkStep
  <2>3. TypeOK'
    BY <1>0, <1>2, <2>2 DEF Message, TypeOK
  <2> QED
    BY <2>1, <2>2, <2>3, CountStep DEF IInv
<1>3. CASE Expire(s)
  <2>1. s \in Listed
    BY <1>3, TableAssumption DEF Expire, Listed, Entries, TableAssumption
  <2>2. s \in alloc /\ Talk(s) /\ UNCHANGED <<sessions, alloc, busy>>
    BY <1>0, <1>3, <2>1 DEF Expire
  <2>3. refs' \in [Sessions -> Nat] /\ held' \in [Sessions -> Nat] /\ Recounted(s)
    BY <2>2, TalkStep
  <2>4. TypeOK'
    BY <1>0, <1>3, <2>3 DEF Expire, TypeOK
  <2> QED
    BY <2>2, <2>3, <2>4, CountStep DEF IInv
<1>4. CASE StartWorker(s)
  <2>1. /\ s \in alloc /\ s \notin busy /\ busy' = busy \cup {s} /\ held' = held
        /\ refs' = [refs EXCEPT ![s] = @ + 1] /\ UNCHANGED <<sessions, alloc>>
    BY <1>4 DEF StartWorker
  <2>2. Recounted(s)
    BY <1>0, <2>1 DEF Recounted, IInv, Counted, TypeOK
  <2>3. TypeOK'
    BY <1>0, <1>4, <2>1 DEF StartWorker, TypeOK
  <2> QED
    BY <2>1, <2>2, <2>3, CountStep DEF IInv
<1>5. CASE EndWorker(s)
  <2>1. /\ s \in alloc /\ s \in busy /\ busy' = busy \ {s} /\ held' = held
        /\ refs' = [refs EXCEPT ![s] = IF @ = 1 THEN 1 ELSE @ - 1]
        /\ UNCHANGED <<sessions, alloc>>
    BY <1>0, <1>5 DEF EndWorker, DecrefOnly
  <2>2. refs[s] \in Nat /\ refs[s] >= 1 /\ held[s] \in Nat
        /\ refs[s] >= held[s] + 1 + (IF s \in Listed THEN 1 ELSE 0)
    BY <1>0, <2>1 DEF IInv, Counted, TypeOK
  <2>3. Recounted(s)
    BY <1>0, <2>1, <2>2 DEF Recounted, TypeOK
  <2>4. refs' \in [Sessions -> Nat]
    BY <1>0, <2>1, <2>2 DEF TypeOK
  <2>5. TypeOK'
    BY <1>0, <1>5, <2>1, <2>4 DEF EndWorker, TypeOK
  <2> QED
    BY <2>1, <2>3, <2>5, CountStep DEF IInv
<1> QED
  BY <1>1, <1>2, <1>3, <1>4, <1>5

\* Steps of the sweep that change nothing but its place.
LEMMA SweepStep ==
    ASSUME IInv, StartSweep \/ Pass \/ EndSweep
    PROVE  IInv'
<1>1. UNCHANGED <<sessions, alloc, refs, held, busy, over, peak>>
  BY DEF StartSweep, Pass, EndSweep
<1>2. Listed \subseteq Sessions
  BY ListedAllocated DEF IInv, TypeOK
<1>3. at' \in Nat /\ due' \subseteq Sessions
  BY <1>2 DEF StartSweep, Pass, EndSweep, IInv, TypeOK
<1>4. TypeOK'
  BY <1>1, <1>3 DEF IInv, TypeOK
<1> QED
  BY <1>1, <1>4 DEF IInv, ArrayIsSound, HoldersAreSafe, Counted, Listed

\* A session leaves the array with the sweep.
LEMMA RemoveStep ==
    ASSUME IInv, NEW s \in Sessions, Remove(s)
    PROVE  IInv'
<1> DEFINE S == Sessions \cup {Null}
<1>1. /\ at \in 1 .. Len(sessions) /\ sessions[at] = s /\ s # Null
      /\ sessions' \in ptrvsteal(sessions, at)
      /\ refs' = [refs EXCEPT ![s] = IF @ = 1 THEN 1 ELSE @ - 1]
      /\ UNCHANGED <<alloc, held, busy, over, peak>>
      /\ at' = at + 1 /\ due' \subseteq due
  BY TableAssumption DEF TableAssumption, Remove, DecrefOnly
<1>2. /\ sessions \in Seq(S) /\ Null \in S /\ s \in Listed /\ s \in alloc
      /\ refs \in [Sessions -> Nat] /\ held \in [Sessions -> Nat] /\ alloc \subseteq Sessions
  BY <1>1, ListedAllocated DEF IInv, TypeOK, Listed, Entries
<1>3. sessions' \in Seq(S) /\ Emptied(sessions', sessions, at)
  BY <1>1, <1>2, StealResult
<1>4. \A i \in 1 .. Len(sessions') :
         sessions'[i] = Null \/ (i \in 1 .. Len(sessions) /\ sessions'[i] = sessions[i])
  BY <1>2, <1>3 DEF Emptied
<1>5. ArrayIsSound' /\ Listed' \subseteq Listed
  BY <1>1, <1>3, <1>4, ArrayStep
<1>6. s \notin Listed'
  <2>1. \A j \in 1 .. Len(sessions) : sessions[j] = s => j = at
    BY <1>1 DEF IInv, ArrayIsSound
  <2>2. ASSUME NEW i \in 1 .. Len(sessions')
        PROVE  sessions'[i] # s
    <3>1. CASE i = at
      BY <1>1, <1>3, <3>1 DEF Emptied
    <3>2. CASE i # at
      <4>1. i \in 1 .. Len(sessions) /\ sessions'[i] = sessions[i]
        BY <1>2, <1>3, <3>2 DEF Emptied
      <4> QED
        BY <2>1, <3>2, <4>1
    <3> QED
      BY <3>1, <3>2
  <2> QED
    BY <2>2 DEF Listed, Entries
<1>7. refs' \in [Sessions -> Nat]
  BY <1>1, <1>2 DEF IInv, Counted
<1>8. TypeOK'
  BY <1>1, <1>3, <1>7 DEF IInv, TypeOK
<1>9. HoldersAreSafe'
  BY <1>1 DEF IInv, HoldersAreSafe
<1>10. ASSUME NEW t \in alloc
       PROVE  /\ refs'[t] >= 1
              /\ refs'[t] >= held[t] + (IF t \in busy THEN 1 ELSE 0)
                                     + (IF t \in Listed' THEN 1 ELSE 0)
  <2>1. /\ refs[t] \in Nat /\ held[t] \in Nat /\ refs[t] >= 1
        /\ refs[t] >= held[t] + (IF t \in busy THEN 1 ELSE 0)
                              + (IF t \in Listed THEN 1 ELSE 0)
    BY <1>2 DEF IInv, Counted
  <2>2. CASE t = s
    <3>1. refs[s] >= held[s] + (IF s \in busy THEN 1 ELSE 0) + 1
      BY <1>2, <2>1, <2>2
    <3>2. refs'[s] = IF refs[s] = 1 THEN 1 ELSE refs[s] - 1
      BY <1>1, <1>2
    <3> QED
      BY <1>6, <2>1, <2>2, <3>1, <3>2
  <2>3. CASE t # s
    BY <1>1, <1>2, <1>5, <2>1, <2>3
  <2> QED
    BY <2>2, <2>3
<1>11. Counted'
  BY <1>1, <1>10 DEF Counted
<1> QED
  BY <1>5, <1>8, <1>9, <1>11 DEF IInv

\* A transaction ends, and perhaps its session with it.
LEMMA KillStep ==
    ASSUME IInv, NEW s \in Sessions, Kill(s)
    PROVE  IInv'
<1> DEFINE S == Sessions \cup {Null}
<1>1. /\ held[s] > 0
      /\ held' = [held EXCEPT ![s] = @ - 1] /\ refs' = [refs EXCEPT ![s] = @ - 1]
      /\ UNCHANGED <<busy, at, due, peak>>
  BY DEF Kill
<1>2. /\ sessions \in Seq(S) /\ Null \in S /\ s # Null /\ s \in alloc /\ alloc \subseteq Sessions
      /\ refs \in [Sessions -> Nat] /\ held \in [Sessions -> Nat]
      /\ refs[s] >= held[s] + (IF s \in busy THEN 1 ELSE 0) + (IF s \in Listed THEN 1 ELSE 0)
  BY <1>1, ListedAllocated, TableAssumption DEF TableAssumption, IInv, TypeOK, Counted
<1>3. refs' \in [Sessions -> Nat] /\ held' \in [Sessions -> Nat]
  BY <1>1, <1>2
<1>4. CASE refs[s] # 1
  <2>1. UNCHANGED <<sessions, alloc, over>>
    BY <1>4 DEF Kill
  <2>2. Recounted(s)
    BY <1>1, <1>2, <1>4 DEF Recounted
  <2>3. TypeOK'
    BY <1>1, <1>3, <2>1 DEF IInv, TypeOK
  <2> QED
    BY <1>2, <2>1, <2>2, <2>3, CountStep DEF IInv
<1>5. CASE refs[s] = 1
  <2>1. alloc' = alloc \ {s} /\ sessions' \in ptrvtake(sessions, s) /\ over' = over \ {s}
    BY <1>5 DEF Kill, Free
  <2>2. s \notin Listed /\ s \notin busy /\ held[s] = 1
    BY <1>1, <1>2, <1>5
  <2>3. \A i, j \in 1 .. Len(sessions) : sessions[i] = s /\ sessions[j] = s => i = j
    BY <1>2 DEF IInv, ArrayIsSound
  <2>4. /\ sessions' \in Seq(S) /\ Len(sessions') <= Len(sessions)
        /\ \A j \in 1 .. Len(sessions') : sessions'[j] # s /\ sessions'[j] \in {sessions[j], Null}
    BY <1>2, <2>1, <2>3, TakeResult
  <2>5. \A i \in 1 .. Len(sessions') :
           sessions'[i] = Null \/ (i \in 1 .. Len(sessions) /\ sessions'[i] = sessions[i])
    BY <1>2, <2>4
  <2>6. ArrayIsSound' /\ Listed' \subseteq Listed
    BY <2>1, <2>4, <2>5, ArrayStep
  <2>7. TypeOK'
    BY <1>1, <1>3, <2>1, <2>4 DEF IInv, TypeOK
  <2>8. HoldersAreSafe'
    BY <1>1, <1>2, <2>1, <2>2 DEF IInv, HoldersAreSafe
  <2>9. Counted'
    BY <1>1, <1>2, <2>1, <2>6 DEF IInv, Counted
  <2> QED
    BY <2>6, <2>7, <2>8, <2>9 DEF IInv
<1> QED
  BY <1>4, <1>5

\* A session is made.
LEMMA NewStep ==
    ASSUME IInv, NEW s \in Sessions, NewInvite(s) \/ NewLeelen(s)
    PROVE  IInv'
<1>1. /\ s \notin alloc /\ alloc' = alloc \cup {s} /\ UNCHANGED <<busy, at, due>>
      /\ refs' = [refs EXCEPT ![s] = 2]
      /\ held' = held \/ held' = [held EXCEPT ![s] = 1]
      /\ over' \subseteq Sessions
  BY DEF NewInvite, NewLeelen, IInv, TypeOK
<1>2. PICK v \in ptrvinsert(sessions, s) : sessions' = v /\ Count(v)
  BY DEF NewInvite, NewLeelen
<1>3. /\ sessions' \in Seq(Sessions \cup {Null})
      /\ \A i \in 1 .. Len(sessions') : sessions'[i] # Null =>
            /\ sessions'[i] \in alloc \cup {s}
            /\ \A j \in 1 .. Len(sessions') : sessions'[j] = sessions'[i] => j = i
      /\ Listed' \subseteq Listed \cup {s}
  BY <1>1, <1>2, InsertStep DEF Listed
<1>4. /\ refs \in [Sessions -> Nat] /\ held \in [Sessions -> Nat] /\ alloc \subseteq Sessions
      /\ held[s] = 0 /\ s \notin busy /\ Listed \subseteq alloc
  BY <1>1, ListedAllocated DEF IInv, TypeOK
<1>5. peak' \in Nat
  <2>1. TypeOK /\ sessions' \in Seq(Sessions \cup {Null}) /\ Count(sessions')
    BY <1>2, <1>3 DEF IInv
  <2> QED
    BY <1>2, <1>3, <2>1, PeakType
<1>6. TypeOK'
  BY <1>1, <1>3, <1>4, <1>5 DEF IInv, TypeOK
<1>7. ArrayIsSound'
  BY <1>1, <1>3 DEF ArrayIsSound
<1>8. HoldersAreSafe'
  BY <1>1, <1>4 DEF IInv, HoldersAreSafe
<1>9. Counted'
  <2>1. ASSUME NEW t \in alloc'
        PROVE  /\ refs'[t] >= 1
               /\ refs'[t] >= held'[t] + (IF t \in busy' THEN 1 ELSE 0)
                                       + (IF t \in Listed' THEN 1 ELSE 0)
    <3>1. CASE t = s
      BY <1>1, <1>4, <3>1
    <3>2. CASE t # s
      BY <1>1, <1>3, <1>4, <2>1, <3>2 DEF IInv, Counted
    <3> QED
      BY <3>1, <3>2
  <2> QED
    BY <2>1 DEF Counted
<1> QED
  BY <1>6, <1>7, <1>8, <1>9 DEF IInv

\* A session is made and goes again, in the same call.
LEMMA RefusedStep ==
    ASSUME IInv, NEW s \in Sessions, RefusedLeelen(s)
    PROVE  IInv'
<1> DEFINE S == Sessions \cup {Null}
<1>1. s \notin alloc /\ UNCHANGED <<refs, held, busy, over, at, due>>
  BY DEF RefusedLeelen
<1>2. PICK v \in ptrvinsert(sessions, s) : Free(s, v) /\ Count(v)
  BY DEF RefusedLeelen
<1>3. alloc' = alloc /\ sessions' \in ptrvtake(v, s)
  BY <1>1, <1>2 DEF Free
<1>4. /\ v \in Seq(S)
      /\ \A i \in 1 .. Len(v) : v[i] # Null =>
            /\ v[i] \in alloc \cup {s}
            /\ \A j \in 1 .. Len(v) : v[j] = v[i] => j = i
      /\ Entries(v) \subseteq Listed \cup {s}
  BY <1>1, <1>2, InsertStep
<1>5. s # Null /\ s \in S /\ Null \in S
  BY TableAssumption DEF TableAssumption
<1>6. \A i, j \in 1 .. Len(v) : v[i] = s /\ v[j] = s => i = j
  BY <1>4, <1>5
<1>7. /\ sessions' \in Seq(S) /\ Len(sessions') <= Len(v)
      /\ \A j \in 1 .. Len(sessions') : sessions'[j] # s /\ sessions'[j] \in {v[j], Null}
  BY <1>3, <1>4, <1>5, <1>6, TakeResult
<1>8. \A j \in 1 .. Len(sessions') : sessions'[j] # Null =>
         j \in 1 .. Len(v) /\ sessions'[j] = v[j] /\ v[j] # s
  BY <1>4, <1>7
<1>9. ArrayIsSound'
  BY <1>3, <1>4, <1>8 DEF ArrayIsSound
<1>10. Listed' \subseteq Listed
  <2>1. \A j \in 1 .. Len(sessions') : sessions'[j] # Null =>
           sessions'[j] \in Entries(v) /\ sessions'[j] # s
    BY <1>8 DEF Entries
  <2>2. \A e \in Listed' : e \in Entries(v) /\ e # s
    BY <2>1 DEF Listed, Entries
  <2> QED
    BY <1>4, <2>2
<1>11. TypeOK'
  <2>1. peak' \in Nat
    BY <1>2, <1>4, PeakType DEF IInv
  <2> QED
    BY <1>1, <1>3, <1>7, <2>1 DEF IInv, TypeOK
<1>12. HoldersAreSafe'
  BY <1>1, <1>3 DEF IInv, HoldersAreSafe
<1>13. Counted'
  <2>1. alloc \subseteq Sessions /\ refs \in [Sessions -> Nat] /\ held \in [Sessions -> Nat]
    BY DEF IInv, TypeOK
  <2>2. ASSUME NEW t \in alloc
        PROVE  /\ refs[t] >= 1
               /\ refs[t] >= held[t] + (IF t \in busy THEN 1 ELSE 0)
                                     + (IF t \in Listed' THEN 1 ELSE 0)
    <3>1. /\ refs[t] \in Nat /\ held[t] \in Nat /\ refs[t] >= 1
          /\ refs[t] >= held[t] + (IF t \in busy THEN 1 ELSE 0)
                                + (IF t \in Listed THEN 1 ELSE 0)
      BY <2>1 DEF IInv, Counted
    <3> QED
      BY <1>10, <3>1
  <2> QED
    BY <1>1, <1>3, <2>2 DEF Counted
<1> QED
  BY <1>9, <1>11, <1>12, <1>13 DEF IInv

\* The strengthening is inductive: the counter of a session is at least the
\* number of those that hold it, so the last of them frees it and no other.
LEMMA InvStep == IInv /\ [Next]_vars => IInv'
<1> SUFFICES ASSUME IInv, [Next]_vars PROVE IInv'
  OBVIOUS
<1>1. ASSUME NEW s \in Sessions, NewInvite(s) \/ NewLeelen(s)
      PROVE  IInv'
  BY <1>1, NewStep
<1>2. ASSUME NEW s \in Sessions, RefusedLeelen(s)
      PROVE  IInv'
  BY <1>2, RefusedStep
<1>3. ASSUME NEW s \in Sessions,
             Request(s) \/ Message(s) \/ StartWorker(s) \/ EndWorker(s) \/ Expire(s)
      PROVE  IInv'
  BY <1>3, QuietStep
<1>4. ASSUME NEW s \in Sessions, Kill(s)
      PROVE  IInv'
  BY <1>4, KillStep
<1>5. ASSUME NEW s \in Sessions, Remove(s)
      PROVE  IInv'
  BY <1>5, RemoveStep
<1>6. CASE StartSweep \/ Pass \/ EndSweep
  BY <1>6, SweepStep
<1>7. CASE UNCHANGED vars
  BY <1>7 DEF vars, IInv, TypeOK, ArrayIsSound, HoldersAreSafe, Counted, Listed
<1> QED
  BY <1>1, <1>2, <1>3, <1>4, <1>5, <1>6, <1>7 DEF Next

\* The variables keep their types, however many sessions there are.
THEOREM TypeCorrect == Spec => []TypeOK
<1>1. IInv => TypeOK
  BY DEF IInv
<1> QED
  BY InitInv, InvStep, <1>1, PTL DEF Spec

\* SIPLeelen.sessions never holds a pointer to a freed session, nor two to
\* the same one, although ptrvshrink() (array.h:52) cuts off one element too
\* many and a session is freed by its address (sipleelen.c:94).
THEOREM ArrayAlwaysSound == Spec => []ArrayIsSound
<1>1. IInv => ArrayIsSound
  BY DEF IInv
<1> QED
  BY InitInv, InvStep, <1>1, PTL DEF Spec

\* No transaction and no worker is left with a pointer to a freed session,
\* whatever the order in which callbacks, workers and the sweep give their
\* references back (sipleelen.c:131, transaction.c:152, session.c:239).
THEOREM HoldersAlwaysSafe == Spec => []HoldersAreSafe
<1>1. IInv => HoldersAreSafe
  BY DEF IInv
<1> QED
  BY InitInv, InvStep, <1>1, PTL DEF Spec
---------------------------------------------------------------------------
(* The sweep.                                                               *)

\* What the sweep has still to come to is not behind it.
SweepInv ==
    /\ at = 0 => due = {}
    /\ \A i \in 1 .. Len(sessions) : sessions[i] \in due => i >= at

LEMMA InitSweep == Init => SweepInv
BY DEF Init, SweepInv

LEMMA NextSweep == IInv /\ SweepInv /\ [Next]_vars => SweepInv'
<1> SUFFICES ASSUME IInv, SweepInv, [Next]_vars PROVE SweepInv'
  OBVIOUS
<1>t. at \in Nat /\ due \subseteq Sessions /\ sessions \in Seq(Sessions \cup {Null}) /\ Null \notin due
  BY TableAssumption DEF TableAssumption, IInv, TypeOK
<1>1. ASSUME NEW s \in Sessions,
             \/ NewInvite(s) \/ NewLeelen(s) \/ RefusedLeelen(s) \/ Request(s) \/ Message(s)
             \/ StartWorker(s) \/ Kill(s)
      PROVE  SweepInv'
  <2>1. due = {} /\ due' = {}
    BY <1>1 DEF NewInvite, NewLeelen, RefusedLeelen, Request, Message, StartWorker, Kill, Idle,
                SweepInv
  <2> QED
    BY <2>1 DEF SweepInv
<1>2. ASSUME NEW s \in Sessions, EndWorker(s) PROVE SweepInv'
  BY <1>2 DEF EndWorker, SweepInv
<1>3. ASSUME at' = at + 1, at \in 1 .. Len(sessions), due' \subseteq due \ {sessions[at]},
             sessions' = sessions
      PROVE  SweepInv'
  BY <1>t, <1>3 DEF SweepInv
<1>4. ASSUME NEW s \in Sessions, Expire(s) PROVE SweepInv'
  BY <1>3, <1>4 DEF Expire
<1>5. CASE Pass
  BY <1>3, <1>5 DEF Pass
<1>6. ASSUME NEW s \in Sessions, Remove(s) PROVE SweepInv'
  <2>1. /\ at \in 1 .. Len(sessions) /\ sessions' \in ptrvsteal(sessions, at)
        /\ at' = at + 1 /\ due' \subseteq due
    BY <1>6 DEF Remove
  <2>2. Emptied(sessions', sessions, at) /\ sessions' \in Seq(Sessions \cup {Null})
    BY <1>t, <2>1, StealResult
  <2>3. ASSUME NEW i \in 1 .. Len(sessions'), sessions'[i] \in due' PROVE i >= at'
    <3>1. i # at
      BY <1>t, <2>1, <2>2, <2>3 DEF Emptied
    <3>2. i \in 1 .. Len(sessions) /\ sessions[i] \in due
      BY <1>t, <2>1, <2>2, <2>3, <3>1 DEF Emptied
    <3> QED
      BY <1>t, <2>1, <3>1, <3>2 DEF SweepInv
  <2> QED
    BY <1>t, <2>1, <2>3 DEF SweepInv
<1>7. CASE StartSweep
  BY <1>7 DEF StartSweep, SweepInv
<1>8. CASE EndSweep
  BY <1>8 DEF EndSweep, SweepInv
<1>9. CASE UNCHANGED vars
  BY <1>9 DEF vars, SweepInv
<1> QED
  BY <1>1, <1>2, <1>4, <1>5, <1>6, <1>7, <1>8, <1>9 DEF Next

\* The sweep comes to every session that stays in the array, although it takes
\* elements out and cuts the array off under itself (sipleelen.c:424).
THEOREM SweepIsComplete == Spec => []SweepMissesNone
<1>1. IInv /\ SweepInv => SweepMissesNone
  <2> SUFFICES ASSUME IInv, SweepInv, at > Len(sessions), NEW s \in due, s \in Listed
               PROVE  FALSE
    BY DEF SweepMissesNone
  <2>1. PICK i \in 1 .. Len(sessions) : sessions[i] = s
    BY DEF Listed, Entries
  <2> QED
    BY <2>1 DEF SweepInv, IInv, TypeOK
<1> QED
  BY <1>1, InitInv, InvStep, InitSweep, NextSweep, PTL DEF Spec

---------------------------------------------------------------------------
(* The length of the array.                                                 *)

\* A vector grows only when it has no hole.
LEMMA InsertLength ==
    ASSUME NEW S, NEW v \in Seq(S), NEW ele \in S, NEW w \in ptrvinsert(v, ele)
    PROVE  \/ Len(w) = Len(v)
           \/ /\ Len(w) = Len(v) + 1 /\ w[Len(w)] = ele
              /\ \A j \in 1 .. Len(v) : w[j] = v[j] /\ v[j] # Null
<1>1. PICK i \in 1 .. Len(v) + 1 :
         /\ \A j \in 1 .. i - 1 : v[j] # Null
         /\ w = IF i <= Len(v) THEN [v EXCEPT ![i] = ele] ELSE Append(v, ele)
  BY DEF ptrvinsert, ptrvreserve
<1>2. CASE i <= Len(v)
  BY <1>1, <1>2
<1>3. CASE i > Len(v)
  <2>1. w = Append(v, ele) /\ i = Len(v) + 1
    BY <1>1, <1>3
  <2> QED
    BY <1>1, <2>1
<1> QED
  BY <1>2, <1>3

\* A vector without holes in which nothing is twice is as long as it has
\* entries.
LEMMA FullLength ==
    ASSUME NEW S, NEW w \in Seq(S), \A i \in 1 .. Len(w) : w[i] # Null,
           \A i, j \in 1 .. Len(w) : w[i] = w[j] => i = j
    PROVE  Cardinality(Entries(w)) = Len(w)
<1>1. w \in Bijection(1 .. Len(w), Entries(w))
  <2>1. Entries(w) = {w[i] : i \in 1 .. Len(w)}
    BY DEF Entries
  <2>2. w \in [1 .. Len(w) -> Entries(w)]
    BY <2>1
  <2>3. w \in Injection(1 .. Len(w), Entries(w))
    BY <2>2 DEF Injection, IsInjective
  <2>4. w \in Surjection(1 .. Len(w), Entries(w))
    BY <2>1, <2>2 DEF Surjection
  <2> QED
    BY <2>3, <2>4 DEF Bijection
<1>2. Len(w) \in Nat
  OBVIOUS
<1> DEFINE n == Len(w)
<1>3. n \in Int /\ n \in Nat
  BY <1>2
<1>4. ExistsBijection(1 .. n, Entries(w))
  BY <1>1 DEF ExistsBijection
<1> HIDE DEF n
<1>5. IsFiniteSet(1 .. n) /\ Cardinality(1 .. n) = IF 1 > n THEN 0 ELSE n - 1 + 1
  BY ONLY <1>3, FS_Interval
<1>6. Cardinality(1 .. n) = n
  BY <1>3, <1>5
<1>7. Cardinality(Entries(w)) = Cardinality(1 .. n)
  BY <1>4, <1>5, FS_Bijection
<1> QED
  BY <1>6, <1>7 DEF n

\* peak counts the entries.
LEMMA PeakStep ==
    ASSUME IInv, NEW v \in Seq(Sessions \cup {Null}), Count(v)
    PROVE  /\ peak \in Nat /\ peak' \in Nat /\ peak' >= peak
           /\ Cardinality(Entries(v)) \in Nat => peak' >= Cardinality(Entries(v))
BY PeakType DEF IInv, TypeOK, Count

\* The vector into which a session is put is not longer than the most sessions.
LEMMA InsertPeak ==
    ASSUME IInv, Len(sessions) <= peak, NEW s \in Sessions, s \notin alloc,
           NEW v \in ptrvinsert(sessions, s), Count(v)
    PROVE  Len(v) <= peak' /\ peak' \in Nat /\ v \in Seq(Sessions \cup {Null})
<1>1. sessions \in Seq(Sessions \cup {Null}) /\ s # Null /\ s \in Sessions \cup {Null}
  BY TableAssumption DEF TableAssumption, IInv, TypeOK
<1>2. /\ v \in Seq(Sessions \cup {Null})
      /\ \A i \in 1 .. Len(v) : v[i] # Null => \A j \in 1 .. Len(v) : v[j] = v[i] => j = i
  BY InsertStep
<1>3. /\ peak \in Nat /\ peak' \in Nat /\ peak' >= peak
      /\ Cardinality(Entries(v)) \in Nat => peak' >= Cardinality(Entries(v))
  BY <1>2, PeakStep
<1>4. CASE Len(v) = Len(sessions)
  BY <1>1, <1>2, <1>3, <1>4
<1>5. CASE /\ Len(v) = Len(sessions) + 1 /\ v[Len(v)] = s
           /\ \A j \in 1 .. Len(sessions) : v[j] = sessions[j] /\ sessions[j] # Null
  <2>1. \A i \in 1 .. Len(v) : v[i] # Null
    BY <1>1, <1>5
  <2>2. \A i, j \in 1 .. Len(v) : v[i] = v[j] => i = j
    BY <1>2, <2>1
  <2>3. Cardinality(Entries(v)) = Len(v)
    BY <1>2, <2>1, <2>2, FullLength
  <2> QED
    BY <1>2, <1>3, <2>3
<1> QED
  BY <1>1, <1>4, <1>5, InsertLength

LEMMA NextPeak == IInv /\ HolesAreReused /\ [Next]_vars => HolesAreReused'
<1> SUFFICES ASSUME IInv, Len(sessions) <= peak, [Next]_vars PROVE Len(sessions') <= peak'
  BY DEF HolesAreReused
<1> DEFINE S == Sessions \cup {Null}
<1>t. sessions \in Seq(S) /\ Null \in S /\ peak \in Nat
  BY DEF IInv, TypeOK
<1>1. ASSUME NEW s \in Sessions, NewInvite(s) \/ NewLeelen(s)
      PROVE  Len(sessions') <= peak'
  <2>1. PICK v \in ptrvinsert(sessions, s) : sessions' = v /\ Count(v) /\ s \notin alloc
    BY <1>1 DEF NewInvite, NewLeelen
  <2> QED
    BY <2>1, InsertPeak
<1>2. ASSUME NEW s \in Sessions, RefusedLeelen(s)
      PROVE  Len(sessions') <= peak'
  <2>1. PICK v \in ptrvinsert(sessions, s) :
           sessions' \in ptrvtake(v, s) /\ Count(v) /\ s \notin alloc
    BY <1>2 DEF RefusedLeelen, Free
  <2>2. Len(v) <= peak' /\ peak' \in Nat /\ v \in Seq(S)
    BY <2>1, InsertPeak
  <2>3. s # Null /\ \A k, j \in 1 .. Len(v) : v[k] = s /\ v[j] = s => k = j
    BY <2>1, InsertStep, TableAssumption DEF TableAssumption
  <2>4. sessions' \in Seq(S) /\ Len(sessions') <= Len(v)
    BY <1>t, <2>1, <2>2, <2>3, TakeResult
  <2> QED
    BY <2>2, <2>4
<1>3. ASSUME NEW s \in Sessions, Kill(s)
      PROVE  Len(sessions') <= peak'
  <2>1. peak' = peak /\ (sessions' = sessions \/ sessions' \in ptrvtake(sessions, s))
    BY <1>3 DEF Kill, Free
  <2>2. s # Null /\ \A k, j \in 1 .. Len(sessions) : sessions[k] = s /\ sessions[j] = s => k = j
    BY TableAssumption DEF TableAssumption, IInv, ArrayIsSound
  <2>3. sessions' \in Seq(S) /\ Len(sessions') <= Len(sessions)
    BY <1>t, <2>1, <2>2, TakeResult
  <2> QED
    BY <1>t, <2>1, <2>3
<1>4. ASSUME NEW s \in Sessions, Remove(s)
      PROVE  Len(sessions') <= peak'
  <2>1. at \in 1 .. Len(sessions) /\ sessions' \in ptrvsteal(sessions, at) /\ peak' = peak
    BY <1>4 DEF Remove
  <2>2. sessions' \in Seq(S) /\ Len(sessions') <= Len(sessions)
    BY <1>t, <2>1, StealResult DEF Emptied
  <2> QED
    BY <1>t, <2>1, <2>2
<1>5. ASSUME UNCHANGED <<sessions, peak>>
      PROVE  Len(sessions') <= peak'
  BY <1>5
<1>6. ASSUME NEW s \in Sessions,
             Request(s) \/ Message(s) \/ StartWorker(s) \/ EndWorker(s) \/ Expire(s)
      PROVE  Len(sessions') <= peak'
  BY <1>5, <1>6 DEF Request, Message, StartWorker, EndWorker, Expire
<1>7. CASE StartSweep \/ Pass \/ EndSweep \/ UNCHANGED vars
  BY <1>5, <1>7 DEF StartSweep, Pass, EndSweep, vars
<1> QED
  BY <1>1, <1>2, <1>3, <1>4, <1>6, <1>7 DEF Next

\* SIPLeelen.sessions is never longer than the most sessions it held at once,
\* in whatever order sessions come and go: ptrvreserve() finds the holes.
THEOREM ArrayStaysShort == Spec => []HolesAreReused
<1>1. Init => HolesAreReused
  BY DEF Init, HolesAreReused
<1> QED
  BY <1>1, InitInv, InvStep, NextPeak, PTL DEF Spec
===========================================================================
