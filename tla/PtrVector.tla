----------------------------- MODULE PtrVector -----------------------------
(***************************************************************************)
(* The pointer vectors of utils/array.h, without their terminating NULL: a *)
(* sequence of pointers, some of them Null.  Indices start at 1 here.      *)
(* Functions that search return the set of indices they may stop at, which *)
(* has one element or none; functions that change a vector return the set  *)
(* of vectors they may leave, which has one element.                       *)
(***************************************************************************)
EXTENDS Integers, Sequences

CONSTANT Null

Entries(v) == {v[i] : i \in 1 .. Len(v)} \ {Null}

\* The first element that is `ele'.
ptrvfind(v, ele) ==
    {i \in 1 .. Len(v) : v[i] = ele /\ \A j \in 1 .. i - 1 : v[j] # ele}

\* (mutant: always grows)
ptrvreserveEnd(v) == {Len(v) + 1}

\* The first hole, or a new element at the end.
ptrvreserve(v) ==
    {i \in 1 .. Len(v) + 1 :
        /\ i <= Len(v) => v[i] = Null
        /\ \A j \in 1 .. i - 1 : v[j] # Null}

ptrvinsert(v, ele) ==
    {IF i <= Len(v) THEN [v EXCEPT ![i] = ele] ELSE Append(v, ele) : i \in ptrvreserve(v)}

\* The loop stops at the last element that is not Null, or at the first one;
\* its index becomes the length, so that very element is cut off too.
ptrvshrink(v) ==
    {SubSeq(v, 1, n) :
        n \in {n \in 0 .. Len(v) - 1 :
                 /\ n > 0 => v[n + 1] # Null
                 /\ \A j \in n + 2 .. Len(v) : v[j] = Null}}

\* (mutant: closes the gap)
ptrvstealShift(v, i) == {SubSeq(v, 1, i - 1) \o SubSeq(v, i + 1, Len(v))}

ptrvsteal(v, i) ==
    LET w == [v EXCEPT ![i] = Null]
    IN  IF i = Len(v) THEN ptrvshrink(w) ELSE {w}

ptrvtake(v, ele) ==
    IF ptrvfind(v, ele) = {} THEN {v} ELSE UNION {ptrvsteal(v, i) : i \in ptrvfind(v, ele)}
===========================================================================
