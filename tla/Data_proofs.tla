---------------------------- MODULE Data_proofs ----------------------------
(***************************************************************************)
(* Theorems of NumberText, CommandLine and Addresses: for texts of any     *)
(* length, any number of options and any ports, and any addresses.         *)
(*                                                                         *)
(* The parser of numbers is taken apart into the shapes of text that it    *)
(* distinguishes (InitForms), and so is the list of the forms it should    *)
(* accept (RoomReadings, JoinedReadings, BlockRoomReadings); the two are   *)
(* compared shape by shape.                                                *)
(***************************************************************************)
EXTENDS MCData, FiniteSetTheorems, SequenceTheorems, TLAPS

---------------------------------------------------------------------------
(* What LeelenNumber_init comes to. *)

Char == Digit \cup {Sep}
Strings == Seq(Char)

\* What the parser refuses to look at.
Refused(str) ==
    LET n == Len(str)
        seps == SepsOf(str)
    IN  \/ n = 0 \/ n > MaxText
        \/ 1 \in seps \/ n \in seps
        \/ \E i, j, k \in seps : i < j /\ j < k

LEMMA SepsAreInside ==
    ASSUME NEW str \in Strings, ~ Refused(str)
    PROVE  /\ Len(str) \in 1 .. 11
           /\ SepsOf(str) \subseteq 2 .. Len(str) - 1
           /\ \A i \in 1 .. Len(str) : i \notin SepsOf(str) => str[i] \in Digit
<1>1. Len(str) \in Nat /\ \A i \in 1 .. Len(str) : str[i] \in Char
  BY DEF Strings
<1>2. Len(str) \in 1 .. 11
  <2> DEFINE n == Len(str)
  <2>1. n \in Nat /\ ~ (n = 0 \/ n > 11)
    BY <1>1 DEF Refused, MaxText
  <2> HIDE DEF n
  <2>2. n \in 1 .. 11
    BY <2>1
  <2> QED
    BY <2>2 DEF n
<1>3. 1 \notin SepsOf(str) /\ Len(str) \notin SepsOf(str)
  BY DEF Refused
<1> QED
  BY <1>1, <1>2, <1>3 DEF SepsOf, Char

LEMMA SepsAreFew ==
    ASSUME NEW str \in Strings, ~ Refused(str), SepsOf(str) # {}
    PROVE  LET seps == SepsOf(str)
               least == CHOOSE i \in seps : \A k \in seps : i <= k
               most == CHOOSE i \in seps : \A k \in seps : k <= i
           IN  least \in seps /\ most \in seps /\ least <= most /\ seps = {least, most}
<1> DEFINE seps == SepsOf(str)
           least == CHOOSE i \in seps : \A k \in seps : i <= k
           most == CHOOSE i \in seps : \A k \in seps : k <= i
<1>1. seps \subseteq 1 .. 11
  <2> DEFINE n == Len(str)
  <2>1. n \in 1 .. 11 /\ seps \subseteq 2 .. n - 1
    BY SepsAreInside
  <2> HIDE DEF n, seps
  <2> QED
    BY <2>1
<1>2. ~ \E i, j, k \in seps : i < j /\ j < k
  BY DEF Refused
<1>3. PICK a \in seps, b \in seps : seps = {a, b} /\ a <= b
  <2>1. PICK a \in seps : TRUE
    OBVIOUS
  <2>2. CASE seps = {a}
    BY <1>1, <2>2
  <2>3. ASSUME NEW b \in seps, b # a, ~ \E c, d \in seps : seps = {c, d} /\ c <= d
        PROVE  FALSE
    <3>1. PICK c \in seps : c # a /\ c # b
      <4>1. a <= b \/ b <= a
        BY <1>1, <2>3
      <4> QED
        BY <2>3, <4>1
    <3> QED
      BY <1>1, <1>2, <2>3, <3>1
  <2> QED
    BY <2>1, <2>2, <2>3
<1>4. \A k \in seps : a <= k /\ k <= b
  BY <1>1, <1>3
<1>5. least \in seps /\ \A k \in seps : least <= k
  BY <1>3, <1>4
<1>6. most \in seps /\ \A k \in seps : k <= most
  BY <1>3, <1>4
<1>7. least = a /\ most = b
  <2> HIDE DEF least, most
  <2> QED
    BY <1>1, <1>3, <1>4, <1>5, <1>6
<1> QED
  BY <1>3, <1>7

\* The shapes of text that the parser distinguishes, and what it does about them.
InitForms(dest, str, base) ==
    LET n == Len(str)
        seps == SepsOf(str)
        result == LeelenNumber_init(dest, str, base)
    IN  \/ Refused(str) /\ result = Failed(dest, 1)
        \/ ~ Refused(str) /\ seps = {} /\ result = Digits(dest, str, base, n, Nul)
        \/ /\ ~ Refused(str) /\ seps = {n - 1}
           /\ result = IF n - 2 <= 4 \/ n - 2 = 8
                       THEN Digits(dest, str, base, n - 2, str[n]) ELSE Failed(dest, 1)
        \/ \E i \in 2 .. n - 1 :
             /\ ~ Refused(str) /\ seps = {i} /\ i # n - 1
             /\ result = BlockRoom(dest, str, i, n + 1, Nul)
        \/ \E i, j \in 2 .. n - 1 :
             /\ ~ Refused(str) /\ seps = {i, j} /\ i < j
             /\ result = IF i + 1 = j \/ j # n - 1 THEN Failed(dest, 1)
                         ELSE BlockRoom(dest, str, i, j, str[n])

LEMMA InitCases ==
    ASSUME NEW dest, NEW str \in Strings, NEW base
    PROVE  InitForms(dest, str, base)
<1> USE DEF InitForms
<1>1. CASE Refused(str)
  BY <1>1 DEF Refused, LeelenNumber_init
<1>2. CASE ~ Refused(str) /\ SepsOf(str) = {}
  BY <1>2 DEF Refused, LeelenNumber_init
<1>3. CASE ~ Refused(str) /\ SepsOf(str) # {}
  <2> DEFINE n == Len(str)
             seps == SepsOf(str)
             least == CHOOSE i \in seps : \A k \in seps : i <= k
             most == CHOOSE i \in seps : \A k \in seps : k <= i
  <2>1. least \in seps /\ most \in seps /\ least <= most /\ seps = {least, most}
    BY <1>3, SepsAreFew
  <2>2. LeelenNumber_init(dest, str, base) =
          IF least = most
          THEN IF least # n - 1
               THEN BlockRoom(dest, str, least, n + 1, Nul)
               ELSE IF n - 2 <= 4 \/ n - 2 = 8
                    THEN Digits(dest, str, base, n - 2, str[n])
                    ELSE Failed(dest, 1)
          ELSE IF least + 1 = most \/ most # n - 1 THEN Failed(dest, 1)
               ELSE BlockRoom(dest, str, least, most, str[n])
    BY <1>3 DEF Refused, LeelenNumber_init
  <2>3. seps \subseteq 2 .. n - 1 /\ n \in 1 .. 11
    BY <1>3, SepsAreInside
  <2> HIDE DEF least, most, n
  <2>4. CASE least = most /\ least = n - 1
    BY <1>3, <2>1, <2>2, <2>4 DEF n
  <2>5. CASE least = most /\ least # n - 1
    BY <1>3, <2>1, <2>2, <2>3, <2>5 DEF n
  <2>6. CASE least # most
    <3>1. least < most
      BY <2>1, <2>3, <2>6
    <3> QED
      BY <1>3, <2>1, <2>2, <2>3, <3>1 DEF n
  <2> QED
    BY <2>4, <2>5, <2>6
<1> QED
  BY <1>1, <1>2, <1>3

LEMMA PaddedIsFour ==
    ASSUME NEW str, NEW from \in Nat, NEW len \in 0 .. 4,
           \A k \in from + 1 .. from + len : str[k] \in Digit
    PROVE  Padded(str, from, len) \in Four
<1> SUFFICES ASSUME NEW i \in 1 .. 4
             PROVE  (IF i <= 4 - len THEN 0 ELSE str[from + i - (4 - len)]) \in Digit
  BY DEF Padded, Four
<1>1. CASE i <= 4 - len
  BY <1>1 DEF Digit
<1>2. CASE ~ (i <= 4 - len)
  <2>1. from + i - (4 - len) \in from + 1 .. from + len
    BY <1>2
  <2> QED
    BY <1>2, <2>1
<1> QED
  BY <1>1, <1>2

\* What the parser may come to: a failure that leaves the memory alone, or a
\* number with all of its digits.
Outcomes(dest) ==
    {Failed(dest, 1), Failed(dest, 2)}
        \cup {Done(dest, n.block, n.room, n.extension) : n \in Numbers}

LEMMA DoneIsOutcome ==
    ASSUME NEW dest, NEW block \in Four, NEW room \in Four, NEW extension \in Digit \cup {Nul}
    PROVE  Done(dest, block, room, extension) \in Outcomes(dest)
<1> DEFINE n == [block |-> block, room |-> room, sep2 |-> Nul, extension |-> extension]
<1>1. n \in Numbers
  BY DEF Numbers
<1>2. Done(dest, block, room, extension) = Done(dest, n.block, n.room, n.extension)
  OBVIOUS
<1> HIDE DEF n
<1> QED
  BY <1>1, <1>2 DEF Outcomes

LEMMA InitOutcome ==
    ASSUME NEW dest, NEW str \in Strings, NEW base \in SUBSET Numbers
    PROVE  LeelenNumber_init(dest, str, base) \in Outcomes(dest)
<1> DEFINE n == Len(str)
           seps == SepsOf(str)
           result == LeelenNumber_init(dest, str, base)
<1>1. n \in Nat
  BY DEF Strings
<1>2. ~ Refused(str) => /\ n \in 1 .. 11 /\ seps \subseteq 2 .. n - 1
                        /\ \A i \in 1 .. n : i \notin seps => str[i] \in Digit
  BY SepsAreInside
<1>d. ASSUME NEW len \in 1 .. n, NEW extension \in Digit \cup {Nul},
             \A k \in 1 .. len : str[k] \in Digit
      PROVE  Digits(dest, str, base, len, extension) \in Outcomes(dest)
  <2> HIDE DEF n, seps
  <2>1. \A code \in {1, 2} : Failed(dest, code) \in Outcomes(dest)
    BY DEF Outcomes
  <2>2. CASE len <= 5 /\ base # {}
    <3>1. PICK b \in base : b = CHOOSE c \in base : TRUE
      BY <2>2
    <3>2. b.block \in Four
      BY <3>1 DEF Numbers
    <3>3. len <= 4 => Padded(str, 0, len) \in Four
      BY <1>1, <1>d, PaddedIsFour
    <3>4. len = 5 => Padded(str, 0, 4) \in Four /\ str[5] \in Digit
      BY <1>1, <1>d, PaddedIsFour
    <3>5. Digits(dest, str, base, len, extension)
            = IF len <= 4 THEN Done(dest, b.block, Padded(str, 0, len), extension)
              ELSE Done(dest, b.block, Padded(str, 0, 4), str[5])
      BY <2>2, <3>1 DEF Digits
    <3> QED
      BY <1>1, <2>2, <3>2, <3>3, <3>4, <3>5, DoneIsOutcome
  <2>3. CASE len \in {8, 9}
    <3>1. Padded(str, 0, 4) \in Four /\ Padded(str, 4, 4) \in Four
      BY <1>1, <1>d, <2>3, PaddedIsFour
    <3>2. len = 9 => str[9] \in Digit
      BY <1>d
    <3> QED
      BY <2>3, <3>1, <3>2, DoneIsOutcome DEF Digits
  <2> QED
    BY <1>1, <2>1, <2>2, <2>3 DEF Digits
<1>b. ASSUME NEW i \in 2 .. n, NEW j \in 2 .. n + 1, i < j, NEW extension \in Digit \cup {Nul},
             \A k \in 1 .. i - 1 : str[k] \in Digit, \A k \in i + 1 .. j - 1 : str[k] \in Digit
      PROVE  BlockRoom(dest, str, i, j, extension) \in Outcomes(dest)
  <2> HIDE DEF n, seps
  <2>1. CASE i - 1 > 4 \/ j - i - 1 > 4
    BY <2>1 DEF BlockRoom, Outcomes
  <2>2. CASE i - 1 <= 4 /\ j - i - 1 <= 4
    <3>1. Padded(str, 0, i - 1) \in Four
      BY <1>1, <1>b, <2>2, PaddedIsFour
    <3>2. Padded(str, i, j - i - 1) \in Four
      BY <1>1, <1>b, <2>2, PaddedIsFour
    <3> QED
      BY <1>1, <2>2, <3>1, <3>2, DoneIsOutcome DEF BlockRoom
  <2> QED
    BY <1>1, <2>1, <2>2
<1>3. CASE result = Failed(dest, 1)
  BY <1>3 DEF Outcomes
<1>4. CASE ~ Refused(str) /\ seps = {} /\ result = Digits(dest, str, base, n, Nul)
  <2> HIDE DEF n, seps
  <2>1. n \in 1 .. n /\ \A k \in 1 .. n : str[k] \in Digit
    BY <1>2, <1>4
  <2> QED
    BY <1>d, <1>4, <2>1
<1>5. CASE ~ Refused(str) /\ seps = {n - 1} /\ result = Digits(dest, str, base, n - 2, str[n])
  <2> HIDE DEF n, seps
  <2>1. n - 2 \in 1 .. n /\ \A k \in 1 .. n - 2 : str[k] \in Digit
    BY <1>2, <1>5
  <2>2. str[n] \in Digit
    BY <1>2, <1>5
  <2> QED
    BY <1>d, <1>5, <2>1, <2>2
<1>6. ASSUME NEW i \in 2 .. n - 1, ~ Refused(str), seps = {i},
             result = BlockRoom(dest, str, i, n + 1, Nul)
      PROVE  result \in Outcomes(dest)
  <2> HIDE DEF n, seps
  <2> QED
    BY <1>1, <1>2, <1>b, <1>6
<1>7. ASSUME NEW i \in 2 .. n - 1, NEW j \in 2 .. n - 1, ~ Refused(str), seps = {i, j}, i < j,
             result = BlockRoom(dest, str, i, j, str[n])
      PROVE  result \in Outcomes(dest)
  <2> HIDE DEF n, seps
  <2>1. str[n] \in Digit
    BY <1>1, <1>2, <1>7
  <2>2. \A k \in 1 .. i - 1 : str[k] \in Digit
    BY <1>1, <1>2, <1>7
  <2>3. \A k \in i + 1 .. j - 1 : str[k] \in Digit
    BY <1>1, <1>2, <1>7
  <2> QED
    BY <1>1, <1>b, <1>7, <2>1, <2>2, <2>3
<1>8. \/ result = Failed(dest, 1)
      \/ ~ Refused(str) /\ seps = {} /\ result = Digits(dest, str, base, n, Nul)
      \/ ~ Refused(str) /\ seps = {n - 1} /\ result = Digits(dest, str, base, n - 2, str[n])
      \/ \E i \in 2 .. n - 1 :
            ~ Refused(str) /\ seps = {i} /\ result = BlockRoom(dest, str, i, n + 1, Nul)
      \/ \E i, j \in 2 .. n - 1 :
            /\ ~ Refused(str) /\ seps = {i, j} /\ i < j
            /\ result = BlockRoom(dest, str, i, j, str[n])
  <2>1. InitForms(dest, str, base)
    BY InitCases
  <2> QED
    BY <2>1 DEF InitForms
<1> QED
  <2> HIDE DEF n, seps
  <2> QED
    BY <1>3, <1>4, <1>5, <1>6, <1>7, <1>8

\* What the parser leaves in memory is a number of the form XXXX-XXXX or
\* XXXX-XXXX-X.
LEMMA InitIsNumber ==
    ASSUME NEW dest \in Numbers, NEW str \in Strings, NEW base \in SUBSET Numbers
    PROVE  LeelenNumber_init(dest, str, base).number \in Numbers
<1>1. \A r \in Outcomes(dest) : r.number \in Numbers
  BY DEF Outcomes, Failed, Done, Stored, Numbers
<1> QED
  BY <1>1, InitOutcome

LEMMA FormerAndBlank == {Blank, Former} \subseteq Numbers
BY DEF Blank, Former, Numbers, Four, Digit, Nul, Sep

TextInv == text \in Strings

LEMMA TextInitInv == TextInit => TextInv
BY DEF TextInit, TextInv, Strings

LEMMA TextStepInv ==
    ASSUME TextInv, [TextNext]_text
    PROVE  TextInv'
<1>1. ASSUME NEW char \in Char, Type(char) PROVE TextInv'
  BY <1>1 DEF TextInv, Type, Strings
<1>2. (Len(text) + 1) % 10 \in Char
  BY DEF TextInv, Strings, Char, Digit
<1>3. Sep \in Char
  BY DEF Char
<1> QED
  BY <1>1, <1>2, <1>3 DEF TextNext, TextInv

LEMMA TextAlways == TextSpec => []TextInv
BY TextInitInv, TextStepInv, PTL DEF TextSpec

\* Whatever is typed, however long, and whatever the memory held before, what
\* the parser leaves there is a number all of whose digits are filled in.
THEOREM NumbersAreFilledIn == TextSpec => []NumberTypeOK
<1>1. TextInv => NumberTypeOK
  <2> SUFFICES ASSUME TextInv, NEW dest \in {Blank, Former}, NEW base \in {{}, {Former}}
               PROVE  LeelenNumber_init(dest, text, base).number \in Numbers
    BY DEF NumberTypeOK, TextInv, Strings, Char, Results
  <2> QED
    BY FormerAndBlank, InitIsNumber DEF TextInv
<1> QED
  BY <1>1, TextAlways, PTL

---------------------------------------------------------------------------
(* Texts of numbers. *)

Printable == {n \in Numbers : n.sep2 = Sep => n.extension \in Digit}

LEMMA FieldIsString ==
    ASSUME NEW f \in Four
    PROVE  f \in Strings /\ Len(f) = 4 /\ (\A i \in 1 .. 4 : f[i] \in Digit)
<1>1. f \in [1 .. 4 -> Char]
  BY DEF Four, Char
<1>2. f \in Strings
  <2>1. f \in UNION {[1 .. k -> Char] : k \in Nat}
    BY <1>1
  <2> QED
    BY <2>1, SeqDef DEF Strings
<1>3. DOMAIN f = 1 .. Len(f) /\ Len(f) \in Nat
  BY <1>2, LenProperties DEF Strings
<1>4. DOMAIN f = 1 .. 4
  BY DEF Four
<1> DEFINE k == Len(f)
<1>5. 1 .. k = 1 .. 4 /\ k \in Nat
  BY <1>3, <1>4
<1> HIDE DEF k
<1>6. k = 4
  <2>1. 4 \in 1 .. k /\ (k > 4 => 5 \in 1 .. k)
    BY <1>5
  <2>2. 5 \notin 1 .. 4
    OBVIOUS
  <2> QED
    BY <1>5, <2>1, <2>2
<1> QED
  BY <1>2, <1>6 DEF Four, k

LEMMA Concatenated ==
    ASSUME NEW f \in Strings, NEW g \in Strings
    PROVE  /\ f \o g \in Strings /\ Len(f \o g) = Len(f) + Len(g)
           /\ Len(f) \in Nat /\ Len(g) \in Nat
           /\ \A i \in 1 .. Len(f) : (f \o g)[i] = f[i]
           /\ \A i \in 1 .. Len(g) : (f \o g)[Len(f) + i] = g[i]
<1>1. /\ f \o g \in Strings /\ Len(f \o g) = Len(f) + Len(g)
      /\ \A i \in 1 .. Len(f) + Len(g) :
            (f \o g)[i] = IF i <= Len(f) THEN f[i] ELSE g[i - Len(f)]
  BY ConcatProperties DEF Strings
<1>2. Len(f) \in Nat /\ Len(g) \in Nat
  BY LenProperties DEF Strings
<1> DEFINE fg == f \o g
           k == Len(f)
           l == Len(g)
<1> HIDE DEF fg, k, l
<1>3. \A i \in 1 .. k + l : fg[i] = IF i <= k THEN f[i] ELSE g[i - k]
  BY <1>1 DEF fg, k, l
<1>4. k \in Nat /\ l \in Nat
  BY <1>2 DEF k, l
<1>5. \A i \in 1 .. k : fg[i] = f[i]
  BY <1>3, <1>4
<1>6. ASSUME NEW i \in 1 .. l PROVE fg[k + i] = g[i]
  <2> DEFINE x == k + i
  <2>1. x \in 1 .. k + l /\ ~ (x <= k) /\ x - k = i
    BY <1>4
  <2> HIDE DEF x
  <2>2. fg[x] = g[x - k]
    BY <1>3, <2>1
  <2> QED
    BY <2>1, <2>2 DEF x
<1> QED
  BY <1>1, <1>2, <1>5, <1>6 DEF fg, k, l

LEMMA StrIsString ==
    ASSUME NEW n \in Printable
    PROVE  /\ Str(n) \in Strings
           /\ Len(Str(n)) = IF n.sep2 = Nul THEN 9 ELSE 11
           /\ \A i \in 1 .. 4 : Str(n)[i] = n.block[i] /\ Str(n)[5 + i] = n.room[i]
           /\ Str(n)[5] = Sep
           /\ n.sep2 # Nul => Str(n)[10] = Sep /\ Str(n)[11] = n.extension
<1> DEFINE b == n.block
           r == n.room
           tail == IF n.sep2 = Nul THEN <<>> ELSE <<Sep, n.extension>>
<1>1. b \in Strings /\ Len(b) = 4 /\ r \in Strings /\ Len(r) = 4
  BY FieldIsString DEF Printable, Numbers
<1>2. <<Sep>> \in Strings /\ Len(<<Sep>>) = 1 /\ <<Sep>>[1] = Sep
  BY DEF Strings, Char
<1>3. /\ tail \in Strings
      /\ Len(tail) = IF n.sep2 = Nul THEN 0 ELSE 2
      /\ n.sep2 # Nul => tail[1] = Sep /\ tail[2] = n.extension
  <2>1. CASE n.sep2 = Nul
    BY <2>1 DEF Strings
  <2>2. CASE n.sep2 # Nul
    <3>1. Sep \in Char /\ n.extension \in Char
      BY <2>2 DEF Char, Printable, Numbers
    <3> QED
      BY <2>2, <3>1 DEF Strings
  <2> QED
    BY <2>1, <2>2
<1>4. Str(n) = ((b \o <<Sep>>) \o r) \o tail
  BY DEF Str
<1> HIDE DEF b, r, tail
<1> DEFINE p == b \o <<Sep>>
           q == p \o r
<1>5. /\ p \in Strings /\ Len(p) = 5
      /\ \A i \in 1 .. 4 : p[i] = b[i]
      /\ p[5] = Sep
  <2> DEFINE c == <<Sep>>
  <2>1. c \in Strings /\ Len(c) = 1 /\ c[1] = Sep
    BY <1>2
  <2> HIDE DEF c
  <2>2. /\ b \o c \in Strings /\ Len(b \o c) = Len(b) + Len(c)
        /\ \A i \in 1 .. Len(b) : (b \o c)[i] = b[i]
        /\ \A i \in 1 .. Len(c) : (b \o c)[Len(b) + i] = c[i]
    BY <1>1, <2>1, Concatenated
  <2>3. p = b \o c
    BY DEF c
  <2> HIDE DEF p
  <2>4. \A i \in 1 .. 1 : p[4 + i] = c[i]
    BY <1>1, <2>1, <2>2, <2>3
  <2>5. p[4 + 1] = Sep
    BY <2>1, <2>4
  <2> QED
    BY <1>1, <2>1, <2>2, <2>3, <2>5
<1> HIDE DEF p
<1>6. /\ q \in Strings /\ Len(q) = 9
      /\ \A i \in 1 .. 5 : q[i] = p[i]
      /\ \A i \in 1 .. 4 : q[5 + i] = r[i]
  <2>1. /\ p \o r \in Strings /\ Len(p \o r) = Len(p) + Len(r)
        /\ \A i \in 1 .. Len(p) : (p \o r)[i] = p[i]
        /\ \A i \in 1 .. Len(r) : (p \o r)[Len(p) + i] = r[i]
    BY <1>1, <1>5, Concatenated
  <2> HIDE DEF q
  <2>2. q = p \o r
    BY DEF q
  <2> QED
    BY <1>1, <1>5, <2>1, <2>2
<1> HIDE DEF q
<1>7. /\ q \o tail \in Strings /\ Len(q \o tail) = IF n.sep2 = Nul THEN 9 ELSE 11
      /\ \A i \in 1 .. 9 : (q \o tail)[i] = q[i]
      /\ n.sep2 # Nul => (q \o tail)[10] = tail[1] /\ (q \o tail)[11] = tail[2]
  <2>1. /\ q \o tail \in Strings /\ Len(q \o tail) = Len(q) + Len(tail)
        /\ \A i \in 1 .. Len(q) : (q \o tail)[i] = q[i]
        /\ \A i \in 1 .. Len(tail) : (q \o tail)[Len(q) + i] = tail[i]
    BY <1>3, <1>6, Concatenated
  <2> DEFINE t == q \o tail
  <2>2. t = q \o tail
    OBVIOUS
  <2> HIDE DEF t
  <2>3. n.sep2 # Nul => \A i \in 1 .. 2 : t[9 + i] = tail[i]
    BY <1>3, <1>6, <2>1, <2>2
  <2>4. n.sep2 # Nul => t[10] = tail[1] /\ t[11] = tail[2]
    BY <2>3
  <2>5. t \in Strings /\ Len(t) = IF n.sep2 = Nul THEN 9 ELSE 11
    BY <1>3, <1>6, <2>1, <2>2
  <2>6. \A i \in 1 .. 9 : t[i] = q[i]
    BY <1>6, <2>1, <2>2
  <2>7. /\ t \in Strings /\ Len(t) = IF n.sep2 = Nul THEN 9 ELSE 11
        /\ \A i \in 1 .. 9 : t[i] = q[i]
        /\ n.sep2 # Nul => t[10] = tail[1] /\ t[11] = tail[2]
    BY <2>4, <2>5, <2>6
  <2> QED
    BY <2>7 DEF t
<1>8. Str(n) = q \o tail
  BY <1>4 DEF q, p
<1> DEFINE s == Str(n)
<1>9. /\ s \in Strings
      /\ Len(s) = IF n.sep2 = Nul THEN 9 ELSE 11
      /\ \A i \in 1 .. 9 : s[i] = q[i]
      /\ n.sep2 # Nul => s[10] = Sep /\ s[11] = n.extension
  BY <1>3, <1>7, <1>8
<1> HIDE DEF s
<1>10. \A i \in 1 .. 4 : s[i] = b[i] /\ s[5 + i] = r[i]
  BY <1>5, <1>6, <1>9
<1>11. s[5] = Sep
  BY <1>5, <1>6, <1>9
<1> QED
  BY <1>9, <1>10, <1>11 DEF s, b, r

LEMMA SepsOfStr ==
    ASSUME NEW n \in Printable
    PROVE  /\ SepsOf(Str(n)) = IF n.sep2 = Nul THEN {5} ELSE {5, 10}
           /\ ~ Refused(Str(n))
<1> DEFINE s == Str(n)
           k == IF n.sep2 = Nul THEN 9 ELSE 11
<1>1. /\ s \in Strings /\ Len(s) = k
      /\ \A i \in 1 .. 4 : s[i] = n.block[i] /\ s[5 + i] = n.room[i]
      /\ s[5] = Sep
      /\ n.sep2 # Nul => s[10] = Sep /\ s[11] = n.extension
  BY StrIsString
<1>2. \A i \in 1 .. 4 : n.block[i] \in Digit /\ n.room[i] \in Digit
  BY FieldIsString DEF Printable, Numbers
<1>3. n.sep2 # Nul => n.extension \in Digit
  BY DEF Printable, Numbers
<1> HIDE DEF s
<1>4. \A i \in {1, 2, 3, 4} : s[i] # Sep /\ s[5 + i] # Sep
  BY <1>1, <1>2 DEF Digit, Sep
<1>5. s[6] # Sep /\ s[7] # Sep /\ s[8] # Sep /\ s[9] # Sep
  <2>1. s[5 + 1] # Sep /\ s[5 + 2] # Sep /\ s[5 + 3] # Sep /\ s[5 + 4] # Sep
    BY <1>4
  <2> QED
    BY <2>1
<1>6. n.sep2 # Nul => s[11] # Sep
  BY <1>1, <1>3 DEF Digit, Sep
<1>7. SepsOf(s) = {i \in 1 .. k : s[i] = Sep}
  BY <1>1 DEF SepsOf
<1>8. CASE n.sep2 = Nul
  <2>1. \A i \in 1 .. 9 : s[i] = Sep <=> i = 5
    BY <1>1, <1>4, <1>5
  <2>2. SepsOf(s) = {5}
    BY <1>7, <1>8, <2>1
  <2> QED
    BY <1>1, <1>8, <2>2 DEF Refused, MaxText, s
<1>9. CASE n.sep2 # Nul
  <2>1. \A i \in 1 .. 11 : s[i] = Sep <=> i \in {5, 10}
    BY <1>1, <1>4, <1>5, <1>6, <1>9
  <2>2. SepsOf(s) = {5, 10}
    BY <1>7, <1>9, <2>1
  <2> QED
    BY <1>1, <1>9, <2>2 DEF Refused, MaxText, s
<1> QED
  BY <1>8, <1>9

\* A number that was printed is parsed into its block, its room and its
\* extension, whatever the memory and the base.
LEMMA StrIsParsed ==
    ASSUME NEW n \in Printable, NEW dest, NEW base
    PROVE  LeelenNumber_init(dest, Str(n), base)
             = Done(dest, n.block, n.room, IF n.sep2 = Nul THEN Nul ELSE n.extension)
<1> DEFINE s == Str(n)
           result == LeelenNumber_init(dest, s, base)
<1>1. /\ s \in Strings /\ Len(s) = IF n.sep2 = Nul THEN 9 ELSE 11
      /\ \A i \in 1 .. 4 : s[i] = n.block[i] /\ s[5 + i] = n.room[i]
      /\ n.sep2 # Nul => s[11] = n.extension
  BY StrIsString
<1>2. SepsOf(s) = (IF n.sep2 = Nul THEN {5} ELSE {5, 10}) /\ ~ Refused(s)
  BY SepsOfStr
<1>3. Padded(s, 0, 4) = n.block
  <2>1. n.block = [i \in 1 .. 4 |-> n.block[i]]
    BY DEF Printable, Numbers, Four
  <2>2. \A i \in 1 .. 4 : s[0 + i - (4 - 4)] = n.block[i] /\ ~ (i <= 4 - 4)
    BY <1>1
  <2> HIDE DEF s
  <2>3. Padded(s, 0, 4) = [i \in 1 .. 4 |-> n.block[i]]
    BY <2>2 DEF Padded
  <2> QED
    BY <2>1, <2>3
<1>4. Padded(s, 5, 4) = n.room
  <2>1. n.room = [i \in 1 .. 4 |-> n.room[i]]
    BY DEF Printable, Numbers, Four
  <2>2. \A i \in 1 .. 4 : s[5 + i - (4 - 4)] = n.room[i] /\ ~ (i <= 4 - 4)
    BY <1>1
  <2> HIDE DEF s
  <2>3. Padded(s, 5, 4) = [i \in 1 .. 4 |-> n.room[i]]
    BY <2>2 DEF Padded
  <2> QED
    BY <2>1, <2>3
<1>5. \A e : BlockRoom(dest, s, 5, 10, e) = Done(dest, n.block, n.room, e)
  <2> HIDE DEF s
  <2>1. 5 - 1 = 4 /\ 10 - 5 - 1 = 4 /\ ~ (4 > 4)
    OBVIOUS
  <2>2. \A e : BlockRoom(dest, s, 5, 10, e) = Done(dest, Padded(s, 0, 4), Padded(s, 5, 4), e)
    BY <2>1, SMTT(30) DEF BlockRoom
  <2> QED
    BY <1>3, <1>4, <2>2
<1> DEFINE k == Len(s)
           seps == SepsOf(s)
<1>6. InitForms(dest, s, base)
  BY <1>1, InitCases
<1> HIDE DEF s, result, k, seps
<1>7. CASE n.sep2 = Nul
  <2>1. k = 9 /\ seps = {5}
    BY <1>1, <1>2, <1>7 DEF k, seps
  <2>2. /\ ~ Refused(s) /\ {5} # {} /\ {5} # {9 - 1}
        /\ \A i, j \in 2 .. 9 - 1 : i < j => {5} # {i, j}
    BY <1>2
  <2>3. \E i \in 2 .. 9 - 1 : {5} = {i} /\ result = BlockRoom(dest, s, i, 9 + 1, Nul)
    BY <1>6, <2>1, <2>2, SMTT(30) DEF InitForms, k, seps, result
  <2>4. result = BlockRoom(dest, s, 5, 10, Nul)
    <3>1. PICK i \in 2 .. 9 - 1 : {5} = {i} /\ result = BlockRoom(dest, s, i, 9 + 1, Nul)
      BY <2>3
    <3>2. i = 5 /\ 9 + 1 = 10
      BY <3>1
    <3> QED
      BY <3>1, <3>2
  <2> QED
    BY <1>5, <1>7, <2>4 DEF result, s
<1>8. CASE n.sep2 # Nul
  <2>1. k = 11 /\ seps = {5, 10}
    BY <1>1, <1>2, <1>8 DEF k, seps
  <2>a. seps # {} /\ \A i : seps # {i}
    BY <2>1
  <2>b. \E i, j \in 2 .. k - 1 :
          /\ seps = {i, j} /\ i < j
          /\ result = IF i + 1 = j \/ j # k - 1 THEN Failed(dest, 1)
                      ELSE BlockRoom(dest, s, i, j, s[k])
    BY <1>2, <1>6, <2>a DEF InitForms, k, seps, result
  <2>2. PICK i \in 2 .. 10, j \in 2 .. 10 :
          /\ {5, 10} = {i, j} /\ i < j
          /\ result = IF i + 1 = j \/ j # 10 THEN Failed(dest, 1)
                      ELSE BlockRoom(dest, s, i, j, s[11])
    BY <2>1, <2>b
  <2>3. i = 5 /\ j = 10
    BY <2>2
  <2> QED
    BY <1>1, <1>5, <1>8, <2>2, <2>3 DEF result, s
<1> QED
  BY <1>7, <1>8

\* Numbers parsed into memory that was zero.
Tidy == {n \in Numbers : n.sep2 = Nul <=> n.extension = Nul}

LEMMA OutcomeIsPrintable ==
    ASSUME NEW dest \in Printable, NEW r \in Outcomes(dest)
    PROVE  r.number \in Printable
BY DEF Printable, Outcomes, Done, Stored, Failed, Numbers, Digit, Nul, Sep

LEMMA OutcomeIsTidy ==
    ASSUME NEW r \in Outcomes(Blank), r.ret = 0
    PROVE  r.number \in Tidy
BY DEF Tidy, Outcomes, Blank, Done, Stored, Failed, Numbers, Digit, Nul, Sep

LEMMA TidyIsPrintable == Tidy \subseteq Printable
BY DEF Tidy, Printable, Numbers, Digit, Nul, Sep

LEMMA StrIsStable ==
    ASSUME NEW n \in Printable, NEW base
    PROVE  LeelenNumber_init(n, Str(n), base) = [ret |-> 0, number |-> n]
<1>1. LeelenNumber_init(n, Str(n), base)
        = Done(n, n.block, n.room, IF n.sep2 = Nul THEN Nul ELSE n.extension)
  BY StrIsParsed
<1>2. Stored(n, n.block, n.room, IF n.sep2 = Nul THEN Nul ELSE n.extension) = n
  BY DEF Stored, Printable, Numbers, Digit, Nul, Sep
<1> QED
  BY <1>1, <1>2 DEF Done

\* A field and the number it spells.
LEMMA FieldIsTuple ==
    ASSUME NEW f \in Four
    PROVE  /\ f = <<f[1], f[2], f[3], f[4]>>
           /\ f[1] \in 0 .. 9 /\ f[2] \in 0 .. 9 /\ f[3] \in 0 .. 9 /\ f[4] \in 0 .. 9
<1>1. /\ f[1] \in 0 .. 9 /\ f[2] \in 0 .. 9 /\ f[3] \in 0 .. 9 /\ f[4] \in 0 .. 9
  BY DEF Four, Digit
<1>2. f = [i \in 1 .. 4 |-> f[i]]
  BY DEF Four
<1>3. <<f[1], f[2], f[3], f[4]>> = [i \in 1 .. 4 |-> f[i]]
  OBVIOUS
<1> QED
  BY <1>1, <1>2, <1>3

LEMMA DigitsOfValue ==
    ASSUME NEW a \in 0 .. 9, NEW b \in 0 .. 9, NEW c \in 0 .. 9, NEW d \in 0 .. 9
    PROVE  LET v == 1000 * a + 100 * b + 10 * c + d
           IN  /\ v % 16384 = v
               /\ (v \div 1000) % 10 = a /\ (v \div 100) % 10 = b
               /\ (v \div 10) % 10 = c /\ v % 10 = d
<1> DEFINE v == 1000 * a + 100 * b + 10 * c + d
<1>1. v % 16384 = v
  BY SMTT(30)
<1>2. v \div 1000 = a
  BY SMTT(30)
<1>3. v \div 100 = 10 * a + b
  BY SMTT(30)
<1>4. v \div 10 = 100 * a + 10 * b + c /\ v % 10 = d
  BY SMTT(30)
<1> HIDE DEF v
<1>5. (v \div 1000) % 10 = a
  BY <1>2
<1>6. (v \div 100) % 10 = b
  BY <1>3
<1>7. (v \div 10) % 10 = c
  BY <1>4
<1> QED
  BY <1>1, <1>4, <1>5, <1>6, <1>7 DEF v

LEMMA FieldRoundTrip ==
    ASSUME NEW f \in Four
    PROVE  itoa4(Value(f) % 16384) = f
<1> DEFINE a == f[1]
           b == f[2]
           c == f[3]
           d == f[4]
           v == 1000 * a + 100 * b + 10 * c + d
<1>1. f = <<a, b, c, d>> /\ a \in 0 .. 9 /\ b \in 0 .. 9 /\ c \in 0 .. 9 /\ d \in 0 .. 9
  BY FieldIsTuple
<1>2. Value(f) = v
  BY DEF Value
<1> HIDE DEF a, b, c, d
<1>3. /\ v % 16384 = v
      /\ (v \div 1000) % 10 = a /\ (v \div 100) % 10 = b
      /\ (v \div 10) % 10 = c /\ v % 10 = d
  BY <1>1, DigitsOfValue
<1> HIDE DEF v
<1>4. itoa4(v) = <<a, b, c, d>>
  BY <1>3 DEF itoa4
<1>5. Value(f) % 16384 = v
  BY <1>2, <1>3
<1> QED
  BY <1>1, <1>4, <1>5

LEMMA ByteRoundTrip ==
    ASSUME NEW a \in 0 .. 9, NEW b \in 0 .. 9
    PROVE  byte2int(int2byte(a, b)) = <<a, b>>
<1>1. (10 * a + b) \div 10 = a /\ (10 * a + b) % 10 = b
  OBVIOUS
<1> QED
  BY <1>1 DEF byte2int, int2byte

LEMMA IntKeepsNumber ==
    ASSUME NEW n \in Tidy
    PROVE  LeelenNumber_fromint(n, LeelenNumber_toint(n)) = n
<1>1. /\ n.block \in Four /\ n.room \in Four
      /\ n.sep2 = Nul => n.extension = Nul
      /\ n.sep2 # Nul => n.sep2 = Sep /\ n.extension \in 0 .. 9
      /\ n = [block |-> n.block, room |-> n.room, sep2 |-> n.sep2, extension |-> n.extension]
  BY DEF Tidy, Numbers, Digit
<1>2. itoa4(Value(n.block) % 16384) = n.block /\ itoa4(Value(n.room) % 16384) = n.room
  BY <1>1, FieldRoundTrip
<1> DEFINE e == LeelenNumber_toint(n).extension
<1>3. LeelenNumber_fromint(n, LeelenNumber_toint(n))
        = Stored(n, n.block, n.room, IF e >= 10 THEN Nul ELSE e)
  BY <1>2 DEF LeelenNumber_fromint, LeelenNumber_toint
<1>4. CASE n.sep2 = Nul
  <2>1. e = 15
    BY <1>1, <1>4 DEF LeelenNumber_toint, LeelenNumber_has_extension
  <2> HIDE DEF e
  <2> QED
    BY <1>1, <1>3, <1>4, <2>1 DEF Stored
<1>5. CASE n.sep2 # Nul
  <2>1. e = n.extension % 16 /\ n.extension % 16 = n.extension
    BY <1>1, <1>5 DEF LeelenNumber_toint, LeelenNumber_has_extension
  <2> HIDE DEF e
  <2>2. (IF e >= 10 THEN Nul ELSE e) = n.extension /\ n.extension # Nul
    BY <1>1, <1>5, <2>1 DEF Nul
  <2> QED
    BY <1>1, <1>3, <1>5, <2>2 DEF Stored
<1> QED
  BY <1>4, <1>5

LEMMA TwoPairs ==
    ASSUME NEW a \in Char, NEW b \in Char, NEW c \in Char, NEW d \in Char
    PROVE  <<a, b>> \o <<c, d>> = <<a, b, c, d>>
<1> DEFINE f == <<a, b>>
           g == <<c, d>>
           h == <<a, b, c, d>>
           t == f \o g
<1>1. f \in Strings /\ Len(f) = 2 /\ f[1] = a /\ f[2] = b
  BY DEF Strings
<1>2. g \in Strings /\ Len(g) = 2 /\ g[1] = c /\ g[2] = d
  BY DEF Strings
<1>3. h \in Strings /\ Len(h) = 4 /\ h[1] = a /\ h[2] = b /\ h[3] = c /\ h[4] = d
  BY DEF Strings
<1> HIDE DEF f, g, h
<1>4. /\ t \in Strings /\ Len(t) = Len(f) + Len(g)
      /\ \A i \in 1 .. Len(f) : t[i] = f[i]
      /\ \A i \in 1 .. Len(g) : t[Len(f) + i] = g[i]
  BY <1>1, <1>2, Concatenated
<1> HIDE DEF t
<1>5. /\ Len(t) = 4 /\ (\A i \in 1 .. 2 : t[i] = f[i]) /\ (\A i \in 1 .. 2 : t[2 + i] = g[i])
  BY <1>1, <1>2, <1>4
<1>6. t[1] = a /\ t[2] = b /\ t[3] = c /\ t[4] = d
  BY <1>1, <1>2, <1>5
<1>7. \A i \in 1 .. 4 : t[i] = h[i]
  BY <1>3, <1>6
<1>8. t = h
  BY <1>3, <1>4, <1>5, <1>7, SeqEqual DEF Strings
<1> QED
  BY <1>8 DEF f, g, h, t

LEMMA BytesSwap ==
    ASSUME NEW n \in Tidy
    PROVE  LET Swap(field) == <<field[3], field[4], field[1], field[2]>>
           IN  LeelenNumber_frombytes(n, LeelenNumber_tobytes(n))
                 = [n EXCEPT !.block = Swap(@), !.room = Swap(@)]
<1> DEFINE Swap(field) == <<field[3], field[4], field[1], field[2]>>
<1>1. /\ n.block \in Four /\ n.room \in Four
      /\ n.sep2 = Nul => n.extension = Nul
      /\ n.sep2 # Nul => n.sep2 = Sep /\ n.extension \in 0 .. 9
      /\ n = [block |-> n.block, room |-> n.room, sep2 |-> n.sep2, extension |-> n.extension]
  BY DEF Tidy, Numbers, Digit
<1>2. ASSUME NEW f \in Four
      PROVE  byte2int(Halves(f)[1]) \o byte2int(Halves(f)[2]) = Swap(f)
  <2>1. byte2int(Halves(f)[1]) = <<f[3], f[4]>> /\ byte2int(Halves(f)[2]) = <<f[1], f[2]>>
    BY FieldIsTuple, ByteRoundTrip DEF Halves
  <2>2. {f[1], f[2], f[3], f[4]} \subseteq Char
    BY FieldIsString DEF Char
  <2> QED
    BY <2>1, <2>2, TwoPairs
<1> DEFINE e == IF LeelenNumber_tobytes(n).extension = 255 THEN Nul
                ELSE LeelenNumber_tobytes(n).extension
<1>3. LeelenNumber_frombytes(n, LeelenNumber_tobytes(n))
        = Stored(n, Swap(n.block), Swap(n.room), e)
  BY <1>1, <1>2 DEF LeelenNumber_frombytes, LeelenNumber_tobytes
<1>4. e = n.extension
  BY <1>1 DEF LeelenNumber_tobytes, LeelenNumber_has_extension, Nul, Sep
<1>5. (n.extension = Nul <=> n.sep2 = Nul) /\ (n.sep2 # Nul => n.sep2 = Sep)
  BY <1>1 DEF Nul
<1> HIDE DEF e, Swap
<1>6. Stored(n, Swap(n.block), Swap(n.room), e)
        = [block |-> Swap(n.block), room |-> Swap(n.room), sep2 |-> n.sep2, extension |-> n.extension]
  BY <1>4, <1>5 DEF Stored
<1>7. [n EXCEPT !.block = Swap(@), !.room = Swap(@)]
        = [block |-> Swap(n.block), room |-> Swap(n.room), sep2 |-> n.sep2, extension |-> n.extension]
  <2>1. n \in Numbers
    BY DEF Tidy
  <2>2. Swap(n.block) \in Four /\ Swap(n.room) \in Four
    BY <1>1, FieldIsTuple DEF Swap, Four, Digit
  <2>3. ASSUME NEW b \in Four, NEW r \in Four
        PROVE  [n EXCEPT !.block = b, !.room = r]
                 = [block |-> b, room |-> r, sep2 |-> n.sep2, extension |-> n.extension]
    <3> DEFINE x == [n EXCEPT !.block = b, !.room = r]
               y == [block |-> b, room |-> r, sep2 |-> n.sep2, extension |-> n.extension]
    <3>1. x \in Numbers /\ y \in Numbers
      BY <2>1 DEF Numbers
    <3>2. x.block = b /\ x.room = r /\ x.sep2 = n.sep2 /\ x.extension = n.extension
      BY <2>1 DEF Numbers
    <3>3. y.block = b /\ y.room = r /\ y.sep2 = n.sep2 /\ y.extension = n.extension
      OBVIOUS
    <3> HIDE DEF x, y
    <3>4. x = y
      BY <3>1, <3>2, <3>3 DEF Numbers
    <3> QED
      BY <3>4 DEF x, y
  <2> QED
    BY <2>2, <2>3
<1> QED
  BY <1>3, <1>6, <1>7 DEF Swap

\* Numbers that print the same, as far as a solicitation shows them.
LEMMA SamePrefix ==
    ASSUME NEW n \in Printable, NEW m \in Printable
    PROVE  SubSeq(Str(n), 1, 9) = SubSeq(Str(m), 1, 9) <=> n.block = m.block /\ n.room = m.room
<1>1. ASSUME NEW k \in Printable
      PROVE  /\ SubSeq(Str(k), 1, 9) \in Strings /\ Len(SubSeq(Str(k), 1, 9)) = 9
             /\ \A i \in 1 .. 4 : /\ SubSeq(Str(k), 1, 9)[i] = k.block[i]
                                  /\ SubSeq(Str(k), 1, 9)[5 + i] = k.room[i]
             /\ SubSeq(Str(k), 1, 9)[5] = Sep
  <2> DEFINE s == Str(k)
             t == SubSeq(s, 1, 9)
  <2>1. /\ s \in Strings /\ Len(s) >= 9 /\ Len(s) \in Nat
        /\ \A i \in 1 .. 4 : s[i] = k.block[i] /\ s[5 + i] = k.room[i]
        /\ s[5] = Sep
    <3>1. Len(s) \in {9, 11}
      BY <1>1, StrIsString
    <3> QED
      BY <1>1, <3>1, StrIsString
  <2> HIDE DEF s
  <2>2. \A i \in 1 .. 9 : s[i] \in Char
    BY <2>1, ElementOfSeq DEF Strings
  <2>3. t \in Strings /\ Len(t) = 9 /\ \A i \in 1 .. 9 : t[i] = s[i]
    <3>1. /\ t \in Seq(Char)
          /\ Len(t) = IF 1 <= 9 THEN 9 - 1 + 1 ELSE 0
          /\ \A i \in 1 .. 9 - 1 + 1 : t[i] = s[1 + i - 1]
      BY <2>2, SubSeqProperties
    <3> HIDE DEF t
    <3> QED
      BY <3>1 DEF Strings
  <2> HIDE DEF t
  <2>4. \A i \in 1 .. 4 : t[i] = k.block[i] /\ t[5 + i] = k.room[i]
    BY <2>1, <2>3
  <2>5. t[5] = Sep
    BY <2>1, <2>3
  <2> QED
    BY <2>3, <2>4, <2>5 DEF t, s
<1> DEFINE s == SubSeq(Str(n), 1, 9)
           t == SubSeq(Str(m), 1, 9)
<1>2. /\ s \in Strings /\ Len(s) = 9 /\ s[5] = Sep
      /\ \A i \in 1 .. 4 : s[i] = n.block[i] /\ s[5 + i] = n.room[i]
  BY <1>1
<1>3. /\ t \in Strings /\ Len(t) = 9 /\ t[5] = Sep
      /\ \A i \in 1 .. 4 : t[i] = m.block[i] /\ t[5 + i] = m.room[i]
  BY <1>1
<1> HIDE DEF s, t
<1>4. ASSUME NEW f \in Four, NEW g \in Four, \A i \in 1 .. 4 : f[i] = g[i]
      PROVE  f = g
  BY <1>4 DEF Four
<1>5. {n.block, n.room, m.block, m.room} \subseteq Four
  BY DEF Printable, Numbers
<1>6. ASSUME s = t PROVE n.block = m.block /\ n.room = m.room
  <2>1. \A i \in 1 .. 4 : n.block[i] = m.block[i] /\ n.room[i] = m.room[i]
    BY <1>2, <1>3, <1>6
  <2> QED
    BY <1>4, <1>5, <2>1
<1>7. ASSUME n.block = m.block, n.room = m.room PROVE s = t
  <2>1. \A i \in 1 .. 4 : s[i] = t[i] /\ s[5 + i] = t[5 + i]
    BY <1>2, <1>3, <1>7
  <2>2. \A i \in 1 .. 9 : s[i] = t[i]
    <3>1. s[5 + 1] = t[5 + 1] /\ s[5 + 2] = t[5 + 2] /\ s[5 + 3] = t[5 + 3] /\ s[5 + 4] = t[5 + 4]
      BY <2>1
    <3>2. s[6] = t[6] /\ s[7] = t[7] /\ s[8] = t[8] /\ s[9] = t[9]
      BY <3>1
    <3> QED
      BY <1>2, <1>3, <2>1, <3>2
  <2> QED
    BY <1>2, <1>3, <2>2, SeqEqual DEF Strings
<1> QED
  BY <1>6, <1>7 DEF s, t

\* Tidy numbers that print the same are the same.
LEMMA SameText ==
    ASSUME NEW n \in Tidy, NEW m \in Tidy, Str(n) = Str(m)
    PROVE  n = m
<1>1. n \in Printable /\ m \in Printable
  BY TidyIsPrintable
<1>2. n.block = m.block /\ n.room = m.room
  BY <1>1, SamePrefix
<1>3. n.sep2 = m.sep2
  <2>1. /\ Len(Str(n)) = IF n.sep2 = Nul THEN 9 ELSE 11
        /\ Len(Str(m)) = IF m.sep2 = Nul THEN 9 ELSE 11
    BY <1>1, StrIsString
  <2>2. {n.sep2, m.sep2} \subseteq {Nul, Sep}
    BY DEF Tidy, Numbers
  <2> QED
    BY <2>1, <2>2
<1>4. n.extension = m.extension
  <2>1. CASE n.sep2 = Nul
    BY <1>3, <2>1 DEF Tidy
  <2>2. CASE n.sep2 # Nul
    BY <1>1, <1>3, <2>2, StrIsString
  <2> QED
    BY <2>1, <2>2
<1> QED
  BY <1>2, <1>3, <1>4 DEF Tidy, Numbers

LEMMA CleanIsTidy ==
    ASSUME NEW str \in Strings
    PROVE  CleanOf(str) \subseteq Tidy
<1> SUFFICES ASSUME NEW base \in {{}, {Former}}, LeelenNumber_init(Blank, str, base).ret = 0
             PROVE  LeelenNumber_init(Blank, str, base).number \in Tidy
  BY DEF CleanOf
<1>1. base \in SUBSET Numbers
  BY FormerAndBlank
<1>2. LeelenNumber_init(Blank, str, base) \in Outcomes(Blank)
  BY <1>1, InitOutcome
<1> QED
  BY <1>2, OutcomeIsTidy

LEMMA TextFormsAgree == TextInv => FormsAgree
<1> SUFFICES ASSUME TextInv PROVE FormsAgree
  OBVIOUS
<1>1. text \in Strings
  BY DEF TextInv
<1>2. ParseIsStable
  <2> SUFFICES ASSUME NEW dest \in {Blank, Former}, NEW former \in {{}, {Former}},
                      NEW base \in {{}, {Former}}
               PROVE  LET n == LeelenNumber_init(dest, text, former).number
                          again == LeelenNumber_init(n, Str(n), base)
                      IN  again.ret = 0 /\ Str(again.number) = Str(n)
    BY DEF ParseIsStable, Results
  <2>1. former \in SUBSET Numbers
    BY FormerAndBlank
  <2>2. LeelenNumber_init(dest, text, former) \in Outcomes(dest)
    BY <1>1, <2>1, InitOutcome
  <2>3. dest \in Printable
    BY FormerAndBlank DEF Printable, Blank, Former, Digit, Nul, Sep
  <2>4. LeelenNumber_init(dest, text, former).number \in Printable
    BY <2>2, <2>3, OutcomeIsPrintable
  <2> QED
    BY <2>4, StrIsStable
<1>3. Clean \subseteq Tidy
  BY <1>1, CleanIsTidy DEF Clean
<1>4. IntRoundTrip
  BY <1>3, IntKeepsNumber DEF IntRoundTrip
<1>5. BytesSwapHalves
  BY <1>3, BytesSwap DEF BytesSwapHalves
<1>6. EqualIsSameRoom
  <2> SUFFICES ASSUME text # <<>>, text[Len(text)] # Sep, NEW n \in Clean,
                      NEW m \in Clean \cup CleanOf([text EXCEPT ![Len(text)] = (@ + 1) % 10])
               PROVE  /\ Str(n) = Str(m) => LeelenNumber_equal(n, m)
                      /\ LeelenNumber_equal(n, m) => n.block = m.block /\ n.room = m.room
                      /\ LeelenNumber_should_reply(n, Str(m))
                           <=> n.block = m.block /\ n.room = m.room
    BY DEF EqualIsSameRoom
  <2>1. [text EXCEPT ![Len(text)] = (@ + 1) % 10] \in Strings
    <3>1. Len(text) \in 1 .. Len(text)
      BY <1>1, EmptySeq DEF Strings
    <3>2. text[Len(text)] \in Digit
      BY <1>1, <3>1, ElementOfSeq DEF Strings, Char
    <3>3. (text[Len(text)] + 1) % 10 \in Char
      BY <3>2 DEF Digit, Char
    <3> QED
      BY <1>1, <3>1, <3>3, ExceptSeq DEF Strings
  <2>2. n \in Tidy /\ m \in Tidy
    BY <1>3, <2>1, CleanIsTidy
  <2>3. Str(n) = Str(m) => LeelenNumber_equal(n, m)
    BY <2>2, SameText DEF LeelenNumber_equal
  <2>4. LeelenNumber_equal(n, m) => n.block = m.block /\ n.room = m.room
    BY DEF LeelenNumber_equal
  <2>5. LeelenNumber_should_reply(n, Str(m)) <=> n.block = m.block /\ n.room = m.room
    BY <2>2, SamePrefix, TidyIsPrintable DEF LeelenNumber_should_reply
  <2> QED
    BY <2>3, <2>4, <2>5
<1> QED
  BY <1>2, <1>4, <1>5, <1>6 DEF FormsAgree

\* Every form of a number, its text, its 32 bits, its 5 bytes but for the
\* halves of its fields, and its copy that LeelenNumber_equal looks at, stands
\* for the same number, for every text that the parser accepts.
THEOREM FormsOfNumbersAgree == TextSpec => []FormsAgree
BY TextFormsAgree, TextAlways, PTL

---------------------------------------------------------------------------
(* The parser against the list of accepted forms. *)

Valid(readings) == {r \in readings : IsField(r[1]) /\ IsField(r[2])}

\* Characters i to j are digits.
AreDigits(i, j) == \A k \in i .. j : k \notin SepsOf(text)

\* How a number that ends at k may go on.
Ending(k, e, joined) ==
    LET n == Len(text)
    IN  \/ k = n /\ e = Nul
        \/ k = n - 2 /\ k + 1 \in SepsOf(text) /\ text[n] = e
        \/ k = n - 1 /\ text[n] = e /\ joined

LEMMA WordIsField ==
    ASSUME text \in Strings, NEW i \in 1 .. Len(text) + 1, NEW j \in 0 .. Len(text)
    PROVE  IsField(Word(i, j)) <=> j - i + 1 \in 1 .. 4 /\ AreDigits(i, j)
<1> DEFINE n == Len(text)
           w == Word(i, j)
<1>1. n \in Nat /\ \A k \in 1 .. n : text[k] \in Char
  BY ElementOfSeq, LenProperties DEF Strings
<1>2. /\ Len(w) = IF i <= j THEN j - i + 1 ELSE 0
      /\ \A k \in 1 .. j - i + 1 : w[k] = text[i + k - 1]
  <2>1. \A k \in i .. j : text[k] \in Char
    BY <1>1
  <2> QED
    BY <2>1, SubSeqProperties DEF Word
<1>3. \A k \in 1 .. n : k \in SepsOf(text) <=> text[k] \notin Digit
  BY <1>1 DEF SepsOf, Char, Digit, Sep
<1>4. IsField(w) <=> Len(w) \in 1 .. 4 /\ \A k \in 1 .. Len(w) : w[k] \in Digit
  BY DEF IsField
<1> HIDE DEF n, w
<1>5. CASE ~ (i <= j)
  BY <1>1, <1>2, <1>4, <1>5 DEF n, w
<1>6. CASE i <= j
  <2> DEFINE l == j - i + 1
  <2>1. l \in Nat /\ l >= 1 /\ Len(w) = l
    BY <1>1, <1>2, <1>6 DEF n
  <2>2. ASSUME \A k \in 1 .. l : w[k] \in Digit PROVE AreDigits(i, j)
    <3> SUFFICES ASSUME NEW k \in i .. j PROVE k \notin SepsOf(text)
      BY DEF AreDigits
    <3> DEFINE m == k - i + 1
    <3>1. m \in 1 .. l /\ i + m - 1 = k /\ k \in 1 .. n
      BY <1>1, <1>6 DEF n
    <3> HIDE DEF m, l
    <3>2. w[m] = text[k]
      BY <1>2, <3>1 DEF l
    <3> QED
      BY <1>3, <2>2, <3>1, <3>2 DEF n
  <2>3. ASSUME AreDigits(i, j) PROVE \A k \in 1 .. l : w[k] \in Digit
    <3> SUFFICES ASSUME NEW k \in 1 .. l PROVE w[k] \in Digit
      OBVIOUS
    <3> DEFINE m == i + k - 1
    <3>1. m \in i .. j /\ m \in 1 .. n
      BY <1>1, <1>6 DEF n
    <3>2. w[k] = text[m]
      BY <1>2
    <3> HIDE DEF m
    <3> QED
      BY <1>3, <2>3, <3>1, <3>2 DEF AreDigits, n
  <2> HIDE DEF l
  <2> QED
    BY <1>4, <2>1, <2>2, <2>3 DEF w, l
<1> QED
  BY <1>5, <1>6

\* The value of a word is that of the field it is padded to.
LEMMA PaddedAmount ==
    ASSUME text \in Strings, NEW from \in Nat, NEW len \in 1 .. 4, from + len <= Len(text),
           AreDigits(from + 1, from + len)
    PROVE  Value(Padded(text, from, len)) = Amount(Word(from + 1, from + len))
<1> DEFINE n == Len(text)
           w == Word(from + 1, from + len)
<1>1. n \in Nat /\ \A k \in 1 .. n : text[k] \in Char
  BY ElementOfSeq, LenProperties DEF Strings
<1>2. Len(w) = len /\ \A k \in 1 .. len : w[k] = text[from + k]
  <2>1. \A k \in from + 1 .. from + len : text[k] \in Char
    BY <1>1
  <2>2. /\ Len(w) = IF from + 1 <= from + len THEN from + len - (from + 1) + 1 ELSE 0
        /\ \A k \in 1 .. from + len - (from + 1) + 1 : w[k] = text[from + 1 + k - 1]
    BY <2>1, SubSeqProperties DEF Word
  <2> HIDE DEF w
  <2>3. /\ from + len - (from + 1) + 1 = len /\ from + 1 <= from + len
        /\ \A k \in 1 .. len : from + 1 + k - 1 = from + k
    OBVIOUS
  <2> QED
    BY <2>2, <2>3
<1> DEFINE f == Padded(text, from, len)
<1>3. \A i \in 1 .. 4 : f[i] = IF i <= 4 - len THEN 0 ELSE text[from + i - (4 - len)]
  BY DEF Padded
<1> HIDE DEF f, w, n
<1>4. ASSUME NEW i \in 1 .. 4, i > 4 - len
      PROVE  f[i] = w[i + len - 4]
  <2>1. /\ i + len - 4 \in 1 .. len /\ from + (i + len - 4) = from + i - (4 - len)
        /\ ~ (i <= 4 - len)
    BY <1>4
  <2>2. w[i + len - 4] = text[from + (i + len - 4)]
    BY <1>2, <2>1
  <2>3. f[i] = text[from + i - (4 - len)]
    BY <1>3, <2>1
  <2> QED
    BY <2>1, <2>2, <2>3
<1> DEFINE Place(k) == IF k > Len(w) THEN 0 ELSE w[Len(w) + 1 - k]
<1>5. Amount(w) = Place(1) + 10 * Place(2) + 100 * Place(3) + 1000 * Place(4)
  BY DEF Amount
<1>6. f[4] = Place(1) /\ f[3] = Place(2) /\ f[2] = Place(3) /\ f[1] = Place(4)
  <2>1. \A i \in 1 .. 4 : f[i] = IF i <= 4 - len THEN 0 ELSE w[i + len - 4]
    BY <1>3, <1>4
  <2>2. CASE len = 1
    BY <1>2, <2>1, <2>2
  <2>3. CASE len = 2
    BY <1>2, <2>1, <2>3
  <2>4. CASE len = 3
    BY <1>2, <2>1, <2>4
  <2>5. CASE len = 4
    BY <1>2, <2>1, <2>5
  <2> QED
    BY <2>2, <2>3, <2>4, <2>5
<1>7. \A i \in 1 .. 4 : f[i] \in Int
  <2>1. \A k \in from + 1 .. from + len : text[k] \in Digit
    BY <1>1 DEF AreDigits, SepsOf, Char, n
  <2>2. f \in Four
    BY <2>1, PaddedIsFour DEF f
  <2> QED
    BY <2>2 DEF Four, Digit
<1>8. Value(f) = 1000 * f[1] + 100 * f[2] + 10 * f[3] + f[4]
  BY DEF Value
<1>9. Amount(w) = f[4] + 10 * f[3] + 100 * f[2] + 1000 * f[1]
  <2> HIDE DEF Place
  <2> QED
    BY <1>5, <1>6
<1> DEFINE a == f[1]
           b == f[2]
           c == f[3]
           d == f[4]
<1>10. a \in Int /\ b \in Int /\ c \in Int /\ d \in Int
  BY <1>7
<1> HIDE DEF a, b, c, d
<1>11. 1000 * a + 100 * b + 10 * c + d = d + 10 * c + 100 * b + 1000 * a
  BY <1>10
<1>12. Value(f) = Amount(w)
  BY <1>8, <1>9, <1>11 DEF a, b, c, d
<1> QED
  BY <1>12 DEF f, w

LEMMA ExtensionEnding ==
    ASSUME text \in Strings, NEW k \in 1 .. Len(text), NEW e \in Digit \cup {Nul},
           NEW joined \in BOOLEAN
    PROVE  e \in Extensions(k, joined) <=> Ending(k, e, joined)
<1> DEFINE n == Len(text)
<1>1. n \in Nat /\ k \in 1 .. n
  BY LenProperties DEF Strings
<1>2. k = n - 2 => (k + 1 \in SepsOf(text) <=> text[k + 1] = Sep)
  BY <1>1 DEF SepsOf
<1>3. e \in Extensions(k, joined) <=>
        \/ k = n /\ e = Nul
        \/ k = n - 2 /\ text[k + 1] = Sep /\ text[n] = e
        \/ k = n - 1 /\ text[n] = e /\ joined
  BY DEF Extensions
<1> QED
  BY <1>2, <1>3 DEF Ending

\* The readings of a text as a room.
LEMMA RoomReadings ==
    ASSUME text \in Strings, NEW block, IsField(block), NEW r
    PROVE  r \in Valid(Rooms(block)) <=>
             \E k \in 1 .. 4, e \in Digit \cup {Nul} :
                /\ k <= Len(text) /\ AreDigits(1, k) /\ Ending(k, e, k = 4)
                /\ r = <<block, Word(1, k), e>>
<1>1. Len(text) \in Nat
  BY LenProperties DEF Strings
<1>2. ASSUME NEW k \in 1 .. 4, k <= Len(text)
      PROVE  /\ IsField(Word(1, k)) <=> AreDigits(1, k)
             /\ \A e \in Digit \cup {Nul} : e \in Extensions(k, k = 4) <=> Ending(k, e, k = 4)
  <2>1. k \in 1 .. Len(text) /\ 1 \in 1 .. Len(text) + 1 /\ k - 1 + 1 \in 1 .. 4
    BY <1>1, <1>2
  <2>2. (k = 4) \in BOOLEAN
    OBVIOUS
  <2>3. IsField(Word(1, k)) <=> AreDigits(1, k)
    BY <1>1, <2>1, WordIsField
  <2>4. \A e \in Digit \cup {Nul} : e \in Extensions(k, k = 4) <=> Ending(k, e, k = 4)
    BY <2>1, <2>2, ExtensionEnding
  <2> QED
    BY <2>3, <2>4
<1>3. r \in Rooms(block) <=>
        \E k \in 1 .. 4 : /\ k <= Len(text)
                          /\ \E e \in Extensions(k, k = 4) : r = <<block, Word(1, k), e>>
  BY DEF Rooms
<1>4. \A k : Extensions(k, k = 4) \subseteq Digit \cup {Nul}
  BY DEF Extensions
<1>5. r \in Valid(Rooms(block)) <=> r \in Rooms(block) /\ IsField(r[1]) /\ IsField(r[2])
  BY DEF Valid
<1>6. ASSUME r \in Valid(Rooms(block))
      PROVE  \E k \in 1 .. 4, e \in Digit \cup {Nul} :
                /\ k <= Len(text) /\ AreDigits(1, k) /\ Ending(k, e, k = 4)
                /\ r = <<block, Word(1, k), e>>
  <2>1. PICK k \in 1 .. 4 :
          k <= Len(text) /\ \E e \in Extensions(k, k = 4) : r = <<block, Word(1, k), e>>
    BY <1>3, <1>5, <1>6
  <2>p. PICK e \in Extensions(k, k = 4) : r = <<block, Word(1, k), e>>
    BY <2>1
  <2>2. e \in Digit \cup {Nul} /\ IsField(Word(1, k))
    BY <1>4, <1>5, <1>6, <2>1, <2>p
  <2>3. AreDigits(1, k) /\ Ending(k, e, k = 4)
    BY <1>2, <2>1, <2>p, <2>2
  <2> QED
    BY <2>1, <2>p, <2>2, <2>3
<1>7. ASSUME NEW k \in 1 .. 4, NEW e \in Digit \cup {Nul},
             k <= Len(text), AreDigits(1, k), Ending(k, e, k = 4), r = <<block, Word(1, k), e>>
      PROVE  r \in Valid(Rooms(block))
  <2>1. IsField(Word(1, k)) /\ e \in Extensions(k, k = 4)
    BY <1>2, <1>7
  <2> QED
    BY <1>3, <1>5, <1>7, <2>1
<1> QED
  BY <1>6, <1>7

\* The readings of a text as block and room without a separator.
LEMMA JoinedReadings ==
    ASSUME text \in Strings, NEW r
    PROVE  r \in Valid(Joined) <=>
             \E e \in Digit \cup {Nul} :
                /\ Len(text) >= 8 /\ AreDigits(1, 4) /\ AreDigits(5, 8) /\ Ending(8, e, TRUE)
                /\ r = <<Word(1, 4), Word(5, 8), e>>
<1>1. Len(text) \in Nat
  BY LenProperties DEF Strings
<1>2. r \in Joined <=>
        Len(text) >= 8 /\ \E e \in Extensions(8, TRUE) : r = <<Word(1, 4), Word(5, 8), e>>
  <2> DEFINE n == Len(text)
  <2>1. Joined = {<<Word(1, 4), Word(5, 8), e>> : e \in IF n < 8 THEN {} ELSE Extensions(8, TRUE)}
    BY DEF Joined
  <2>2. n \in Nat
    BY <1>1
  <2> HIDE DEF n
  <2>3. CASE n < 8
    <3>1. ~ (n >= 8)
      BY <2>2, <2>3
    <3>2. Joined = {}
      BY <2>1, <2>3
    <3> QED
      BY <3>1, <3>2 DEF n
  <2>4. CASE ~ (n < 8)
    <3>1. n >= 8
      BY <2>2, <2>4
    <3>2. Joined = {<<Word(1, 4), Word(5, 8), e>> : e \in Extensions(8, TRUE)}
      BY <2>1, <2>4
    <3> QED
      BY <3>1, <3>2 DEF n
  <2> QED
    BY <2>3, <2>4
<1>3. Extensions(8, TRUE) \subseteq Digit \cup {Nul}
  BY DEF Extensions
<1>4. r \in Valid(Joined) <=> r \in Joined /\ IsField(r[1]) /\ IsField(r[2])
  BY DEF Valid
<1>5. ASSUME Len(text) >= 8
      PROVE  /\ IsField(Word(1, 4)) <=> AreDigits(1, 4)
             /\ IsField(Word(5, 8)) <=> AreDigits(5, 8)
             /\ \A e \in Digit \cup {Nul} : e \in Extensions(8, TRUE) <=> Ending(8, e, TRUE)
  <2>1. /\ 1 \in 1 .. Len(text) + 1 /\ 4 \in 0 .. Len(text) /\ 4 - 1 + 1 \in 1 .. 4
        /\ 5 \in 1 .. Len(text) + 1 /\ 8 \in 0 .. Len(text) /\ 8 - 5 + 1 \in 1 .. 4
        /\ 8 \in 1 .. Len(text)
    BY <1>1, <1>5
  <2> QED
    BY <2>1, WordIsField, ExtensionEnding
<1>6. ASSUME NEW e, r = <<Word(1, 4), Word(5, 8), e>>
      PROVE  IsField(r[1]) /\ IsField(r[2]) <=> IsField(Word(1, 4)) /\ IsField(Word(5, 8))
  BY <1>6
<1> QED
  BY <1>2, <1>3, <1>4, <1>5, <1>6

\* The readings of a text as block and room with a separator.
LEMMA BlockRoomReadings ==
    ASSUME text \in Strings, NEW r
    PROVE  r \in Valid(BlockRooms) <=>
             \E i \in SepsOf(text), k \in 1 .. Len(text), e \in Digit \cup {Nul} :
                /\ ~ (e = Nul /\ k = i + 1)
                /\ i - 1 \in 1 .. 4 /\ AreDigits(1, i - 1)
                /\ k - i \in 1 .. 4 /\ AreDigits(i + 1, k)
                /\ Ending(k, e, FALSE)
                /\ r = <<Word(1, i - 1), Word(i + 1, k), e>>
<1>1. Len(text) \in Nat /\ SepsOf(text) \subseteq 1 .. Len(text)
  BY LenProperties DEF Strings, SepsOf
<1>2. r \in BlockRooms <=>
        \E i \in SepsOf(text), k \in 1 .. Len(text) : \E e \in Extensions(k, FALSE) :
           ~ (e = Nul /\ k = i + 1) /\ r = <<Word(1, i - 1), Word(i + 1, k), e>>
  <2> DEFINE Part(i, k) == {<<Word(1, i - 1), Word(i + 1, k), e>> :
                              e \in {e \in Extensions(k, FALSE) : ~ (e = Nul /\ k = i + 1)}}
  <2>1. BlockRooms = UNION {Part(i, k) : i \in SepsOf(text), k \in 1 .. Len(text)}
    BY DEF BlockRooms
  <2>2. \A i, k : r \in Part(i, k) <=>
          \E e \in Extensions(k, FALSE) :
            ~ (e = Nul /\ k = i + 1) /\ r = <<Word(1, i - 1), Word(i + 1, k), e>>
    OBVIOUS
  <2> HIDE DEF Part
  <2>3. r \in BlockRooms <=> \E i \in SepsOf(text), k \in 1 .. Len(text) : r \in Part(i, k)
    BY <2>1
  <2> QED
    BY <2>2, <2>3
<1>3. \A k : Extensions(k, FALSE) \subseteq Digit \cup {Nul}
  BY DEF Extensions
<1>4. r \in Valid(BlockRooms) <=> r \in BlockRooms /\ IsField(r[1]) /\ IsField(r[2])
  BY DEF Valid
<1>5. ASSUME NEW i \in SepsOf(text), NEW k \in 1 .. Len(text)
      PROVE  /\ IsField(Word(1, i - 1)) <=> i - 1 \in 1 .. 4 /\ AreDigits(1, i - 1)
             /\ IsField(Word(i + 1, k)) <=> k - i \in 1 .. 4 /\ AreDigits(i + 1, k)
             /\ \A e \in Digit \cup {Nul} : e \in Extensions(k, FALSE) <=> Ending(k, e, FALSE)
  <2>1. /\ 1 \in 1 .. Len(text) + 1 /\ i - 1 \in 0 .. Len(text) /\ i - 1 - 1 + 1 = i - 1
        /\ i + 1 \in 1 .. Len(text) + 1 /\ k \in 0 .. Len(text) /\ k - (i + 1) + 1 = k - i
    BY <1>1, <1>5
  <2> QED
    BY <1>5, <2>1, WordIsField, ExtensionEnding
<1>6. ASSUME r \in Valid(BlockRooms)
      PROVE  \E i \in SepsOf(text), k \in 1 .. Len(text), e \in Digit \cup {Nul} :
                /\ ~ (e = Nul /\ k = i + 1)
                /\ i - 1 \in 1 .. 4 /\ AreDigits(1, i - 1)
                /\ k - i \in 1 .. 4 /\ AreDigits(i + 1, k)
                /\ Ending(k, e, FALSE)
                /\ r = <<Word(1, i - 1), Word(i + 1, k), e>>
  <2>1. PICK i \in SepsOf(text), k \in 1 .. Len(text) :
          \E e \in Extensions(k, FALSE) :
            ~ (e = Nul /\ k = i + 1) /\ r = <<Word(1, i - 1), Word(i + 1, k), e>>
    BY <1>2, <1>4, <1>6
  <2>p. PICK e \in Extensions(k, FALSE) :
          ~ (e = Nul /\ k = i + 1) /\ r = <<Word(1, i - 1), Word(i + 1, k), e>>
    BY <2>1
  <2>2. IsField(Word(1, i - 1)) /\ IsField(Word(i + 1, k)) /\ e \in Digit \cup {Nul}
    BY <1>3, <1>4, <1>6, <2>p
  <2>3. /\ i - 1 \in 1 .. 4 /\ AreDigits(1, i - 1)
        /\ k - i \in 1 .. 4 /\ AreDigits(i + 1, k)
        /\ Ending(k, e, FALSE)
    BY <1>5, <2>p, <2>2
  <2> QED
    BY <2>p, <2>2, <2>3
<1>7. ASSUME NEW i \in SepsOf(text), NEW k \in 1 .. Len(text), NEW e \in Digit \cup {Nul},
             ~ (e = Nul /\ k = i + 1),
             i - 1 \in 1 .. 4, AreDigits(1, i - 1), k - i \in 1 .. 4, AreDigits(i + 1, k),
             Ending(k, e, FALSE), r = <<Word(1, i - 1), Word(i + 1, k), e>>
      PROVE  r \in Valid(BlockRooms)
  <2>1. IsField(Word(1, i - 1)) /\ IsField(Word(i + 1, k)) /\ e \in Extensions(k, FALSE)
    BY <1>5, <1>7
  <2> QED
    BY <1>2, <1>4, <1>7, <2>1
<1> QED
  BY <1>6, <1>7

LEMMA ReadingsAreValid ==
    ASSUME NEW block
    PROVE  /\ Readings(block) = Valid(BlockRooms) \cup Valid(Rooms(block)) \cup Valid(Joined)
           /\ Rooms(block) \cap Readings(block) = Valid(Rooms(block))
BY DEF Readings, Valid

\* What ParseMatchesForms says of one memory.
Matches(dest) ==
    LET with == LeelenNumber_init(dest, text, {Former})
        without == LeelenNumber_init(dest, text, {})
    IN  /\ (with.ret = 0) <=> (Readings(Former.block) # {})
        /\ with.ret = 0 =>
              {Meaning(with.number)}
                  = {<<Amount(r[1]), Amount(r[2]), r[3]>> : r \in Readings(Former.block)}
        /\ without =
              IF with.ret = 0 /\ Rooms(Former.block) \cap Readings(Former.block) # {}
              THEN [ret |-> 2, number |-> dest]
              ELSE with

LEMMA NoReadings ==
    ASSUME NEW dest,
           Valid(BlockRooms) = {}, Valid(Rooms(Former.block)) = {}, Valid(Joined) = {},
           LeelenNumber_init(dest, text, {Former}) = Failed(dest, 1),
           LeelenNumber_init(dest, text, {}) = Failed(dest, 1)
    PROVE  Matches(dest)
<1>1. Readings(Former.block) = {}
  BY ReadingsAreValid
<1>2. Failed(dest, 1).ret = 1
  BY DEF Failed
<1> QED
  BY <1>1, <1>2 DEF Matches

LEMMA OneReading ==
    ASSUME NEW dest, NEW b, NEW r, NEW e \in Digit \cup {Nul}, NEW block, NEW room,
           Readings(Former.block) = {<<b, r, e>>},
           Value(block) = Amount(b), Value(room) = Amount(r),
           LeelenNumber_init(dest, text, {Former}) = Done(dest, block, room, e),
           LeelenNumber_init(dest, text, {})
             = IF Rooms(Former.block) \cap Readings(Former.block) # {} THEN Failed(dest, 2)
               ELSE Done(dest, block, room, e)
    PROVE  Matches(dest)
<1> DEFINE n == Stored(dest, block, room, e)
           reading == <<b, r, e>>
<1>1. Done(dest, block, room, e) = [ret |-> 0, number |-> n]
  BY DEF Done
<1>2. Meaning(n) = <<Amount(b), Amount(r), e>>
  <2>1. n.block = block /\ n.room = room
    BY DEF Stored
  <2>2. (IF n.sep2 = Nul THEN Nul ELSE n.extension) = e
    BY DEF Stored, Nul, Sep
  <2> HIDE DEF n
  <2> QED
    BY <2>1, <2>2 DEF Meaning
<1>3. reading[1] = b /\ reading[2] = r /\ reading[3] = e
  OBVIOUS
<1> HIDE DEF n, reading
<1>4. Readings(Former.block) = {reading}
  BY DEF reading
<1>5. {<<Amount(q[1]), Amount(q[2]), q[3]>> : q \in Readings(Former.block)}
        = {<<Amount(b), Amount(r), e>>}
  BY <1>3, <1>4
<1> QED
  BY <1>1, <1>2, <1>4, <1>5 DEF Matches, Failed

LEMMA FormerBlock == IsField(Former.block) /\ Value(Former.block) = Amount(Former.block)
BY DEF Former, IsField, Value, Amount, Digit

\* A text that the parser does not look at has no reading.
LEMMA RefusedHasNone ==
    ASSUME text \in Strings, Refused(text)
    PROVE  /\ Valid(BlockRooms) = {} /\ Valid(Rooms(Former.block)) = {} /\ Valid(Joined) = {}
<1> DEFINE n == Len(text)
           seps == SepsOf(text)
<1>1. n \in Nat /\ seps \subseteq 1 .. n
  BY LenProperties DEF Strings, SepsOf
<1>2. \/ n = 0 \/ n > 11 \/ 1 \in seps \/ n \in seps
      \/ \E i, j, k \in seps : i < j /\ j < k
  BY DEF Refused, MaxText
<1>3. n \in seps => text[n] = Sep /\ Sep \notin Digit \cup {Nul}
  BY DEF SepsOf, Digit, Sep, Nul
<1>e. ASSUME NEW k, NEW e \in Digit \cup {Nul}, NEW joined, Ending(k, e, joined)
      PROVE  \/ k = n
             \/ k = n - 2 /\ k + 1 \in seps /\ n \notin seps
             \/ k = n - 1 /\ n \notin seps /\ joined
  BY <1>3, <1>e DEF Ending
<1> HIDE DEF n, seps
<1>4. ASSUME NEW k \in 1 .. 4, NEW e \in Digit \cup {Nul},
             k <= n, AreDigits(1, k), Ending(k, e, k = 4)
      PROVE  FALSE
  <2>e. \/ k = n
        \/ k = n - 2 /\ k + 1 \in seps /\ n \notin seps
        \/ k = n - 1 /\ n \notin seps /\ k = 4
    BY <1>4, <1>e
  <2>1. \A i \in 1 .. k : i \notin seps
    BY <1>4 DEF AreDigits, seps
  <2>2. n # 0 /\ ~ (n > 11) /\ 1 \notin seps
    BY <1>1, <1>4, <2>e, <2>1
  <2>3. n \notin seps
    BY <1>1, <1>4, <2>e, <2>1
  <2>4. ~ \E x, y, z \in seps : x < y /\ y < z
    BY <1>1, <1>4, <2>e, <2>1
  <2> QED
    BY <1>2, <2>2, <2>3, <2>4
<1>5. ASSUME NEW e \in Digit \cup {Nul}, n >= 8, AreDigits(1, 4), AreDigits(5, 8),
             Ending(8, e, TRUE)
      PROVE  FALSE
  <2>e. \/ 8 = n
        \/ 8 = n - 2 /\ 8 + 1 \in seps /\ n \notin seps
        \/ 8 = n - 1 /\ n \notin seps /\ TRUE
    BY <1>5, <1>e
  <2>1. \A i \in 1 .. 8 : i \notin seps
    BY <1>5 DEF AreDigits, seps
  <2>2. n # 0 /\ ~ (n > 11) /\ 1 \notin seps
    BY <1>1, <1>5, <2>e, <2>1
  <2>3. n \notin seps
    BY <1>1, <1>5, <2>e, <2>1
  <2>4. ~ \E x, y, z \in seps : x < y /\ y < z
    BY <1>1, <1>5, <2>e, <2>1
  <2> QED
    BY <1>2, <2>2, <2>3, <2>4
<1>6. ASSUME NEW i \in seps, NEW k \in 1 .. n, NEW e \in Digit \cup {Nul},
             i - 1 \in 1 .. 4, AreDigits(1, i - 1), k - i \in 1 .. 4, AreDigits(i + 1, k),
             Ending(k, e, FALSE)
      PROVE  FALSE
  <2>e. \/ k = n
        \/ k = n - 2 /\ k + 1 \in seps /\ n \notin seps
        \/ k = n - 1 /\ n \notin seps /\ FALSE
    BY <1>6, <1>e
  <2>1. \A x \in 1 .. k : x \in seps => x = i
    BY <1>1, <1>6 DEF AreDigits, seps
  <2>2. n # 0 /\ ~ (n > 11) /\ 1 \notin seps
    BY <1>1, <1>6, <2>e, <2>1
  <2>3. n \notin seps
    BY <1>1, <1>6, <2>e, <2>1
  <2>4. ~ \E x, y, z \in seps : x < y /\ y < z
    BY <1>1, <1>6, <2>e, <2>1
  <2> QED
    BY <1>2, <2>2, <2>3, <2>4
<1>7. \A r : r \notin Valid(Rooms(Former.block))
  BY <1>4, RoomReadings, FormerBlock DEF n
<1>8. \A r : r \notin Valid(Joined)
  BY <1>5, JoinedReadings DEF n
<1>9. \A r : r \notin Valid(BlockRooms)
  BY <1>6, BlockRoomReadings DEF n, seps
<1> QED
  BY <1>7, <1>8, <1>9

LEMMA RoomOfFormer ==
    ASSUME NEW dest, NEW str, NEW len \in 1 .. 5, NEW e
    PROVE  /\ Digits(dest, str, {}, len, e) = Failed(dest, 2)
           /\ Digits(dest, str, {Former}, len, e)
                = IF len <= 4 THEN Done(dest, Former.block, Padded(str, 0, len), e)
                  ELSE Done(dest, Former.block, Padded(str, 0, 4), str[5])
<1>1. PICK b \in {Former} : b = CHOOSE c \in {Former} : TRUE
  OBVIOUS
<1>2. b = Former
  OBVIOUS
<1>3. len <= 5 /\ {Former} # {}
  OBVIOUS
<1>4. Digits(dest, str, {}, len, e) = Failed(dest, 2)
  BY <1>3 DEF Digits
<1> HIDE DEF Former
<1>5. Digits(dest, str, {Former}, len, e)
        = IF len <= 4 THEN Done(dest, b.block, Padded(str, 0, len), e)
          ELSE Done(dest, b.block, Padded(str, 0, 4), str[5])
  BY <1>1, <1>3 DEF Digits
<1> QED
  BY <1>2, <1>4, <1>5

\* Digits only.
LEMMA PlainMatches ==
    ASSUME text \in Strings, ~ Refused(text), SepsOf(text) = {}, NEW dest
    PROVE  Matches(dest)
<1> DEFINE n == Len(text)
           F == Former.block
<1>1. n \in 1 .. 11 /\ \A i \in 1 .. n : text[i] \in Digit
  BY SepsAreInside
<1>2. ASSUME NEW base
      PROVE  LeelenNumber_init(dest, text, base) = Digits(dest, text, base, n, Nul)
  <2>1. InitForms(dest, text, base)
    BY InitCases
  <2> QED
    BY <2>1 DEF InitForms
<1>3. \A i, j : AreDigits(i, j)
  BY DEF AreDigits
<1>4. ASSUME NEW k, NEW e, NEW joined
      PROVE  Ending(k, e, joined) <=> (k = n /\ e = Nul) \/ (k = n - 1 /\ text[n] = e /\ joined)
  BY DEF Ending
<1>5. Valid(BlockRooms) = {}
  BY BlockRoomReadings
<1>6. ASSUME NEW r
      PROVE  r \in Valid(Rooms(F)) <=>
               \E k \in 1 .. 4, e \in Digit \cup {Nul} :
                  /\ k <= n /\ r = <<F, Word(1, k), e>>
                  /\ (k = n /\ e = Nul) \/ (k = n - 1 /\ text[n] = e /\ k = 4)
  <2>1. r \in Valid(Rooms(F)) <=>
          \E k \in 1 .. 4, e \in Digit \cup {Nul} :
             /\ k <= n /\ AreDigits(1, k) /\ Ending(k, e, k = 4)
             /\ r = <<F, Word(1, k), e>>
    BY RoomReadings, FormerBlock
  <2> HIDE DEF n, F
  <2> QED
    BY <1>3, <1>4, <2>1
<1>7. ASSUME NEW r
      PROVE  r \in Valid(Joined) <=>
               \E e \in Digit \cup {Nul} :
                  /\ n >= 8 /\ r = <<Word(1, 4), Word(5, 8), e>>
                  /\ (8 = n /\ e = Nul) \/ (8 = n - 1 /\ text[n] = e)
  BY <1>3, <1>4, JoinedReadings
<1>8. ASSUME NEW from \in Nat, NEW len \in 1 .. 4, from + len <= n
      PROVE  Value(Padded(text, from, len)) = Amount(Word(from + 1, from + len))
  BY <1>3, <1>8, PaddedAmount
<1> HIDE DEF n, F
<1>10. CASE n <= 4
  <2>1. Valid(Rooms(F)) = {<<F, Word(1, n), Nul>>}
    BY <1>1, <1>6, <1>10
  <2>2. Valid(Joined) = {}
    BY <1>1, <1>7, <1>10
  <2>3. Value(Padded(text, 0, n)) = Amount(Word(1, n))
    BY <1>1, <1>8, <1>10
  <2>4. /\ LeelenNumber_init(dest, text, {Former}) = Done(dest, F, Padded(text, 0, n), Nul)
        /\ LeelenNumber_init(dest, text, {}) = Failed(dest, 2)
    BY <1>1, <1>2, <1>10, RoomOfFormer DEF F
  <2>5. /\ Readings(F) = {<<F, Word(1, n), Nul>>}
        /\ Rooms(F) \cap Readings(F) # {}
    BY <1>5, <2>1, <2>2, ReadingsAreValid
  <2> QED
    BY <2>3, <2>4, <2>5, FormerBlock, OneReading DEF F
<1>11. CASE n = 5
  <2>1. Valid(Rooms(F)) = {<<F, Word(1, 4), text[5]>>}
    BY <1>1, <1>6, <1>11
  <2>2. Valid(Joined) = {}
    BY <1>1, <1>7, <1>11
  <2>3. Value(Padded(text, 0, 4)) = Amount(Word(1, 4))
    BY <1>1, <1>8, <1>11
  <2>4. /\ LeelenNumber_init(dest, text, {Former}) = Done(dest, F, Padded(text, 0, 4), text[5])
        /\ LeelenNumber_init(dest, text, {}) = Failed(dest, 2)
    BY <1>1, <1>2, <1>11, RoomOfFormer DEF F
  <2>5. /\ Readings(F) = {<<F, Word(1, 4), text[5]>>}
        /\ Rooms(F) \cap Readings(F) # {}
    BY <1>5, <2>1, <2>2, ReadingsAreValid
  <2>6. text[5] \in Digit \cup {Nul}
    BY <1>1, <1>11
  <2> QED
    BY <2>3, <2>4, <2>5, <2>6, FormerBlock, OneReading DEF F
<1>12. CASE n \in {8, 9}
  <2> DEFINE e == IF n = 9 THEN text[9] ELSE Nul
  <2>1. Valid(Rooms(F)) = {}
    BY <1>1, <1>6, <1>12
  <2>2. Valid(Joined) = {<<Word(1, 4), Word(5, 8), e>>} /\ e \in Digit \cup {Nul}
    BY <1>1, <1>7, <1>12
  <2>3. /\ Value(Padded(text, 0, 4)) = Amount(Word(1, 4))
        /\ Value(Padded(text, 4, 4)) = Amount(Word(5, 8))
    BY <1>1, <1>8, <1>12
  <2>4. /\ LeelenNumber_init(dest, text, {Former})
             = Done(dest, Padded(text, 0, 4), Padded(text, 4, 4), e)
        /\ LeelenNumber_init(dest, text, {})
             = Done(dest, Padded(text, 0, 4), Padded(text, 4, 4), e)
    BY <1>1, <1>2, <1>12 DEF Digits
  <2> HIDE DEF e
  <2>5. /\ Readings(F) = {<<Word(1, 4), Word(5, 8), e>>}
        /\ Rooms(F) \cap Readings(F) = {}
    BY <1>5, <2>1, <2>2, ReadingsAreValid
  <2> QED
    BY <2>2, <2>3, <2>4, <2>5, OneReading DEF F
<1>13. CASE n \in {6, 7, 10, 11}
  <2>1. Valid(Rooms(F)) = {}
    BY <1>1, <1>6, <1>13
  <2>2. Valid(Joined) = {}
    BY <1>1, <1>7, <1>13
  <2>3. \A base : LeelenNumber_init(dest, text, base) = Failed(dest, 1)
    BY <1>1, <1>2, <1>13 DEF Digits
  <2> QED
    BY <1>5, <2>1, <2>2, <2>3, NoReadings DEF F
<1> QED
  BY <1>1, <1>10, <1>11, <1>12, <1>13

\* Digits and an extension.
LEMMA ExtendedMatches ==
    ASSUME text \in Strings, ~ Refused(text), SepsOf(text) = {Len(text) - 1}, NEW dest
    PROVE  Matches(dest)
<1> DEFINE n == Len(text)
           F == Former.block
           e == text[n]
<1>1. /\ n \in 3 .. 11 /\ e \in Digit /\ e # Nul
      /\ \A i \in 1 .. n : i # n - 1 => text[i] \in Digit
  <2>1. /\ n \in 1 .. 11 /\ {n - 1} \subseteq 2 .. n - 1
        /\ \A i \in 1 .. n : i \notin {n - 1} => text[i] \in Digit
    BY SepsAreInside
  <2> HIDE DEF n
  <2>2. n \in 3 .. 11
    BY <2>1
  <2>3. text[n] \in Digit
    BY <2>1, <2>2
  <2> QED
    BY <2>1, <2>2, <2>3 DEF Digit, Nul
<1>2. ASSUME NEW base
      PROVE  LeelenNumber_init(dest, text, base) =
               IF n - 2 <= 4 \/ n - 2 = 8 THEN Digits(dest, text, base, n - 2, e)
               ELSE Failed(dest, 1)
  <2>1. InitForms(dest, text, base)
    BY InitCases
  <2>2. \A i, j : i < j => SepsOf(text) # {i, j}
    OBVIOUS
  <2> QED
    BY <2>1, <2>2 DEF InitForms
<1>3. \A i, j : AreDigits(i, j) <=> n - 1 \notin i .. j
  BY DEF AreDigits
<1>4. ASSUME NEW k \in 1 .. n, NEW x
      PROVE  LET Ends == (k = n /\ x = Nul) \/ (k = n - 2 /\ x = e)
             IN  /\ Ending(k, x, FALSE) <=> Ends
                 /\ Ending(k, x, TRUE) <=> Ends \/ (k = n - 1 /\ x = e)
                 /\ Ending(k, x, k = 4) <=> Ends \/ (k = n - 1 /\ x = e /\ k = 4)
  <2>1. k = n - 2 => k + 1 = n - 1
    <3> HIDE DEF n
    <3> QED
      BY <1>1
  <2> QED
    BY <2>1 DEF Ending
<1>5. Valid(BlockRooms) = {}
  <2>1. ASSUME NEW k \in 1 .. n, NEW x \in Digit \cup {Nul}, ~ (x = Nul /\ k = n - 1 + 1),
               k - (n - 1) \in 1 .. 4, Ending(k, x, FALSE)
        PROVE  FALSE
    <3> HIDE DEF n, e
    <3>1. (k = n /\ x = Nul) \/ k = n - 2
      BY <1>4, <2>1
    <3> QED
      BY <1>1, <2>1, <3>1
  <2>2. \A r : r \notin Valid(BlockRooms)
    BY <2>1, BlockRoomReadings
  <2> QED
    BY <2>2
<1>6. ASSUME NEW r
      PROVE  r \in Valid(Rooms(F)) <=> n - 2 <= 4 /\ r = <<F, Word(1, n - 2), e>>
  <2>1. r \in Valid(Rooms(F)) <=>
          \E k \in 1 .. 4, x \in Digit \cup {Nul} :
             /\ k <= n /\ AreDigits(1, k) /\ Ending(k, x, k = 4)
             /\ r = <<F, Word(1, k), x>>
    BY RoomReadings, FormerBlock
  <2> HIDE DEF n, e, F
  <2>2. ASSUME NEW k \in 1 .. 4, NEW x \in Digit \cup {Nul}, k <= n
        PROVE  AreDigits(1, k) /\ Ending(k, x, k = 4) <=> k = n - 2 /\ x = e
    <3>1. AreDigits(1, k) <=> ~ (n - 1 <= k)
      BY <1>1, <1>3
    <3>2. Ending(k, x, k = 4) <=>
            (k = n /\ x = Nul) \/ (k = n - 2 /\ x = e) \/ (k = n - 1 /\ x = e /\ k = 4)
      <4>1. k \in 1 .. n
        BY <1>1, <2>2
      <4> QED
        BY <1>4, <4>1
    <3> QED
      BY <1>1, <3>1, <3>2
  <2>3. n - 2 <= 4 => n - 2 \in 1 .. 4 /\ n - 2 <= n /\ e \in Digit \cup {Nul}
    BY <1>1
  <2> QED
    BY <2>1, <2>2, <2>3
<1>7. ASSUME NEW r
      PROVE  r \in Valid(Joined) <=> n = 10 /\ r = <<Word(1, 4), Word(5, 8), e>>
  <2>1. r \in Valid(Joined) <=>
          \E x \in Digit \cup {Nul} :
             /\ n >= 8 /\ AreDigits(1, 4) /\ AreDigits(5, 8) /\ Ending(8, x, TRUE)
             /\ r = <<Word(1, 4), Word(5, 8), x>>
    BY JoinedReadings
  <2> HIDE DEF n, e
  <2>2. ASSUME NEW x \in Digit \cup {Nul}, n >= 8
        PROVE  AreDigits(5, 8) /\ Ending(8, x, TRUE) <=> n = 10 /\ x = e
    <3>1. AreDigits(5, 8) <=> ~ (n - 1 <= 8)
      BY <1>1, <1>3, <2>2
    <3>2. Ending(8, x, TRUE) <=> (8 = n /\ x = Nul) \/ (8 = n - 2 /\ x = e) \/ (8 = n - 1 /\ x = e)
      <4>1. 8 \in 1 .. n
        BY <1>1, <2>2
      <4> QED
        BY <1>4, <4>1
    <3>3. 8 = n - 2 <=> n = 10
      BY <1>1
    <3>4. 8 = n => ~ AreDigits(5, 8)
      BY <1>1, <3>1
    <3>5. 8 = n - 1 => ~ AreDigits(5, 8)
      BY <1>1, <3>1
    <3>6. n = 10 => AreDigits(5, 8)
      BY <1>1, <3>1
    <3> QED
      BY <3>2, <3>3, <3>4, <3>5, <3>6
  <2>3. n = 10 => AreDigits(1, 4) /\ e \in Digit \cup {Nul}
    BY <1>1, <1>3
  <2> QED
    <3>1. ASSUME r \in Valid(Joined) PROVE n = 10 /\ r = <<Word(1, 4), Word(5, 8), e>>
      BY <2>1, <2>2, <3>1
    <3>2. ASSUME n = 10, r = <<Word(1, 4), Word(5, 8), e>> PROVE r \in Valid(Joined)
      <4>1. e \in Digit \cup {Nul} /\ AreDigits(1, 4) /\ n >= 8
        BY <2>3, <3>2
      <4>2. AreDigits(5, 8) /\ Ending(8, e, TRUE)
        BY <2>2, <3>2, <4>1
      <4> QED
        BY <2>1, <3>2, <4>1, <4>2
    <3> QED
      BY <3>1, <3>2
<1>8. ASSUME NEW from \in Nat, NEW len \in 1 .. 4, from + len <= n - 2
      PROVE  Value(Padded(text, from, len)) = Amount(Word(from + 1, from + len))
  <2>1. AreDigits(from + 1, from + len) /\ from + len <= n
    <3> HIDE DEF n
    <3> QED
      BY <1>1, <1>3, <1>8
  <2> QED
    BY <2>1, PaddedAmount
<1> HIDE DEF n, F, e
<1>9. CASE n - 2 <= 4
  <2> DEFINE len == n - 2
  <2>1. Valid(Rooms(F)) = {<<F, Word(1, len), e>>}
    BY <1>6, <1>9
  <2>2. Valid(Joined) = {}
    BY <1>1, <1>7, <1>9
  <2>3. Value(Padded(text, 0, len)) = Amount(Word(1, len))
    BY <1>1, <1>8, <1>9
  <2>4. len \in 1 .. 5 /\ len <= 4
    BY <1>1, <1>9
  <2> HIDE DEF len
  <2>5. /\ LeelenNumber_init(dest, text, {Former}) = Done(dest, F, Padded(text, 0, len), e)
        /\ LeelenNumber_init(dest, text, {}) = Failed(dest, 2)
    BY <1>2, <1>9, <2>4, RoomOfFormer DEF F, len
  <2>6. /\ Readings(F) = {<<F, Word(1, len), e>>}
        /\ Rooms(F) \cap Readings(F) # {}
    BY <1>5, <2>1, <2>2, ReadingsAreValid
  <2> QED
    BY <1>1, <2>3, <2>5, <2>6, FormerBlock, OneReading DEF F
<1>10. CASE n = 10
  <2>1. Valid(Rooms(F)) = {}
    BY <1>6, <1>10
  <2>2. Valid(Joined) = {<<Word(1, 4), Word(5, 8), e>>}
    BY <1>7, <1>10
  <2>3. /\ Value(Padded(text, 0, 4)) = Amount(Word(1, 4))
        /\ Value(Padded(text, 4, 4)) = Amount(Word(5, 8))
    BY <1>8, <1>10
  <2>4. /\ LeelenNumber_init(dest, text, {Former})
             = Done(dest, Padded(text, 0, 4), Padded(text, 4, 4), e)
        /\ LeelenNumber_init(dest, text, {})
             = Done(dest, Padded(text, 0, 4), Padded(text, 4, 4), e)
    BY <1>2, <1>10 DEF Digits
  <2>5. /\ Readings(F) = {<<Word(1, 4), Word(5, 8), e>>}
        /\ Rooms(F) \cap Readings(F) = {}
    BY <1>5, <2>1, <2>2, ReadingsAreValid
  <2> QED
    BY <1>1, <2>3, <2>4, <2>5, OneReading DEF F
<1>11. CASE ~ (n - 2 <= 4) /\ n # 10
  <2>1. Valid(Rooms(F)) = {}
    BY <1>6, <1>11
  <2>2. Valid(Joined) = {}
    BY <1>7, <1>11
  <2>3. \A base : LeelenNumber_init(dest, text, base) = Failed(dest, 1)
    BY <1>1, <1>2, <1>11
  <2> QED
    BY <1>5, <2>1, <2>2, <2>3, NoReadings DEF F
<1> QED
  BY <1>9, <1>10, <1>11

\* Block and room.
LEMMA SeparatedMatches ==
    ASSUME text \in Strings, ~ Refused(text),
           NEW i \in 2 .. Len(text) - 1, SepsOf(text) = {i}, i # Len(text) - 1, NEW dest
    PROVE  Matches(dest)
<1> DEFINE n == Len(text)
           F == Former.block
           Fits == i - 1 <= 4 /\ n - i <= 4
<1>1. n \in 1 .. 11 /\ i \in 2 .. n - 2 /\ n - i \in Nat
  <2>1. n \in 1 .. 11 /\ i \in 2 .. n - 1 /\ i # n - 1
    BY SepsAreInside
  <2> HIDE DEF n
  <2> QED
    BY <2>1
<1>2. ASSUME NEW base
      PROVE  LeelenNumber_init(dest, text, base) =
               IF Fits THEN Done(dest, Padded(text, 0, i - 1), Padded(text, i, n - i), Nul)
               ELSE Failed(dest, 1)
  <2>1. InitForms(dest, text, base)
    BY InitCases
  <2>2. \A x : {i} = {x} => x = i
    OBVIOUS
  <2>3. \A x, y : x < y => SepsOf(text) # {x, y}
    OBVIOUS
  <2>4. SepsOf(text) # {} /\ SepsOf(text) # {n - 1}
    OBVIOUS
  <2>5. LeelenNumber_init(dest, text, base) = BlockRoom(dest, text, i, n + 1, Nul)
    BY <2>1, <2>2, <2>3, <2>4 DEF InitForms
  <2> HIDE DEF n
  <2>6. n + 1 - i - 1 = n - i /\ (Fits <=> ~ (i - 1 > 4 \/ n - i > 4))
    BY <1>1
  <2>7. BlockRoom(dest, text, i, n + 1, Nul)
          = IF i - 1 > 4 \/ n + 1 - i - 1 > 4 THEN Failed(dest, 1)
            ELSE Done(dest, Padded(text, 0, i - 1), Padded(text, i, n + 1 - i - 1), Nul)
    BY <1>1 DEF BlockRoom
  <2> HIDE DEF Fits
  <2> QED
    BY <2>5, <2>6, <2>7
<1>3. \A x, y : AreDigits(x, y) <=> i \notin x .. y
  BY DEF AreDigits
<1>4. ASSUME NEW k \in 1 .. n, NEW x
      PROVE  LET Ends == k = n /\ x = Nul
             IN  /\ Ending(k, x, FALSE) <=> Ends
                 /\ Ending(k, x, TRUE) => k = n \/ k = n - 1
                 /\ Ending(k, x, k = 4) => k = n \/ k = n - 1
  <2>1. ~ (k = n - 2 /\ k + 1 = i)
    <3> HIDE DEF n
    <3> QED
      BY <1>1
  <2> QED
    BY <2>1 DEF Ending
<1>5. ASSUME NEW r
      PROVE  r \in Valid(BlockRooms) <=> Fits /\ r = <<Word(1, i - 1), Word(i + 1, n), Nul>>
  <2>1. r \in Valid(BlockRooms) <=>
          \E k \in 1 .. n, x \in Digit \cup {Nul} :
             /\ ~ (x = Nul /\ k = i + 1)
             /\ i - 1 \in 1 .. 4 /\ AreDigits(1, i - 1)
             /\ k - i \in 1 .. 4 /\ AreDigits(i + 1, k)
             /\ Ending(k, x, FALSE)
             /\ r = <<Word(1, i - 1), Word(i + 1, k), x>>
    BY BlockRoomReadings
  <2> HIDE DEF n
  <2>2. /\ n # i + 1 /\ n \in 1 .. n /\ (i - 1 \in 1 .. 4 <=> i - 1 <= 4)
        /\ (n - i \in 1 .. 4 <=> n - i <= 4)
    BY <1>1
  <2>3. AreDigits(1, i - 1) /\ \A k : AreDigits(i + 1, k)
    BY <1>1, <1>3
  <2>4. ASSUME r \in Valid(BlockRooms)
        PROVE  Fits /\ r = <<Word(1, i - 1), Word(i + 1, n), Nul>>
    <3>1. PICK k \in 1 .. n, x \in Digit \cup {Nul} :
             /\ i - 1 \in 1 .. 4 /\ k - i \in 1 .. 4
             /\ Ending(k, x, FALSE)
             /\ r = <<Word(1, i - 1), Word(i + 1, k), x>>
      BY <2>1, <2>4
    <3>2. k = n /\ x = Nul
      BY <1>4, <3>1
    <3> QED
      BY <2>2, <3>1, <3>2
  <2>5. ASSUME Fits, r = <<Word(1, i - 1), Word(i + 1, n), Nul>>
        PROVE  r \in Valid(BlockRooms)
    <3>1. Ending(n, Nul, FALSE) /\ Nul \in Digit \cup {Nul}
      BY <1>4, <2>2
    <3> QED
      BY <2>1, <2>2, <2>3, <2>5, <3>1
  <2> QED
    BY <2>4, <2>5
<1>6. Valid(Rooms(F)) = {}
  <2>1. ASSUME NEW k \in 1 .. 4, NEW x, k <= n, AreDigits(1, k), Ending(k, x, k = 4)
        PROVE  FALSE
    <3> HIDE DEF n
    <3>1. k \in 1 .. n
      BY <1>1, <2>1
    <3>2. k = n \/ k = n - 1
      BY <1>4, <2>1, <3>1
    <3> QED
      BY <1>1, <1>3, <2>1, <3>2
  <2>2. \A r : r \notin Valid(Rooms(F))
    BY <2>1, RoomReadings, FormerBlock
  <2> QED
    BY <2>2
<1>7. Valid(Joined) = {}
  <2>1. ASSUME NEW x, n >= 8, AreDigits(1, 4), AreDigits(5, 8), Ending(8, x, TRUE)
        PROVE  FALSE
    <3> HIDE DEF n
    <3>1. 8 \in 1 .. n
      BY <1>1, <2>1
    <3>2. 8 = n \/ 8 = n - 1
      BY <1>4, <2>1, <3>1
    <3>3. i \in 1 .. 8
      BY <1>1, <3>2
    <3> QED
      BY <1>1, <1>3, <2>1, <3>3
  <2>2. \A r : r \notin Valid(Joined)
    BY <2>1, JoinedReadings
  <2> QED
    BY <2>2
<1>8. CASE Fits
  <2>1. Value(Padded(text, 0, i - 1)) = Amount(Word(1, i - 1))
    <3>1. AreDigits(0 + 1, 0 + (i - 1)) /\ i - 1 \in 1 .. 4 /\ 0 + (i - 1) <= n
      <4> HIDE DEF n
      <4> QED
        BY <1>1, <1>3, <1>8
    <3>2. Value(Padded(text, 0, i - 1)) = Amount(Word(0 + 1, 0 + (i - 1)))
      BY <3>1, PaddedAmount
    <3> QED
      BY <1>1, <3>2
  <2>2. Value(Padded(text, i, n - i)) = Amount(Word(i + 1, n))
    <3>1. AreDigits(i + 1, i + (n - i)) /\ n - i \in 1 .. 4 /\ i + (n - i) = n
      <4> HIDE DEF n
      <4> QED
        BY <1>1, <1>3, <1>8
    <3>2. Value(Padded(text, i, n - i)) = Amount(Word(i + 1, i + (n - i)))
      <4>1. i \in Nat /\ i + (n - i) <= n
        <5> HIDE DEF n
        <5> QED
          BY <1>1, <3>1
      <4> QED
        BY <3>1, <4>1, PaddedAmount
    <3> HIDE DEF n
    <3> QED
      BY <3>1, <3>2
  <2> HIDE DEF n, F
  <2>3. /\ Readings(F) = {<<Word(1, i - 1), Word(i + 1, n), Nul>>}
        /\ Rooms(F) \cap Readings(F) = {}
    <3>1. Valid(BlockRooms) = {<<Word(1, i - 1), Word(i + 1, n), Nul>>}
      BY <1>5, <1>8
    <3> QED
      BY <1>6, <1>7, <3>1, ReadingsAreValid
  <2>4. /\ LeelenNumber_init(dest, text, {Former})
             = Done(dest, Padded(text, 0, i - 1), Padded(text, i, n - i), Nul)
        /\ LeelenNumber_init(dest, text, {})
             = Done(dest, Padded(text, 0, i - 1), Padded(text, i, n - i), Nul)
    BY <1>2, <1>8
  <2> QED
    BY <2>1, <2>2, <2>3, <2>4, OneReading DEF F
<1>9. CASE ~ Fits
  <2> HIDE DEF n, F, Fits
  <2>1. Valid(BlockRooms) = {}
    BY <1>5, <1>9
  <2>2. \A base : LeelenNumber_init(dest, text, base) = Failed(dest, 1)
    BY <1>2, <1>9
  <2> QED
    BY <1>6, <1>7, <2>1, <2>2, NoReadings DEF F
<1> QED
  BY <1>8, <1>9

\* Block, room and extension.
LEMMA TwiceSeparatedMatches ==
    ASSUME text \in Strings, ~ Refused(text),
           NEW i \in 2 .. Len(text) - 1, NEW j \in 2 .. Len(text) - 1,
           SepsOf(text) = {i, j}, i < j, NEW dest
    PROVE  Matches(dest)
<1> DEFINE n == Len(text)
           F == Former.block
           e == text[n]
           Fits == j = n - 1 /\ i + 1 < j /\ i - 1 <= 4 /\ j - i - 1 <= 4
<1>1. /\ n \in 1 .. 11 /\ i \in 2 .. n - 1 /\ j \in 2 .. n - 1
      /\ e \in Digit /\ e # Nul
  <2>1. /\ n \in 1 .. 11 /\ i \in 2 .. n - 1 /\ j \in 2 .. n - 1
        /\ \A x \in 1 .. n : x \notin {i, j} => text[x] \in Digit
    BY SepsAreInside
  <2> HIDE DEF n
  <2>2. n \in 1 .. n /\ n \notin {i, j}
    BY <2>1
  <2>3. text[n] \in Digit
    BY <2>1, <2>2
  <2> QED
    BY <2>1, <2>3 DEF Digit, Nul
<1>2. ASSUME NEW base
      PROVE  LeelenNumber_init(dest, text, base) =
               IF Fits THEN Done(dest, Padded(text, 0, i - 1), Padded(text, i, j - i - 1), e)
               ELSE Failed(dest, 1)
  <2>1. InitForms(dest, text, base)
    BY InitCases
  <2>2. \A x, y : {i, j} = {x, y} /\ x < y => x = i /\ y = j
    <3> SUFFICES ASSUME NEW x, NEW y, {i, j} = {x, y}, x < y PROVE x = i /\ y = j
      OBVIOUS
    <3>1. x \in {i, j} /\ y \in {i, j} /\ i \in {x, y} /\ j \in {x, y}
      BY {i, j} = {x, y}
    <3>2. i \in Int /\ j \in Int
      BY <1>1
    <3> QED
      BY <3>1, <3>2
  <2>3. SepsOf(text) # {} /\ \A x : SepsOf(text) # {x}
    <3>1. i # j
      <4>1. i \in Int /\ j \in Int
        BY <1>1
      <4> QED
        BY <4>1
    <3> QED
      BY <3>1
  <2>4. LeelenNumber_init(dest, text, base) =
          IF i + 1 = j \/ j # n - 1 THEN Failed(dest, 1)
          ELSE BlockRoom(dest, text, i, j, e)
    BY <2>1, <2>2, <2>3 DEF InitForms
  <2> HIDE DEF n, e
  <2>5. BlockRoom(dest, text, i, j, e)
          = IF i - 1 > 4 \/ j - i - 1 > 4 THEN Failed(dest, 1)
            ELSE Done(dest, Padded(text, 0, i - 1), Padded(text, i, j - i - 1), e)
    BY <1>1 DEF BlockRoom
  <2>6. Fits <=> ~ (i + 1 = j \/ j # n - 1) /\ ~ (i - 1 > 4 \/ j - i - 1 > 4)
    BY <1>1
  <2> HIDE DEF Fits
  <2> QED
    BY <2>4, <2>5, <2>6
<1>3. \A x, y : AreDigits(x, y) <=> i \notin x .. y /\ j \notin x .. y
  BY DEF AreDigits
<1>4. ASSUME NEW k \in 1 .. n, NEW x
      PROVE  LET Ends == (k = n /\ x = Nul) \/ (k = n - 2 /\ j = n - 1 /\ x = e)
             IN  /\ Ending(k, x, FALSE) <=> Ends
                 /\ Ending(k, x, TRUE) => Ends \/ k = n - 1
                 /\ Ending(k, x, k = 4) => Ends \/ k = n - 1
  <2>1. k = n - 2 => (k + 1 \in {i, j} <=> j = n - 1)
    <3> HIDE DEF n
    <3> QED
      BY <1>1
  <2> QED
    BY <2>1 DEF Ending
<1>5. ASSUME NEW r
      PROVE  r \in Valid(BlockRooms) <=>
               Fits /\ r = <<Word(1, i - 1), Word(i + 1, j - 1), e>>
  <2>1. r \in Valid(BlockRooms) <=>
          \E p \in {i, j}, k \in 1 .. n, x \in Digit \cup {Nul} :
             /\ ~ (x = Nul /\ k = p + 1)
             /\ p - 1 \in 1 .. 4 /\ AreDigits(1, p - 1)
             /\ k - p \in 1 .. 4 /\ AreDigits(p + 1, k)
             /\ Ending(k, x, FALSE)
             /\ r = <<Word(1, p - 1), Word(p + 1, k), x>>
    BY BlockRoomReadings
  <2> HIDE DEF n, e
  <2>2. ASSUME r \in Valid(BlockRooms)
        PROVE  Fits /\ r = <<Word(1, i - 1), Word(i + 1, j - 1), e>>
    <3>1. PICK p \in {i, j}, k \in 1 .. n, x \in Digit \cup {Nul} :
             /\ p - 1 \in 1 .. 4 /\ AreDigits(1, p - 1)
             /\ k - p \in 1 .. 4 /\ AreDigits(p + 1, k)
             /\ Ending(k, x, FALSE)
             /\ r = <<Word(1, p - 1), Word(p + 1, k), x>>
      BY <2>1, <2>2
    <3>2. p = i
      <4>1. i \notin 1 .. p - 1
        BY <1>3, <3>1
      <4> QED
        BY <1>1, <3>1, <4>1
    <3>3. j \notin i + 1 .. k
      BY <1>3, <3>1, <3>2
    <3>4. k = n - 2 /\ j = n - 1 /\ x = e
      <4>1. (k = n /\ x = Nul) \/ (k = n - 2 /\ j = n - 1 /\ x = e)
        BY <1>4, <3>1
      <4> QED
        BY <1>1, <3>3, <4>1
    <3>5. Fits /\ k = j - 1
      BY <1>1, <3>1, <3>2, <3>4
    <3> QED
      BY <3>1, <3>2, <3>4, <3>5
  <2>3. ASSUME Fits, r = <<Word(1, i - 1), Word(i + 1, j - 1), e>>
        PROVE  r \in Valid(BlockRooms)
    <3>1. /\ j - 1 \in 1 .. n /\ j - 1 = n - 2 /\ j = n - 1
          /\ i - 1 \in 1 .. 4 /\ (j - 1) - i \in 1 .. 4
      BY <1>1, <2>3
    <3>2. AreDigits(1, i - 1) /\ AreDigits(i + 1, j - 1)
      BY <1>1, <1>3
    <3>3. Ending(j - 1, e, FALSE) /\ e \in Digit \cup {Nul}
      BY <1>1, <1>4, <3>1
    <3>4. e # Nul
      BY <1>1
    <3> HIDE DEF Fits
    <3> QED
      BY <2>1, <2>3, <3>1, <3>2, <3>3, <3>4
  <2> QED
    BY <2>2, <2>3
<1>6. Valid(Rooms(F)) = {}
  <2>1. ASSUME NEW k \in 1 .. 4, NEW x, k <= n, AreDigits(1, k), Ending(k, x, k = 4)
        PROVE  FALSE
    <3> HIDE DEF n
    <3>1. k \in 1 .. n
      BY <1>1, <2>1
    <3>2. k = n \/ k = n - 1 \/ (k = n - 2 /\ j = n - 1)
      BY <1>4, <2>1, <3>1
    <3>3. i \notin 1 .. k
      BY <1>3, <2>1
    <3> QED
      BY <1>1, <3>2, <3>3
  <2>2. \A r : r \notin Valid(Rooms(F))
    BY <2>1, RoomReadings, FormerBlock
  <2> QED
    BY <2>2
<1>7. Valid(Joined) = {}
  <2>1. ASSUME NEW x, n >= 8, AreDigits(1, 4), AreDigits(5, 8), Ending(8, x, TRUE)
        PROVE  FALSE
    <3> HIDE DEF n
    <3>1. 8 \in 1 .. n
      BY <1>1, <2>1
    <3>2. 8 = n \/ 8 = n - 1 \/ (8 = n - 2 /\ j = n - 1)
      BY <1>4, <2>1, <3>1
    <3>3. i \notin 1 .. 4 /\ i \notin 5 .. 8
      BY <1>3, <2>1
    <3> QED
      BY <1>1, <3>2, <3>3
  <2>2. \A r : r \notin Valid(Joined)
    BY <2>1, JoinedReadings
  <2> QED
    BY <2>2
<1>8. CASE Fits
  <2>1. Value(Padded(text, 0, i - 1)) = Amount(Word(1, i - 1))
    <3>1. AreDigits(0 + 1, 0 + (i - 1)) /\ i - 1 \in 1 .. 4 /\ 0 + (i - 1) <= n
      <4> HIDE DEF n
      <4> QED
        BY <1>1, <1>3, <1>8
    <3>2. Value(Padded(text, 0, i - 1)) = Amount(Word(0 + 1, 0 + (i - 1)))
      BY <3>1, PaddedAmount
    <3> QED
      BY <1>1, <3>2
  <2>2. Value(Padded(text, i, j - i - 1)) = Amount(Word(i + 1, j - 1))
    <3>1. /\ AreDigits(i + 1, i + (j - i - 1)) /\ j - i - 1 \in 1 .. 4
          /\ i + (j - i - 1) = j - 1 /\ i \in Nat /\ i + (j - i - 1) <= n
      <4> HIDE DEF n
      <4> QED
        BY <1>1, <1>3, <1>8
    <3>2. Value(Padded(text, i, j - i - 1)) = Amount(Word(i + 1, i + (j - i - 1)))
      BY <3>1, PaddedAmount
    <3> HIDE DEF n
    <3> QED
      BY <3>1, <3>2
  <2> HIDE DEF n, F, e, Fits
  <2>3. /\ Readings(F) = {<<Word(1, i - 1), Word(i + 1, j - 1), e>>}
        /\ Rooms(F) \cap Readings(F) = {}
    <3>1. Valid(BlockRooms) = {<<Word(1, i - 1), Word(i + 1, j - 1), e>>}
      BY <1>5, <1>8
    <3> QED
      BY <1>6, <1>7, <3>1, ReadingsAreValid
  <2>4. /\ LeelenNumber_init(dest, text, {Former})
             = Done(dest, Padded(text, 0, i - 1), Padded(text, i, j - i - 1), e)
        /\ LeelenNumber_init(dest, text, {})
             = Done(dest, Padded(text, 0, i - 1), Padded(text, i, j - i - 1), e)
    BY <1>2, <1>8
  <2> QED
    BY <1>1, <2>1, <2>2, <2>3, <2>4, OneReading DEF F
<1>9. CASE ~ Fits
  <2> HIDE DEF n, F, e, Fits
  <2>1. Valid(BlockRooms) = {}
    BY <1>5, <1>9
  <2>2. \A base : LeelenNumber_init(dest, text, base) = Failed(dest, 1)
    BY <1>2, <1>9
  <2> QED
    BY <1>6, <1>7, <2>1, <2>2, NoReadings DEF F
<1> QED
  BY <1>8, <1>9

\* LeelenNumber_init accepts exactly the texts that number.h:134-138 lists and
\* stores the block, the room and the extension that the text names, for texts
\* of any length and either memory; without a base it answers 2 for a text that
\* needs one.
THEOREM ParserTakesListedForms == TextSpec => []ParseMatchesForms
<1>1. TextInv => ParseMatchesForms
  <2> SUFFICES ASSUME TextInv, NEW dest \in {Blank, Former} PROVE Matches(dest)
    BY DEF ParseMatchesForms, Matches
  <2>1. text \in Strings
    BY DEF TextInv
  <2>2. CASE Refused(text)
    <3>1. \A base : LeelenNumber_init(dest, text, base) = Failed(dest, 1)
      BY <2>1, <2>2, InitCases DEF InitForms
    <3> QED
      BY <2>1, <2>2, <3>1, RefusedHasNone, NoReadings
  <2>3. CASE ~ Refused(text)
    <3>1. InitForms(dest, text, {})
      BY <2>1, InitCases
    <3>2. \/ SepsOf(text) = {} \/ SepsOf(text) = {Len(text) - 1}
          \/ \E i \in 2 .. Len(text) - 1 : SepsOf(text) = {i} /\ i # Len(text) - 1
          \/ \E i, j \in 2 .. Len(text) - 1 : SepsOf(text) = {i, j} /\ i < j
      BY <2>3, <3>1 DEF InitForms
    <3> QED
      BY <2>1, <2>3, <3>2, PlainMatches, ExtendedMatches, SeparatedMatches, TwiceSeparatedMatches
  <2> QED
    BY <2>2, <2>3
<1> QED
  BY <1>1, TextAlways, PTL

---------------------------------------------------------------------------
(* The command line.                                                       *)

\* All that the options do to the ports.
PortsStep ==
    \/ UNCHANGED ports
    \/ \E s \in Services, port \in 1 .. MaxPort :
         \/ /\ SetPort(s, port)
            /\ last' = [last EXCEPT ![<<"dst", s>>] = port] /\ UNCHANGED listen
         \/ /\ src' = [src EXCEPT ![s] = port] /\ listen' = listen \cup {s}
            /\ last' = [last EXCEPT ![<<"src", s>>] = port] /\ UNCHANGED dst

\* Nobody goes on to open sockets without having compared the ports.
GoesOn ==
    place' \in {"sync", "connect"} =>
        UNCHANGED ports /\ (place \in {"sync", "connect"} \/ ~ SamePorts)

\* The type of everything else.
SettingsTyped ==
    /\ place' \in {"parse", "check", "sync", "connect", "fail", "end"}
    /\ number' \in BOOLEAN
    /\ {leelen', sip'} \subseteq Addressings
    /\ sipPort' \in 1 .. MaxPort
    /\ flags' \subseteq Switches \cup Texts \cup Media \cup {"interface"}
    /\ reported' \in {"unset", "option", "address"}
    /\ options' \in 0 .. MaxOptions

LEMMA ArgIsInRange ==
    ASSUME NEW t, NEW least, NEW most
    PROVE  argtoi(t, least, most) \subseteq least .. most
BY DEF argtoi

LEMMA ArgIsAddress ==
    ASSUME NEW t \in Addressings, NEW addr \in Addressings
    PROVE  /\ argtosockaddr(t, addr) \in Addressings
           /\ [argtosockaddr(t, addr) EXCEPT !.family = t.family] \in Addressings
BY DEF argtosockaddr, Addressings

\* What a step does, action by action.
LEMMA OptionSteps ==
    ASSUME CommandLineTypeOK, [CommandLineNext]_commandVars
    PROVE  PortsStep /\ GoesOn /\ SettingsTyped
<1> USE DEF CommandLineTypeOK, Option, Fail, Go, config, ports, rest, PortsStep, GoesOn, SettingsTyped
<1>a. MaxOptions \in Nat /\ Interfaces \subseteq Addressings
  BY CommandLineAssumption DEF CommandLineAssumption
<1>o. Option => options' \in 0 .. MaxOptions
  BY <1>a
<1>1. CASE Number \/ TooMany \/ ReportAddress \/ HelpOrUnknown
  BY <1>o, <1>1 DEF Number, TooMany, ReportAddress, HelpOrUnknown
<1>2. ASSUME NEW t \in Interfaces, Interface(t) \/ SipInterface(t)
      PROVE  PortsStep /\ GoesOn /\ SettingsTyped
  BY <1>a, <1>o, <1>2, ArgIsAddress DEF Interface, SipInterface
<1>r. ASSUME NEW t PROVE argtoi(t, 1, MaxPort) \subseteq 1 .. MaxPort
  BY ArgIsInRange
<1>3. ASSUME NEW t \in NumberTexts, Port(t)
      PROVE  PortsStep /\ GoesOn /\ SettingsTyped
  BY <1>o, <1>3, <1>r DEF Port
<1>4. ASSUME NEW t \in NumberTexts, NEW s \in Services, ServicePort(s, t) \/ ListenPort(s, t)
      PROVE  PortsStep /\ GoesOn /\ SettingsTyped
  BY <1>o, <1>4, <1>r DEF ServicePort, ListenPort
<1>7. ASSUME NEW t \in NumberTexts, NEW o \in Media, MediaNumber(o, t)
      PROVE  PortsStep /\ GoesOn /\ SettingsTyped
  BY <1>o, <1>7 DEF MediaNumber
<1>8. ASSUME NEW o \in Switches, Switch(o)
      PROVE  PortsStep /\ GoesOn /\ SettingsTyped
  BY <1>o, <1>8 DEF Switch
<1>9. ASSUME NEW o \in Texts, Text(o)
      PROVE  PortsStep /\ GoesOn /\ SettingsTyped
  BY <1>o, <1>9 DEF Text
<1>5. CASE Parsed
  <2>1. {leelen', sip'} \subseteq Addressings
    BY <1>5 DEF Parsed, Addressings
  <2> QED
    BY <1>5, <2>1 DEF Parsed
<1>6. CASE Check \/ Sync \/ UNCHANGED commandVars
  BY <1>6 DEF Check, Sync, commandVars
<1> HIDE DEF CommandLineTypeOK, Option, Fail, Go, config, ports, rest, PortsStep, GoesOn, SettingsTyped
<1> QED
  BY <1>1, <1>2, <1>3, <1>4, <1>5, <1>6, <1>7, <1>8, <1>9 DEF CommandLineNext

\* Where the ports to listen on come from, and that they were compared.
PortsInv ==
    /\ \A s \in Services :
         /\ src[s] = IF last[<<"src", s>>] # 0 THEN last[<<"src", s>>]
                     ELSE IF last[<<"dst", s>>] # 0 THEN last[<<"dst", s>>]
                     ELSE DefaultPort[s]
         /\ s \in listen <=> last[<<"src", s>>] # 0
    /\ place \in {"sync", "connect"} => ~ SamePorts

CommandLineInv == CommandLineTypeOK /\ PortsInv

LEMMA CommandLineInitInv == CommandLineInit => CommandLineInv
<1> SUFFICES ASSUME CommandLineInit PROVE CommandLineInv
  OBVIOUS
<1> USE CommandLineAssumption DEF CommandLineAssumption, CommandLineInit
<1>1. \A s \in Services \cup {"sip"} : DefaultPort[s] \in 1 .. MaxPort
  OBVIOUS
<1>2. Unspecified \in Addressings
  OBVIOUS
<1>3. last \in [{"dst", "src"} \X Services -> 0 .. MaxPort]
  OBVIOUS
<1>4. dst \in [Services -> 1 .. MaxPort] /\ src \in [Services -> 1 .. MaxPort]
  BY <1>1
<1>5. CommandLineTypeOK
  <2>1. sipPort \in 1 .. MaxPort
    BY <1>1
  <2>2. options \in 0 .. MaxOptions
    OBVIOUS
  <2>3. {leelen, sip} \subseteq Addressings
    BY <1>2
  <2> QED
    BY <1>3, <1>4, <2>1, <2>2, <2>3 DEF CommandLineTypeOK
<1>6. \A s \in Services : last[<<"src", s>>] = 0 /\ last[<<"dst", s>>] = 0
  OBVIOUS
<1>7. PortsInv
  BY <1>6 DEF PortsInv
<1> QED
  BY <1>5, <1>7 DEF CommandLineInv

LEMMA CommandLineStepInv ==
    ASSUME CommandLineInv, [CommandLineNext]_commandVars
    PROVE  CommandLineInv'
<1>a. MaxPort \in Nat
  BY CommandLineAssumption DEF CommandLineAssumption
<1>1. PortsStep /\ GoesOn /\ SettingsTyped
  BY OptionSteps DEF CommandLineInv
<1>2. CASE UNCHANGED ports
  <2>1. CommandLineTypeOK'
    BY <1>1, <1>2 DEF CommandLineInv, CommandLineTypeOK, SettingsTyped, ports
  <2>2. SamePorts' <=> SamePorts
    BY <1>2 DEF SamePorts, ports
  <2>3. PortsInv'
    BY <1>1, <1>2, <2>2 DEF CommandLineInv, PortsInv, GoesOn, ports
  <2> QED
    BY <2>1, <2>3 DEF CommandLineInv
<1>3. ASSUME NEW s \in Services, NEW port \in 1 .. MaxPort, ~ UNCHANGED ports,
             \/ /\ SetPort(s, port)
                /\ last' = [last EXCEPT ![<<"dst", s>>] = port] /\ UNCHANGED listen
             \/ /\ src' = [src EXCEPT ![s] = port] /\ listen' = listen \cup {s}
                /\ last' = [last EXCEPT ![<<"src", s>>] = port] /\ UNCHANGED dst
      PROVE  CommandLineInv'
  <2>1. dst' \in [Services -> 1 .. MaxPort] /\ src' \in [Services -> 1 .. MaxPort]
    BY <1>3 DEF CommandLineInv, CommandLineTypeOK, SetPort
  <2>2. last' \in [{"dst", "src"} \X Services -> 0 .. MaxPort] /\ listen' \subseteq Services
    BY <1>3 DEF CommandLineInv, CommandLineTypeOK
  <2>3. ASSUME NEW t \in Services
        PROVE  /\ src'[t] = IF last'[<<"src", t>>] # 0 THEN last'[<<"src", t>>]
                            ELSE IF last'[<<"dst", t>>] # 0 THEN last'[<<"dst", t>>]
                            ELSE DefaultPort[t]
               /\ t \in listen' <=> last'[<<"src", t>>] # 0
    <3>1. CASE t = s
      BY <1>a, <1>3, <3>1 DEF CommandLineInv, CommandLineTypeOK, PortsInv, SetPort
    <3>2. CASE t # s
      BY <1>a, <1>3, <3>2 DEF CommandLineInv, CommandLineTypeOK, PortsInv, SetPort
    <3> QED
      BY <3>1, <3>2
  <2>4. place' \notin {"sync", "connect"}
    BY <1>1, <1>3 DEF GoesOn
  <2> QED
    BY <1>1, <2>1, <2>2, <2>3, <2>4
    DEF CommandLineInv, CommandLineTypeOK, PortsInv, SettingsTyped
<1> QED
  BY <1>1, <1>2, <1>3 DEF PortsStep

\* Whatever the options, their number and their order, the settings of main()
\* keep their types, ports above all.
THEOREM SettingsKeepTypes == CommandLineSpec => []CommandLineTypeOK
<1>1. CommandLineSpec => []CommandLineInv
  BY CommandLineInitInv, CommandLineStepInv, PTL DEF CommandLineSpec
<1>2. CommandLineInv => CommandLineTypeOK
  BY DEF CommandLineInv
<1> QED
  BY <1>1, <1>2, PTL

\* Three services with three ports.
LEMMA ThreePorts ==
    ASSUME CommandLineTypeOK, ~ SamePorts
    PROVE  Cardinality({src[s] : s \in Services}) = 3
<1>1. {src[s] : s \in Services} = {src["discovery"], src["voip"], src["control"]}
  BY DEF Services
<1>2. /\ src["discovery"] # src["voip"]
      /\ src["discovery"] # src["control"]
      /\ src["voip"] # src["control"]
  BY DEF SamePorts, Services
<1>3. IsFiniteSet({}) /\ Cardinality({}) = 0
  BY FS_EmptySet
<1>4. IsFiniteSet({src["discovery"]}) /\ Cardinality({src["discovery"]}) = 1
  BY FS_Singleton
<1>5. /\ IsFiniteSet({src["discovery"], src["voip"]})
      /\ Cardinality({src["discovery"], src["voip"]}) = 2
  <2>1. {src["discovery"], src["voip"]} = {src["discovery"]} \cup {src["voip"]}
    OBVIOUS
  <2> QED
    BY <1>2, <1>4, <2>1, FS_AddElement
<1>6. {src["discovery"], src["voip"], src["control"]}
        = {src["discovery"], src["voip"]} \cup {src["control"]}
  OBVIOUS
<1>7. src["control"] \notin {src["discovery"], src["voip"]}
  BY <1>2
<1>8. Cardinality({src["discovery"], src["voip"]} \cup {src["control"]}) = 2 + 1
  BY <1>5, <1>7, FS_AddElement
<1> QED
  BY <1>1, <1>6, <1>8

\* A service listens on its last --X-listen port, without one on its last --X
\* port, and without that on its default port; and the program goes on to open
\* sockets only with three different ones, whatever the user has given.
THEOREM ListensOnLastPort == CommandLineSpec => []ListenWins
<1>1. CommandLineSpec => []CommandLineInv
  BY CommandLineInitInv, CommandLineStepInv, PTL DEF CommandLineSpec
<1>2. CommandLineInv => ListenWins
  BY ThreePorts DEF CommandLineInv, PortsInv, ListenWins
<1> QED
  BY <1>1, <1>2, PTL

---------------------------------------------------------------------------
(* Numbers and powers of two.  The provers know no law of powers: 2 ^ n is  *)
(* the number of subsets of 1 .. n here, which is what FS_SUBSET says.  Nor *)
(* can they use an induction over formulas: `Induction' is one over a set.  *)

LEMMA LeastNumber ==
    ASSUME NEW T \in SUBSET Nat, T # {}
    PROVE  \E x \in T : \A y \in T : x <= y
<1>1. \E x \in T : \A y \in T : ~ (<<y, x>> \in OpToRel(<, Nat))
  BY NatLessThanWellFounded, WFMin
<1>2. OpToRel(<, Nat) = {ss \in Nat \X Nat : ss[1] < ss[2]}
  BY Zenon DEF OpToRel
<1>3. \E x \in T : \A y \in T : ~ (<<y, x>> \in {ss \in Nat \X Nat : ss[1] < ss[2]})
  BY <1>1, <1>2, Zenon
<1>4. PICK x \in T : \A y \in T : ~ (<<y, x>> \in {ss \in Nat \X Nat : ss[1] < ss[2]})
  BY <1>3
<1>5. ASSUME NEW y \in T PROVE x <= y
  <2>1. <<y, x>> \in Nat \X Nat /\ <<y, x>>[1] = y /\ <<y, x>>[2] = x
    OBVIOUS
  <2>2. ~ (<<y, x>>[1] < <<y, x>>[2])
    BY <1>4, <2>1, Zenon
  <2> QED
    BY <2>1, <2>2
<1> QED
  BY <1>4, <1>5

\* Induction, over a set of numbers.
LEMMA Induction ==
    ASSUME NEW T \in SUBSET Nat, 0 \in T, \A n \in Nat : n \in T => n + 1 \in T
    PROVE  T = Nat
<1> SUFFICES ASSUME Nat \ T # {} PROVE FALSE
  OBVIOUS
<1>1. PICK x \in Nat \ T : \A y \in Nat \ T : x <= y
  BY LeastNumber
<1>2. x # 0 /\ x - 1 \in Nat /\ x - 1 \in T
  BY <1>1
<1> QED
  BY <1>2

LEMMA PowerOfZero == 2 ^ 0 = 1
<1>1. IsFiniteSet({}) /\ Cardinality({}) = 0
  BY FS_EmptySet
<1>2. Cardinality(SUBSET {}) = 2 ^ 0
  BY <1>1, FS_SUBSET
<1>3. SUBSET {} = {{}}
  OBVIOUS
<1>4. Cardinality({{}}) = 1
  BY FS_Singleton
<1> QED
  BY <1>2, <1>3, <1>4

LEMMA PowerOfSum ==
    ASSUME NEW n \in Nat
    PROVE  2 ^ n \in Nat /\ 2 ^ (n + 1) = 2 * 2 ^ n
<1> DEFINE S == 1 .. n
           T == 1 .. n + 1
           U == {s \cup {n + 1} : s \in SUBSET S}
<1>1. IsFiniteSet(S) /\ Cardinality(S) = n /\ IsFiniteSet(T) /\ Cardinality(T) = n + 1
  BY FS_Interval
<1>2. /\ IsFiniteSet(SUBSET S) /\ Cardinality(SUBSET S) = 2 ^ n
      /\ Cardinality(SUBSET T) = 2 ^ (n + 1)
  BY <1>1, FS_SUBSET
<1>3. IsFiniteSet(U) /\ Cardinality(U) = Cardinality(SUBSET S)
  <2> DEFINE f == [s \in SUBSET S |-> s \cup {n + 1}]
  <2>1. n + 1 \notin S
    OBVIOUS
  <2> HIDE DEF S
  <2>2. f \in Bijection(SUBSET S, U)
    <3>1. f \in [SUBSET S -> U]
      OBVIOUS
    <3>2. \A a, b \in SUBSET S : f[a] = f[b] => a = b
      BY <2>1
    <3>3. \A u \in U : \E s \in SUBSET S : f[s] = u
      OBVIOUS
    <3> QED
      <4>1. DOMAIN f = SUBSET S
        OBVIOUS
      <4> HIDE DEF f
      <4> QED
        BY <3>1, <3>2, <3>3, <4>1, Zenon DEF Bijection, Injection, Surjection, IsInjective
  <2>3. ExistsBijection(SUBSET S, U)
    BY <2>2 DEF ExistsBijection
  <2> QED
    BY <1>2, <2>3, FS_Bijection
<1>4. SUBSET T = (SUBSET S) \cup U
  <2>1. T = S \cup {n + 1} /\ n + 1 \notin S
    OBVIOUS
  <2> HIDE DEF S, T
  <2>2. ASSUME NEW t \in SUBSET T PROVE t \in SUBSET S \/ t \in U
    <3>1. CASE n + 1 \in t
      <4>1. t \ {n + 1} \in SUBSET S /\ t = (t \ {n + 1}) \cup {n + 1}
        BY <2>1, <3>1
      <4> QED
        BY <4>1
    <3>2. CASE n + 1 \notin t
      BY <2>1, <3>2
    <3> QED
      BY <3>1, <3>2
  <2> QED
    BY <2>1, <2>2
<1>5. (SUBSET S) \cap U = {}
  OBVIOUS
<1> HIDE DEF S, T, U
<1>6. Cardinality(SUBSET T) = Cardinality(SUBSET S) + Cardinality(U) - Cardinality({})
  BY <1>2, <1>3, <1>4, <1>5, FS_Union
<1>7. Cardinality({}) = 0 /\ Cardinality(SUBSET S) \in Nat
  BY <1>2, FS_EmptySet, FS_CardinalityType
<1> DEFINE a == 2 ^ n
           b == 2 ^ (n + 1)
<1>8. a = Cardinality(SUBSET S) /\ b = Cardinality(SUBSET T)
  BY <1>2
<1> HIDE DEF a, b
<1>9. a \in Nat /\ b = 2 * a
  BY <1>3, <1>6, <1>7, <1>8
<1> QED
  BY <1>9 DEF a, b

LEMMA Division ==
    ASSUME NEW w \in Nat, NEW d \in Nat \ {0}
    PROVE  /\ w \div d \in Nat /\ w % d \in 0 .. d - 1
           /\ w = d * (w \div d) + (w % d)
OBVIOUS

LEMMA Quotient ==
    ASSUME NEW d \in Nat \ {0}, NEW q \in Nat, NEW r \in 0 .. d - 1, NEW w \in Nat,
           w = d * q + r
    PROVE  w \div d = q /\ w % d = r
<1> DEFINE p == w \div d
           s == w % d
<1>1. p \in Nat /\ s \in 0 .. d - 1 /\ w = d * p + s
  BY Division
<1> HIDE DEF p, s
<1>2. p = q
  <2>1. ASSUME p < q PROVE FALSE
    <3>1. PICK k \in Nat : q = p + k + 1
      <4>1. q - p - 1 \in Nat /\ q = p + (q - p - 1) + 1
        BY <1>1, <2>1
      <4> QED
        BY <4>1
    <3>2. d * q = d * p + d * k + d /\ d * k \in Nat /\ d * p \in Nat
      BY <1>1, <3>1
    <3> QED
      BY <1>1, <3>2
  <2>2. ASSUME q < p PROVE FALSE
    <3>1. PICK k \in Nat : p = q + k + 1
      <4>1. p - q - 1 \in Nat /\ p = q + (p - q - 1) + 1
        BY <1>1, <2>2
      <4> QED
        BY <4>1
    <3>2. d * p = d * q + d * k + d /\ d * k \in Nat /\ d * q \in Nat
      BY <1>1, <3>1
    <3> QED
      BY <1>1, <3>2
  <2> QED
    BY <1>1, <2>1, <2>2
<1>3. d * p \in Nat
  BY <1>1
<1>4. s = r
  BY <1>1, <1>2, <1>3
<1> QED
  BY <1>2, <1>4 DEF p, s

LEMMA Doubled ==
    ASSUME NEW w \in Nat, NEW d \in Nat \ {0}
    PROVE  /\ w \div d = 2 * (w \div (2 * d)) + ((w \div d) % 2)
           /\ (w % (2 * d)) = 0 <=> w % d = 0 /\ (w \div d) % 2 = 0
<1> DEFINE e == 2 * d
           q == w \div e
           r == w % e
<1>1. e \in Nat \ {0} /\ q \in Nat /\ r \in 0 .. e - 1 /\ w = e * q + r
  <2>1. e \in Nat \ {0}
    OBVIOUS
  <2> HIDE DEF e
  <2> QED
    BY <2>1, Division
<1> HIDE DEF q, r
<1>2. w = d * (2 * q) + r /\ 2 * q \in Nat
  BY <1>1
<1>3. CASE r < d
  <2>1. w \div d = 2 * q /\ w % d = r
    BY <1>1, <1>2, <1>3, Quotient
  <2> QED
    BY <1>1, <2>1 DEF q, r
<1>4. CASE r >= d
  <2>1. w = d * (2 * q + 1) + (r - d) /\ r - d \in 0 .. d - 1 /\ 2 * q + 1 \in Nat
    BY <1>1, <1>2, <1>4
  <2>2. w \div d = 2 * q + 1 /\ w % d = r - d
    BY <2>1, Quotient
  <2>3. (2 * q + 1) % 2 = 1
    BY <1>1
  <2> QED
    BY <1>1, <1>4, <2>2, <2>3 DEF q, r
<1> QED
  BY <1>1, <1>3, <1>4

\* Bit j of a word, from the right.
Bit(w, j) == (w \div Pow2(j)) % 2

LEMMA Powers ==
    \A n \in Nat : Pow2(n) \in Nat \ {0} /\ Pow2(n + 1) = 2 * Pow2(n)
<1> DEFINE T == {n \in Nat : Pow2(n) \in Nat \ {0}}
<1>1. 0 \in T
  BY PowerOfZero DEF Pow2
<1>2. ASSUME NEW n \in Nat, n \in T PROVE n + 1 \in T
  <2> DEFINE a == Pow2(n)
             b == Pow2(n + 1)
  <2>1. a \in Nat \ {0} /\ b = 2 * a
    BY <1>2, PowerOfSum DEF Pow2
  <2> HIDE DEF a, b
  <2>2. b \in Nat \ {0}
    BY <2>1
  <2> QED
    BY <2>2 DEF b
<1> HIDE DEF T
<1>3. T = Nat
  <2>1. T \in SUBSET Nat
    BY DEF T
  <2> QED
    BY <1>1, <1>2, <2>1, Induction
<1> QED
  BY <1>3, PowerOfSum DEF T, Pow2

\* The last m bits of a word are zero.
LEMMA LowBits ==
    ASSUME NEW w \in Nat
    PROVE  \A m \in Nat : w % Pow2(m) = 0 <=> \A j \in 0 .. m - 1 : Bit(w, j) = 0
<1> DEFINE T == {m \in Nat : w % Pow2(m) = 0 <=> \A j \in 0 .. m - 1 : Bit(w, j) = 0}
<1>1. 0 \in T
  <2>1. Pow2(0) = 1
    BY PowerOfZero DEF Pow2
  <2>2. w % 1 = 0 /\ 0 .. 0 - 1 = {}
    OBVIOUS
  <2> QED
    BY <2>1, <2>2
<1>2. ASSUME NEW m \in Nat, m \in T PROVE m + 1 \in T
  <2> DEFINE d == Pow2(m)
  <2>1. d \in Nat \ {0} /\ Pow2(m + 1) = 2 * d
    BY Powers
  <2>2. w % Pow2(m + 1) = 0 <=> w % d = 0 /\ (w \div d) % 2 = 0
    <3> HIDE DEF d
    <3> QED
      BY <2>1, Doubled
  <2>3. (w \div d) % 2 = Bit(w, m)
    BY DEF Bit
  <2>4. w % d = 0 <=> \A j \in 0 .. m - 1 : Bit(w, j) = 0
    BY <1>2
  <2>5. 0 .. (m + 1) - 1 = (0 .. m - 1) \cup {m}
    OBVIOUS
  <2> HIDE DEF d
  <2> QED
    BY <2>2, <2>3, <2>4, <2>5
<1> HIDE DEF T
<1>3. T = Nat
  <2>1. T \in SUBSET Nat
    BY DEF T
  <2> QED
    BY <1>1, <1>2, <2>1, Induction
<1> QED
  BY <1>3 DEF T

\* Two words agree but for their last bits.
LEMMA HighBits ==
    ASSUME NEW w \in Nat, NEW v \in Nat, NEW b \in Nat, w < Pow2(b), v < Pow2(b),
           NEW m \in 0 .. b
    PROVE  w \div Pow2(m) = v \div Pow2(m) <=> \A j \in m .. b - 1 : Bit(w, j) = Bit(v, j)
<1> DEFINE Agree(k) == w \div Pow2(k) = v \div Pow2(k) <=> \A j \in k .. b - 1 : Bit(w, j) = Bit(v, j)
           T == {n \in Nat : n <= b => Agree(b - n)}
<1>1. 0 \in T
  <2> DEFINE d == Pow2(b)
  <2>1. d \in Nat \ {0}
    BY Powers
  <2>2. w \div d = 0 /\ v \div d = 0
    <3>1. w = d * 0 + w /\ v = d * 0 + v /\ w \in 0 .. d - 1 /\ v \in 0 .. d - 1
      <4>1. w < d /\ v < d
        OBVIOUS
      <4> HIDE DEF d
      <4> QED
        BY <2>1, <4>1
    <3> HIDE DEF d
    <3>2. w \div d = 0
      BY <2>1, <3>1, Quotient, SMTT(30)
    <3>3. v \div d = 0
      BY <2>1, <3>1, Quotient, SMTT(30)
    <3> QED
      BY <3>2, <3>3
  <2>3. Agree(b)
    BY <2>2
  <2>4. b - 0 = b
    OBVIOUS
  <2> HIDE DEF Agree
  <2> QED
    BY <2>3, <2>4
<1>2. ASSUME NEW n \in Nat, n \in T PROVE n + 1 \in T
  <2> SUFFICES ASSUME n + 1 <= b PROVE Agree(b - (n + 1))
    OBVIOUS
  <2>0. PICK k \in Nat : k = b - (n + 1) /\ k + 1 = b - n
    <3>1. b - (n + 1) \in Nat /\ (b - (n + 1)) + 1 = b - n
      OBVIOUS
    <3> QED
      BY <3>1
  <2> DEFINE d == Pow2(k)
             e == Pow2(k + 1)
  <2>1. d \in Nat \ {0} /\ e = 2 * d
    BY Powers
  <2>2. w \div d = 2 * (w \div e) + Bit(w, k) /\ v \div d = 2 * (v \div e) + Bit(v, k)
    <3>1. Bit(w, k) = (w \div d) % 2 /\ Bit(v, k) = (v \div d) % 2
      BY DEF Bit
    <3> HIDE DEF d, e
    <3> QED
      BY <2>1, <3>1, Doubled
  <2>3. /\ w \div e \in Nat /\ v \div e \in Nat /\ Bit(w, k) \in {0, 1} /\ Bit(v, k) \in {0, 1}
    <3>1. /\ Bit(w, k) = (w \div d) % 2 /\ Bit(v, k) = (v \div d) % 2
      BY DEF Bit
    <3> HIDE DEF d, e
    <3>2. w \div d \in Nat /\ v \div d \in Nat
      BY <2>1, Division
    <3>e. e \in Nat \ {0}
      BY <2>1
    <3>3. w \div e \in Nat /\ v \div e \in Nat
      BY <3>e, Division
    <3> DEFINE x == w \div d
               y == v \div d
    <3>4. Bit(w, k) = x % 2 /\ Bit(v, k) = y % 2 /\ x \in Nat /\ y \in Nat
      BY <3>1, <3>2
    <3> HIDE DEF x, y
    <3> QED
      BY <3>3, <3>4
  <2>4. w \div d = v \div d <=> w \div e = v \div e /\ Bit(w, k) = Bit(v, k)
    <3> DEFINE x == w \div d
               y == v \div d
               p == w \div e
               q == v \div e
               f == Bit(w, k)
               g == Bit(v, k)
    <3>1. x = 2 * p + f /\ y = 2 * q + g /\ p \in Nat /\ q \in Nat /\ f \in {0, 1} /\ g \in {0, 1}
      BY <2>2, <2>3
    <3> HIDE DEF x, y, p, q, f, g
    <3>2. x = y <=> p = q /\ f = g
      BY <3>1
    <3> QED
      BY <3>2 DEF x, y, p, q, f, g
  <2>5. w \div e = v \div e <=> \A j \in k + 1 .. b - 1 : Bit(w, j) = Bit(v, j)
    <3>1. Agree(b - n)
      BY <1>2
    <3> QED
      BY <2>0, <3>1
  <2>6. k .. b - 1 = (k + 1 .. b - 1) \cup {k}
    BY <2>0
  <2>7. Agree(k)
    <3>1. w \div d = v \div d <=> \A j \in k .. b - 1 : Bit(w, j) = Bit(v, j)
      <4> HIDE DEF d, e
      <4> QED
        BY <2>4, <2>5, <2>6
    <3> QED
      BY <3>1
  <2> QED
    BY <2>0, <2>7
<1>3. T = Nat
  <2>1. T \in SUBSET Nat
    OBVIOUS
  <2> HIDE DEF T
  <2> QED
    BY <1>1, <1>2, <2>1, Induction
<1>4. b - m \in T /\ b - m <= b /\ b - (b - m) = m
  <2> HIDE DEF T
  <2> QED
    BY <1>3
<1>5. Agree(m)
  BY <1>4
<1> QED
  BY <1>5

LEMMA MappedIsNotZero == Mapped # 0
<1> DEFINE h == Bits \div 2
           a == Pow2(h - 1)
           b == Pow2(h)
<1>1. h - 1 \in Nat /\ (h - 1) + 1 = h
  BY BitsAssumption DEF BitsAssumption
<1> HIDE DEF h
<1>2. a \in Nat \ {0} /\ b = 2 * a
  BY <1>1, Powers
<1> HIDE DEF a, b
<1>3. b - 1 # 0
  BY <1>2
<1> QED
  BY <1>3 DEF Mapped, b, h

---------------------------------------------------------------------------
(* Addresses. *)

\* What a bridge may hear when it asks the device for its address.
Heard ==
    ReportAddr(device) \cup Foreign
        \cup {a \in Garbage : ReportAddr(device) = {}}
        \cup {a \in {In(Group4)} : ReportAddr(device) = {} /\ ListensOn("INET")}

HomeOn(family) == {OnSocket(family, In(Home4)), OnSocket(family, In6(Home6))}

AddressesInv ==
    /\ AddressesTypeOK
    /\ device \in Devices
    /\ course \in {"discovered", "called", "answered"} =>
         report \in Heard /\ (caller = "INET" => ListensOn("INET"))
    /\ course = "called" => theirs \in Converted(caller, report)
    /\ course = "answered" => theirs \in HomeOn(caller)
    /\ RepliesReachIPv4

LEMMA HostsDiffer ==
    /\ \A w, x : <<w>> = <<x>> => w = x
    /\ \A w : <<w>> # Any6 /\ <<w>> # Home6
    /\ Home6 # Any6 /\ Home6 # Loopback6 /\ Home6 # <<0>>
    /\ Any6 # Loopback6
    /\ \A w, x : V4Mapped(w) = V4Mapped(x) => w = x
    /\ \A w : w # 0 => V4Mapped(w) # Any6
    /\ \A w : V4Mapped(w) # Loopback6
<1>1. Home6 \in [1 .. 4 -> Nat] /\ ~ V4OK(Home6) /\ Mapped # 0
  BY AddressesAssumption, MappedIsNotZero DEF AddressesAssumption
<1>2. DOMAIN Home6 = 1 .. 4
  BY <1>1
<1>3. \A w : DOMAIN <<w>> = 1 .. 1
  OBVIOUS
<1>4. 4 \in 1 .. 4 /\ 4 \notin 1 .. 1
  OBVIOUS
<1>5. \A w : <<w>> # Home6
  BY <1>2, <1>3, <1>4
<1>6. Home6 # Any6 /\ Home6 # Loopback6
  BY <1>1 DEF V4OK, Any6, Loopback6
<1>7. \A w : <<w>> # Any6
  BY DEF Any6
<1>8. Any6 # Loopback6
  BY DEF Any6, Loopback6
<1>9. /\ \A w, x : V4Mapped(w) = V4Mapped(x) => w = x
      /\ \A w : w # 0 => V4Mapped(w) # Any6
      /\ \A w : V4Mapped(w) # Loopback6
  BY <1>1 DEF V4Mapped, Any6, Loopback6
<1> QED
  BY <1>5, <1>6, <1>7, <1>8, <1>9

LEMMA MappedPrefix ==
    ASSUME NEW w
    PROVE  SubSeq(<<0, 0, Mapped, w>>, 1, 3) = <<0, 0, Mapped>>
<1> DEFINE S == {0, Mapped, w}
           s == <<0, 0, Mapped, w>>
           t == SubSeq(s, 1, 3)
           u == <<0, 0, Mapped>>
<1> HIDE DEF Mapped
<1>1. s[1] = 0 /\ s[2] = 0 /\ s[3] = Mapped /\ \A i \in 1 .. 3 : s[i] \in S
  OBVIOUS
<1>2. u \in Seq(S) /\ Len(u) = 3 /\ u[1] = 0 /\ u[2] = 0 /\ u[3] = Mapped
  OBVIOUS
<1> HIDE DEF s, S, u
<1>3. /\ t \in Seq(S) /\ Len(t) = IF 1 <= 3 THEN 3 - 1 + 1 ELSE 0
      /\ \A i \in 1 .. 3 - 1 + 1 : t[i] = s[1 + i - 1]
  BY <1>1, SubSeqProperties
<1> HIDE DEF t
<1>4. Len(t) = 3 /\ t[1] = s[1] /\ t[2] = s[2] /\ t[3] = s[3]
  BY <1>3
<1>5. \A i \in 1 .. 3 : t[i] = u[i]
  BY <1>1, <1>2, <1>4
<1>6. t = u
  BY <1>2, <1>3, <1>4, <1>5, SeqEqual
<1> QED
  BY <1>6 DEF t, s, u

\* What is heard of each device.
LEMMA HeardIs ==
    /\ device = Nowhere => Heard \subseteq {In(Group4)} \cup Garbage
    /\ device = In(Home4) => Heard = {In(Home4)}
    /\ device = In6(Any6) => Heard \subseteq {In(Group4), In(Home4), In6(Home6)} \cup Garbage
    /\ device = In6(Home6) => Heard = {In6(Home6)}
    /\ device = In6(Loopback6) => Heard = {In(INADDR_LOOPBACK)}
    /\ device = In6(V4Mapped(Home4)) => Heard = {In(Home4)}
<1>0. Home4 # 0 /\ ~ V4OK(Home6)
  BY AddressesAssumption DEF AddressesAssumption
<1>1. ASSUME device = Nowhere
      PROVE  Heard \subseteq {In(Group4)} \cup Garbage
  <2>1. ReportAddr(device) = {} /\ Foreign = {}
    BY <1>1 DEF ReportAddr, Foreign, in46_is_addr_unspecified, Nowhere, In, In6
  <2> QED
    BY <1>1, <2>1 DEF Heard
<1>2. ASSUME device = In(Home4)
      PROVE  Heard = {In(Home4)}
  <2>1. ReportAddr(device) = {In(Home4)} /\ Foreign = {}
    BY <1>0, <1>2, HostsDiffer DEF ReportAddr, Foreign, in46_is_addr_unspecified, Nowhere, In, In6
  <2> QED
    BY <1>2, <2>1 DEF Heard
<1>3. ASSUME device = In6(Any6)
      PROVE  Heard \subseteq {In(Group4), In(Home4), In6(Home6)} \cup Garbage
  <2>1. V4OK(Any6) /\ Any6[4] = 0
    BY DEF V4OK, Any6
  <2>2. ReportAddr(device) = {}
    BY <1>3, <2>1, HostsDiffer DEF ReportAddr, in46_is_addr_unspecified, Nowhere, In, In6
  <2> QED
    BY <1>3, <2>2 DEF Heard, Foreign
<1>4. ASSUME device = In6(Home6)
      PROVE  Heard = {In6(Home6)}
  <2>1. ReportAddr(device) = {In6(Home6)} /\ Foreign = {}
    BY <1>0, <1>4, HostsDiffer DEF ReportAddr, Foreign, in46_is_addr_unspecified, Nowhere, In, In6
  <2> QED
    BY <1>4, <2>1 DEF Heard
<1>5. ASSUME device = In6(Loopback6)
      PROVE  Heard = {In(INADDR_LOOPBACK)}
  <2>1. ReportAddr(device) = {In(INADDR_LOOPBACK)} /\ Foreign = {}
    BY <1>5, HostsDiffer DEF ReportAddr, Foreign, Nowhere, In, In6
  <2> QED
    BY <1>5, <2>1 DEF Heard
<1>6. ASSUME device = In6(V4Mapped(Home4))
      PROVE  Heard = {In(Home4)}
  <2>1. V4OK(V4Mapped(Home4)) /\ V4Mapped(Home4)[4] = Home4
    BY DEF V4OK, V4Mapped
  <2>2. ReportAddr(device) = {In(Home4)} /\ Foreign = {}
    BY <1>0, <1>6, <2>1, HostsDiffer DEF ReportAddr, Foreign, in46_is_addr_unspecified, Nowhere, In, In6
  <2> QED
    BY <1>6, <2>2 DEF Heard
<1> QED
  BY <1>1, <1>2, <1>3, <1>4, <1>5, <1>6

LEMMA AddressesInitInv == AddressesInit => AddressesInv
BY DEF AddressesInit, AddressesInv, AddressesTypeOK, RepliesReachIPv4, Nowhere, In

LEMMA Sockets ==
    /\ \A w : OnSocket("INET6", In(w)) = In6(V4Mapped(w)) /\ OnSocket("INET", In(w)) = In(w)
    /\ \A h : OnSocket("INET6", In6(h)) = In6(h) /\ OnSocket("INET", In6(h)) = In6(h)
BY DEF OnSocket, sockaddr_to6, in64_set, In, In6

\* What is heard is an address.
LEMMA HeardIsAddress ==
    ASSUME NEW a \in Heard, device \in Devices
    PROVE  (\E w : a = In(w)) \/ (\E h : a = In6(h))
BY HeardIs DEF Devices, Garbage

LEMMA ReplyGoesBack ==
    ASSUME NEW c, c.family = "INET"
    PROVE  SentTo(FixedVia(OnSocket("INET6", c))) = OnSocket("INET6", c)
BY DEF OnSocket, sockaddr_to6, in64_set, in64_get, In, In6, SentTo, FixedVia, SetV4Mapped, V4Mapped

\* What is sent to an address that was heard reaches the device.
LEMMA HeardIsReached ==
    ASSUME device \in Devices, device # In6(Loopback6), NEW a \in Heard, a \notin Garbage,
           NEW family \in {"INET", "INET6"}, NEW t \in Converted(family, a)
    PROVE  Receives(t)
<1>1. PICK h : (a = In(h) \/ a = In6(h))
  BY HeardIsAddress
<1>2. OnSocket("INET6", t) = OnSocket("INET6", a)
  BY <1>1, Sockets DEF Converted, OnSocket, In, In6
<1>3. a \in {In(Group4), In(Home4), In6(Home6)}
  BY HeardIs DEF Devices
<1>4. /\ OnSocket("INET6", In(Group4)).host = V4Mapped(Group4)
      /\ OnSocket("INET6", In(Home4)).host = V4Mapped(Home4)
      /\ OnSocket("INET6", In6(Home6)).host = Home6
      /\ OnSocket("INET6", In6(V4Mapped(Home4))).host = V4Mapped(Home4)
  BY Sockets DEF In6
<1>5. Receives(t) <=>
        LET home == OnSocket("INET6", a).host
        IN  \/ device = In(0) /\ home \in {V4Mapped(Home4), V4Mapped(Group4)}
            \/ device = In6(Any6) /\ home \in {V4Mapped(Home4), V4Mapped(Group4), Home6}
            \/ home = OnSocket("INET6", device).host
  BY <1>2 DEF Receives
<1>6. CASE device = Nowhere
  <2>1. a = In(Group4)
    BY <1>6, HeardIs
  <2> QED
    BY <1>4, <1>5, <1>6, <2>1 DEF Nowhere
<1>7. CASE device = In6(Any6)
  BY <1>3, <1>4, <1>5, <1>7
<1>8. CASE device = In(Home4)
  <2>1. a = In(Home4)
    BY <1>8, HeardIs
  <2> QED
    BY <1>4, <1>5, <1>8, <2>1
<1>9. CASE device = In6(Home6)
  <2>1. a = In6(Home6)
    BY <1>9, HeardIs
  <2> QED
    BY <1>4, <1>5, <1>9, <2>1
<1>10. CASE device = In6(V4Mapped(Home4))
  <2>1. a = In(Home4)
    BY <1>10, HeardIs
  <2> QED
    BY <1>4, <1>5, <1>10, <2>1
<1> QED
  BY <1>6, <1>7, <1>8, <1>9, <1>10 DEF Devices

\* The address that an answer has is one of the device, and so is that of the
\* dialog if the two do not differ.
LEMMA AnswerIsFromHome ==
    ASSUME device \in Devices, caller \in {"INET", "INET6"},
           caller = "INET" => ListensOn("INET"),
           report \in Heard, theirs \in Converted(caller, report), Receives(theirs)
    PROVE  LET sender == OnSocket(caller, Sender)
           IN  /\ sender \in HomeOn(caller) /\ sender.family = caller
               /\ sockaddr_same(theirs, sender) => theirs = sender
<1> DEFINE sender == OnSocket(caller, Sender)
<1>1. PICK h : (report = In(h) \/ report = In6(h))
  BY HeardIsAddress
<1>2. /\ caller = "INET" => \E w : theirs = In(w)
      /\ caller = "INET6" => \E x : theirs = In6(x)
  BY <1>1 DEF Converted, sockaddr_to6, In, In6
<1>3. device # In6(Loopback6)
  <2> SUFFICES ASSUME device = In6(Loopback6) PROVE FALSE
    OBVIOUS
  <2>1. report = In(INADDR_LOOPBACK)
    BY HeardIs
  <2>2. OnSocket("INET6", theirs).host = V4Mapped(INADDR_LOOPBACK)
    <3>1. theirs \in {In(INADDR_LOOPBACK), In6(V4Mapped(INADDR_LOOPBACK))}
      BY <2>1 DEF Converted, sockaddr_to6, in64_set, In
    <3> QED
      BY <3>1, Sockets DEF In6
  <2>3. device # In(0) /\ device # In6(Any6) /\ OnSocket("INET6", device).host = Loopback6
    BY HostsDiffer, Sockets DEF In, In6
  <2> QED
    BY <2>2, <2>3, HostsDiffer DEF Receives
<1>4. sender \in HomeOn(caller) /\ sender.family = caller
  <2>1. CASE device \in {Nowhere, In6(Any6)}
    <3>1. in46_is_addr_unspecified(device)
      BY <2>1 DEF in46_is_addr_unspecified, Nowhere, In, In6
    <3>2. CASE caller = "INET"
      <4>1. PICK w : theirs = In(w)
        BY <1>2, <3>2
      <4>2. IsV4Mapped(OnSocket("INET6", theirs).host)
        <5>1. OnSocket("INET6", theirs).host = <<0, 0, Mapped, w>>
          BY <4>1, Sockets DEF In6, V4Mapped
        <5> QED
          BY <5>1, MappedPrefix DEF IsV4Mapped
      <4>3. Sender = In(Home4)
        BY <3>1, <4>2 DEF Sender
      <4> QED
        BY <3>2, <4>3, Sockets DEF HomeOn, In
    <3>3. CASE caller = "INET6"
      <4>1. Sender \in {In(Home4), In6(Home6)}
        BY <3>1 DEF Sender
      <4> QED
        BY <3>3, <4>1, Sockets DEF HomeOn, In6
    <3> QED
      BY <3>2, <3>3
  <2>2. CASE device \in {In(Home4), In6(Home6)}
    <3>1. ~ in46_is_addr_unspecified(device)
      BY <2>2, HostsDiffer, AddressesAssumption
      DEF in46_is_addr_unspecified, In, In6, AddressesAssumption
    <3>2. Sender = device
      BY <3>1 DEF Sender
    <3>3. CASE caller = "INET6"
      BY <2>2, <3>2, <3>3, Sockets DEF HomeOn, In6
    <3>4. CASE caller = "INET"
      <4>1. device = In(Home4)
        BY <2>2, <3>4, HostsDiffer DEF ListensOn, In6
      <4> QED
        BY <3>2, <3>4, <4>1, Sockets DEF HomeOn, In
    <3> QED
      BY <3>3, <3>4
  <2>3. CASE device = In6(V4Mapped(Home4))
    <3>1. /\ ~ in46_is_addr_unspecified(device)
      <4>1. DOMAIN V4Mapped(Home4) = 1 .. 4 /\ DOMAIN <<0>> = 1 .. 1 /\ 4 \in 1 .. 4 /\ 4 \notin 1 .. 1
        BY DEF V4Mapped
      <4>2. V4Mapped(Home4) # <<0>>
        BY <4>1
      <4> QED
        BY <2>3, <4>2, HostsDiffer, AddressesAssumption
        DEF in46_is_addr_unspecified, In6, AddressesAssumption
    <3>2. Sender = device
      BY <3>1 DEF Sender
    <3>3. CASE caller = "INET6"
      BY <2>3, <3>2, <3>3, Sockets DEF HomeOn, In6
    <3>4. CASE caller = "INET"
      <4>1. device.family = "INET6" /\ V4Mapped(Home4) # Any6
        BY <2>3, HostsDiffer, AddressesAssumption DEF In6, AddressesAssumption
      <4>2. device # In6(Any6)
        BY <2>3, <4>1 DEF In6
      <4> QED
        BY <3>4, <4>1, <4>2 DEF ListensOn
    <3> QED
      BY <3>3, <3>4
  <2> QED
    BY <1>3, <2>1, <2>2, <2>3 DEF Devices
<1>5. ASSUME theirs.host = sender.host
      PROVE  theirs = sender
  <2>1. CASE caller = "INET6"
    <3>1. \E x : sender = In6(x)
      BY <1>4, <2>1, Sockets DEF HomeOn
    <3> QED
      BY <1>2, <1>5, <2>1, <3>1 DEF In6
  <2>2. CASE caller = "INET"
    <3>1. sender \in {In(Home4), In6(Home6)}
      BY <1>4, <2>2, Sockets DEF HomeOn
    <3>2. PICK w : theirs = In(w)
      BY <1>2, <2>2
    <3>3. sender # In6(Home6)
      BY <1>5, <3>2, HostsDiffer DEF In, In6
    <3> QED
      BY <1>5, <3>1, <3>2, <3>3, HostsDiffer DEF In
  <2> QED
    BY <2>1, <2>2
<1> QED
  BY <1>4, <1>5 DEF sockaddr_same

LEMMA AddressesStepInv ==
    ASSUME AddressesInv, [AddressesNext]_addressesVars
    PROVE  AddressesInv'
<1>1. ASSUME NEW c \in Clients, Request(c) PROVE AddressesInv'
  <2>1. c.family \in {"INET", "INET6"}
    BY AddressesAssumption DEF AddressesAssumption
  <2>2. reply'.family \in {"INET", "INET6"}
    BY <1>1 DEF Request, SentTo, in64_get, In6
  <2>3. RepliesReachIPv4'
    BY <1>1, ReplyGoesBack DEF Request, RepliesReachIPv4, OnSocket
  <2>4. AddressesTypeOK'
    BY <1>1, <2>1, <2>2 DEF AddressesInv, AddressesTypeOK, Request
  <2> QED
    BY <1>1, <2>3, <2>4 DEF AddressesInv, Request
<1>2. ASSUME NEW f \in {"INET", "INET6"}, NEW family \in {"INET", "INET6"}, Discover(f, family)
      PROVE  AddressesInv'
  <2>1. report' \in Heard
    BY <1>2 DEF Discover, Reports, Heard
  <2>2. f = "INET" => ListensOn("INET")
    BY <1>2 DEF Discover
  <2>3. Heard' = Heard /\ (ListensOn("INET"))' = ListensOn("INET")
    BY <1>2 DEF Discover, Heard, ReportAddr, Foreign, ListensOn
  <2>4. report'.family \in {"INET", "INET6"}
    BY <2>1, HeardIsAddress DEF AddressesInv, In, In6
  <2>5. AddressesTypeOK'
    BY <1>2, <2>4 DEF AddressesInv, AddressesTypeOK, Discover
  <2> QED
    BY <1>2, <2>1, <2>2, <2>3, <2>5 DEF AddressesInv, Discover, RepliesReachIPv4
<1>3. CASE Call
  <2>1. Heard' = Heard /\ (ListensOn("INET"))' = ListensOn("INET")
    BY <1>3 DEF Call, Heard, ReportAddr, Foreign, ListensOn
  <2>2. PICK h : (report = In(h) \/ report = In6(h))
    BY <1>3, HeardIsAddress DEF Call, AddressesInv
  <2>3. \A t \in Converted(caller, report) : t.family = caller
    BY <2>2 DEF AddressesInv, AddressesTypeOK, Converted, sockaddr_to6, In, In6
  <2>4. AddressesTypeOK'
    BY <1>3, <2>3 DEF Call, AddressesInv, AddressesTypeOK
  <2>5. course' = "called" => theirs' \in Converted(caller', report')
    BY <1>3 DEF Call
  <2>6. course' \in {"failed", "called"}
    BY <1>3 DEF Call
  <2> QED
    BY <1>3, <2>1, <2>4, <2>5, <2>6 DEF AddressesInv, Call, RepliesReachIPv4
<1>4. CASE Answer
  <2>1. Heard' = Heard /\ (ListensOn("INET"))' = ListensOn("INET") /\ HomeOn(caller)' = HomeOn(caller)
    BY <1>4 DEF Answer, Heard, ReportAddr, Foreign, ListensOn, HomeOn
  <2>2. /\ course = "called" /\ device \in Devices /\ caller \in {"INET", "INET6"}
        /\ report \in Heard /\ (caller = "INET" => ListensOn("INET"))
        /\ theirs \in Converted(caller, report) /\ Receives(theirs)
    BY <1>4 DEF Answer, AddressesInv, AddressesTypeOK
  <2> DEFINE sender == OnSocket(caller, Sender)
  <2>3. /\ sender \in HomeOn(caller) /\ sender.family = caller
        /\ sockaddr_same(theirs, sender) => theirs = sender
    BY <2>2, AnswerIsFromHome
  <2> HIDE DEF sender
  <2>4. theirs' = sender
    BY <1>4, <2>3 DEF Answer, sender
  <2>5. AddressesTypeOK'
    BY <1>4, <2>3, <2>4 DEF Answer, AddressesInv, AddressesTypeOK
  <2>6. course' = "answered" /\ report' \in Heard' /\ theirs' \in HomeOn(caller)'
    BY <1>4, <2>1, <2>2, <2>3, <2>4 DEF Answer
  <2>7. caller' = "INET" => (ListensOn("INET"))'
    BY <1>4, <2>1, <2>2 DEF Answer
  <2> QED
    BY <1>4, <2>1, <2>2, <2>3, <2>4, <2>5, <2>6, <2>7 DEF AddressesInv, Answer, RepliesReachIPv4, HomeOn
<1>5. CASE UNCHANGED addressesVars
  <2>1. UNCHANGED Heard /\ UNCHANGED ListensOn("INET")
    BY <1>5 DEF addressesVars, Heard, ReportAddr, Foreign, ListensOn
  <2> QED
    BY <1>5, <2>1 DEF addressesVars, AddressesInv, AddressesTypeOK, RepliesReachIPv4
<1> QED
  BY <1>1, <1>2, <1>3, <1>4, <1>5 DEF AddressesNext

LEMMA AddressesAlways == AddressesSpec => []AddressesInv
BY AddressesInitInv, AddressesStepInv, PTL DEF AddressesSpec

\* The reply to a SIP client with an IPv4 address, which passes through an IPv6
\* socket, a Via header and libosip2, goes back to it, whatever the clients.
THEOREM RepliesReach == AddressesSpec => []RepliesReachIPv4
<1>1. AddressesInv => RepliesReachIPv4
  BY DEF AddressesInv
<1> QED
  BY <1>1, AddressesAlways, PTL

\* A device is reached at the address that it reports, and after its answer the
\* dialog has its own address, whatever the addresses of the device, the group
\* and the clients.
THEOREM CallsReach == AddressesSpec => []CallsReachDevice
<1>1. AddressesInv => CallsReachDevice
  BY HeardIsReached DEF AddressesInv, AddressesTypeOK, CallsReachDevice, HomeOn
<1> QED
  BY <1>1, AddressesAlways, PTL

\* The two ends of every call and every reply are of a family that its socket has.
THEOREM FamiliesMatch == AddressesSpec => []AddressesTypeOK
<1>1. AddressesInv => AddressesTypeOK
  BY DEF AddressesInv
<1> QED
  BY <1>1, AddressesAlways, PTL

---------------------------------------------------------------------------
(* The prefixes of networks. *)

WordValues == 0 .. Pow2(Bits) - 1

LEMMA BitsType == Bits \in Nat /\ Bits > 4 /\ Bits - 2 \in Nat /\ Bits - 1 \in Nat
BY BitsAssumption DEF BitsAssumption

LEMMA WordsAreWords == Words \subseteq WordValues
<1> DEFINE a == Pow2(Bits - 2)
           b == Pow2(Bits - 1)
           c == Pow2(Bits)
<1>1. a \in Nat \ {0} /\ b = 2 * a /\ c = 2 * b
  <2>1. Bits - 2 \in Nat /\ Bits - 1 \in Nat /\ (Bits - 2) + 1 = Bits - 1 /\ (Bits - 1) + 1 = Bits
    BY BitsType
  <2> QED
    BY <2>1, Powers
<1> HIDE DEF a, b, c
<1>2. {0, 1, 3 * a} \subseteq 0 .. c - 1
  BY <1>1
<1> QED
  BY <1>2 DEF a, c, Words, WordValues

LEMMA Ordered ==
    ASSUME NEW d \in Nat \ {0}, NEW u \in Nat, NEW q \in Nat, NEW t \in 0 .. d - 1, NEW r \in 0 .. d - 1
    PROVE  d * u + t >= d * q + r <=> u > q \/ (u = q /\ t >= r)
<1>1. ASSUME NEW x \in Nat, NEW y \in Nat, x > y, NEW f \in 0 .. d - 1, NEW g \in 0 .. d - 1
      PROVE  d * x + f > d * y + g
  <2>1. PICK k \in Nat : x = y + k + 1
    <3>1. x - y - 1 \in Nat /\ x = y + (x - y - 1) + 1
      BY <1>1
    <3> QED
      BY <3>1
  <2>2. d * x = d * y + d * k + d /\ d * k \in Nat /\ d * y \in Nat
    BY <2>1
  <2> QED
    BY <2>2
<1>2. d * u \in Nat /\ d * q \in Nat
  OBVIOUS
<1>3. CASE u > q
  BY <1>1, <1>2, <1>3
<1>4. CASE u < q
  <2>1. d * q + r > d * u + t
    BY <1>1, <1>4
  <2> QED
    BY <1>2, <1>4, <2>1
<1>5. CASE u = q
  BY <1>2, <1>5
<1> QED
  BY <1>3, <1>4, <1>5

\* The bits of an address are those of its words.
LEMMA BitOfWord ==
    ASSUME NEW a, NEW i \in 1 .. 4, NEW t \in 0 .. Bits - 1
    PROVE  BitAt(a, Bits * (i - 1) + t) = Bit(a[i], Bits - 1 - t)
<1> DEFINE k == Bits * (i - 1) + t
<1>1. Bits \in Nat \ {0} /\ i - 1 \in Nat /\ k \in Nat
  BY BitsType
<1>2. k \div Bits = i - 1 /\ k % Bits = t
  BY <1>1, Quotient
<1> HIDE DEF k
<1>3. (k \div Bits) + 1 = i
  BY <1>2
<1>4. BitAt(a, k) = (a[(k \div Bits) + 1] \div Pow2(Bits - 1 - (k % Bits))) % 2
  BY DEF BitAt
<1>5. BitAt(a, k) = Bit(a[i], Bits - 1 - t)
  BY <1>2, <1>3, <1>4 DEF Bit
<1> QED
  BY <1>5 DEF k

\* The bits of a word behind the first r are zero.
LEMMA WordBits ==
    ASSUME NEW w \in WordValues, NEW r \in 0 .. Bits
    PROVE  /\ w % Pow2(Bits - r) = 0 <=> \A t \in r .. Bits - 1 : Bit(w, Bits - 1 - t) = 0
           /\ w % Pow2(Bits) = w
<1>1. w \in Nat /\ Bits \in Nat /\ Bits - r \in Nat /\ Pow2(Bits) \in Nat \ {0}
  BY BitsType, Powers DEF WordValues
<1>2. w % Pow2(Bits - r) = 0 <=> \A j \in 0 .. (Bits - r) - 1 : Bit(w, j) = 0
  BY <1>1, LowBits
<1>3. ASSUME \A j \in 0 .. (Bits - r) - 1 : Bit(w, j) = 0, NEW t \in r .. Bits - 1
      PROVE  Bit(w, Bits - 1 - t) = 0
  BY <1>1, <1>3
<1>4. ASSUME \A t \in r .. Bits - 1 : Bit(w, Bits - 1 - t) = 0, NEW j \in 0 .. (Bits - r) - 1
      PROVE  Bit(w, j) = 0
  <2>1. Bits - 1 - j \in r .. Bits - 1 /\ Bits - 1 - (Bits - 1 - j) = j
    BY <1>1
  <2> QED
    BY <1>4, <2>1
<1>5. w % Pow2(Bits) = w
  <2> DEFINE d == Pow2(Bits)
  <2>1. d \in Nat \ {0} /\ w \in 0 .. d - 1
    BY <1>1 DEF WordValues
  <2> HIDE DEF d
  <2>2. w = d * 0 + w
    BY <2>1
  <2>3. w % d = w
    BY <1>1, <2>1, <2>2, Quotient
  <2> QED
    BY <2>3 DEF d
<1> QED
  BY <1>2, <1>3, <1>4, <1>5

LEMMA WordIsZero ==
    ASSUME NEW w \in WordValues
    PROVE  w = 0 <=> \A t \in 0 .. Bits - 1 : Bit(w, Bits - 1 - t) = 0
<1>1. 0 \in 0 .. Bits /\ Bits - 0 = Bits
  BY BitsType
<1>2. w % Pow2(Bits - 0) = 0 <=> \A t \in 0 .. Bits - 1 : Bit(w, Bits - 1 - t) = 0
  BY <1>1, WordBits
<1>3. w % Pow2(Bits) = w
  BY <1>1, WordBits
<1> QED
  BY <1>1, <1>2, <1>3

\* inet_isnetwork6 looks at the bits behind the prefix, for all prefixes and words.
LEMMA IsNetworkByBits ==
    ASSUME NEW n, \A i \in 1 .. 4 : n[i] \in WordValues, NEW p \in -1 .. 4 * Bits
    PROVE  inet_isnetwork6(n, p) <=>
              \A k \in (IF p < 0 THEN 4 * Bits ELSE p) .. 4 * Bits - 1 : BitAt(n, k) = 0
<1>b. Bits \in Nat \ {0}
  BY BitsType
<1>1. CASE p < 0
  <2>1. Whole(p) = 4 /\ Rest(p) = 0 /\ Used(p) = 4
    BY <1>1 DEF Whole, Rest, Used
  <2>2. inet_isnetwork6(n, p)
    BY <2>1 DEF inet_isnetwork6
  <2> QED
    BY <1>b, <1>1, <2>2
<1>2. CASE ~ (p < 0)
  <2> DEFINE q == p \div Bits
             r == p % Bits
  <2>p. p \in Nat
    BY <1>b, <1>2
  <2>1. p \in Nat /\ q \in Nat /\ r \in 0 .. Bits - 1 /\ p = Bits * q + r
    BY <1>b, <2>p, Division
  <2>2. Whole(p) = q /\ Rest(p) = r /\ Used(p) = IF r = 0 THEN q ELSE q + 1
    BY <1>2, <2>1 DEF Whole, Rest, Used
  <2> HIDE DEF q, r
  <2>3. q \in 0 .. 4 /\ (q = 4 => r = 0)
    <3>1. Bits * 4 + 0 >= Bits * q + r /\ 0 \in 0 .. Bits - 1
      BY <1>b, <2>1
    <3>2. 4 > q \/ (4 = q /\ 0 >= r)
      BY <1>b, <2>1, <3>1, Ordered
    <3> QED
      BY <2>1, <3>2
  <2> DEFINE Zero(i) == \A t \in 0 .. Bits - 1 : Bit(n[i], Bits - 1 - t) = 0
             Behind(i, t) == i - 1 > q \/ (i - 1 = q /\ t >= r)
             ByWord == \A i \in 1 .. 4 : \A t \in 0 .. Bits - 1 :
                          Behind(i, t) => Bit(n[i], Bits - 1 - t) = 0
             ByBit == \A k \in p .. 4 * Bits - 1 : BitAt(n, k) = 0
  <2>4. ASSUME ByBit PROVE ByWord
    <3> SUFFICES ASSUME NEW i \in 1 .. 4, NEW t \in 0 .. Bits - 1, Behind(i, t)
                 PROVE  Bit(n[i], Bits - 1 - t) = 0
      OBVIOUS
    <3> DEFINE k == Bits * (i - 1) + t
    <3>1. k >= p
      BY <1>b, <2>1, Ordered
    <3>2. k \in Int /\ k <= 4 * Bits - 1
      BY <1>b
    <3>3. BitAt(n, k) = Bit(n[i], Bits - 1 - t)
      BY BitOfWord
    <3>4. k \in p .. 4 * Bits - 1
      <4> HIDE DEF k
      <4> QED
        BY <1>b, <2>1, <3>1, <3>2
    <3> QED
      BY <2>4, <3>3, <3>4
  <2>5. ASSUME ByWord PROVE ByBit
    <3> SUFFICES ASSUME NEW k \in p .. 4 * Bits - 1 PROVE BitAt(n, k) = 0
      OBVIOUS
    <3> DEFINE u == k \div Bits
               t == k % Bits
    <3>k. k \in Nat
      BY <1>b, <2>p
    <3>1. k \in Nat /\ u \in Nat /\ t \in 0 .. Bits - 1 /\ k = Bits * u + t
      BY <1>b, <3>k, Division
    <3> HIDE DEF u, t
    <3>2. u > q \/ (u = q /\ t >= r)
      BY <1>b, <2>1, <3>1, Ordered
    <3>3. u < 4
      <4>1. ~ (Bits * u + t >= Bits * 4 + 0) /\ 0 \in 0 .. Bits - 1
        BY <1>b, <3>1
      <4> QED
        BY <1>b, <3>1, <4>1, Ordered
    <3>4. PICK i \in 1 .. 4 : i - 1 = u
      <4>1. u + 1 \in 1 .. 4 /\ (u + 1) - 1 = u
        BY <3>1, <3>3
      <4> QED
        BY <4>1
    <3>5. Behind(i, t)
      BY <3>2, <3>4
    <3>6. Bit(n[i], Bits - 1 - t) = 0
      BY <2>5, <3>1, <3>5
    <3>7. BitAt(n, Bits * (i - 1) + t) = Bit(n[i], Bits - 1 - t)
      BY <3>1, BitOfWord
    <3> QED
      BY <3>1, <3>4, <3>6, <3>7
  <2>6. ByWord <=> /\ \A i \in q + 2 .. 4 : Zero(i)
                   /\ q < 4 => \A t \in r .. Bits - 1 : Bit(n[q + 1], Bits - 1 - t) = 0
    <3>1. ASSUME ByWord, NEW i \in q + 2 .. 4 PROVE Zero(i)
      <4>1. i \in 1 .. 4 /\ i - 1 > q
        BY <2>3
      <4> QED
        BY <3>1, <4>1
    <3>2. ASSUME ByWord, q < 4, NEW t \in r .. Bits - 1
          PROVE  Bit(n[q + 1], Bits - 1 - t) = 0
      <4>1. q + 1 \in 1 .. 4 /\ (q + 1) - 1 = q /\ t \in 0 .. Bits - 1 /\ t >= r
        BY <1>b, <2>1, <2>3, <3>2
      <4> QED
        BY <3>2, <4>1
    <3>3. ASSUME \A i \in q + 2 .. 4 : Zero(i),
                 q < 4 => \A t \in r .. Bits - 1 : Bit(n[q + 1], Bits - 1 - t) = 0,
                 NEW i \in 1 .. 4, NEW t \in 0 .. Bits - 1, Behind(i, t)
          PROVE  Bit(n[i], Bits - 1 - t) = 0
      <4>1. CASE i - 1 > q
        <5>1. i \in q + 2 .. 4
          BY <2>3, <4>1
        <5> QED
          BY <3>3, <5>1
      <4>2. CASE i - 1 = q /\ t >= r
        <5>1. i = q + 1 /\ q < 4 /\ t \in r .. Bits - 1
          BY <1>b, <2>1, <2>3, <4>2
        <5> QED
          BY <3>3, <5>1
      <4> QED
        BY <3>3, <4>1, <4>2
    <3> QED
      BY <3>1, <3>2, <3>3
  <2>7. \A i \in 1 .. 4 : n[i] = 0 <=> Zero(i)
    BY WordIsZero
  <2>8. inet_isnetwork6(n, p) <=>
           /\ \A i \in Used(p) + 1 .. 4 : n[i] = 0
           /\ r = 0 \/ n[q + 1] % Pow2(Bits - r) = 0
    BY <2>1, <2>2 DEF inet_isnetwork6, inet_isnetwork4, HostBits
  <2>9. CASE r # 0
    <3>1. q < 4 /\ q + 1 \in 1 .. 4 /\ Used(p) + 1 = q + 2
      BY <2>2, <2>3, <2>9
    <3>2. n[q + 1] % Pow2(Bits - r) = 0
             <=> \A t \in r .. Bits - 1 : Bit(n[q + 1], Bits - 1 - t) = 0
      <4>1. n[q + 1] \in WordValues /\ r \in 0 .. Bits
        BY <1>b, <2>1, <3>1
      <4> QED
        BY <4>1, WordBits
    <3>3. (\A i \in q + 2 .. 4 : n[i] = 0) <=> (\A i \in q + 2 .. 4 : Zero(i))
      <4>1. q + 2 .. 4 \subseteq 1 .. 4
        BY <2>3
      <4> HIDE DEF Zero
      <4> QED
        BY <2>7, <4>1
    <3> HIDE DEF ByWord, ByBit, Zero
    <3>4. inet_isnetwork6(n, p) <=> ByBit
      BY <2>4, <2>5, <2>6, <2>8, <2>9, <3>1, <3>2, <3>3
    <3> QED
      BY <1>2, <3>4 DEF ByBit
  <2>10. CASE r = 0
    <3>1. Used(p) + 1 = q + 1
      BY <2>2, <2>10
    <3>2. q < 4 => (Zero(q + 1) <=> \A t \in r .. Bits - 1 : Bit(n[q + 1], Bits - 1 - t) = 0)
      BY <2>10
    <3> HIDE DEF Zero
    <3>3. (\A i \in q + 1 .. 4 : n[i] = 0) <=> (\A i \in q + 2 .. 4 : Zero(i)) /\ (q < 4 => Zero(q + 1))
      <4>1. CASE q < 4
        <5>1. q + 1 .. 4 = (q + 2 .. 4) \cup {q + 1} /\ q + 1 .. 4 \subseteq 1 .. 4
          BY <2>3, <4>1
        <5> QED
          BY <2>7, <4>1, <5>1
      <4>2. CASE q = 4
        <5>1. q + 1 .. 4 = {} /\ q + 2 .. 4 = {}
          BY <4>2
        <5> QED
          BY <4>2, <5>1
      <4> QED
        BY <2>3, <4>1, <4>2
    <3> HIDE DEF ByWord, ByBit
    <3>4. inet_isnetwork6(n, p) <=> ByBit
      BY <2>4, <2>5, <2>6, <2>8, <2>10, <3>1, <3>2, <3>3
    <3> QED
      BY <1>2, <3>4 DEF ByBit
  <2> QED
    BY <2>9, <2>10
<1> QED
  BY <1>1, <1>2

\* inet_innetwork4 looks at the bits of the prefix.
LEMMA InNetworkByBits ==
    ASSUME NEW n, n[1] \in WordValues, NEW w \in WordValues, NEW p \in 1 .. Bits
    PROVE  inet_innetwork4(w, n[1], p) <=> \A k \in 0 .. p - 1 : BitAt(<<w>>, k) = BitAt(n, k)
<1> DEFINE v == n[1]
           m == Bits - p
           d == Pow2(m)
<1>1. /\ Bits \in Nat \ {0} /\ m \in 0 .. Bits /\ m \in Nat /\ d \in Nat \ {0}
      /\ w \in Nat /\ v \in Nat
      /\ w < Pow2(Bits) /\ v < Pow2(Bits)
  <2>1. Bits \in Nat \ {0} /\ m \in 0 .. Bits /\ m \in Nat
    BY BitsType
  <2>2. Pow2(Bits) \in Nat /\ Pow2(m) \in Nat \ {0}
    BY <2>1, Powers
  <2> QED
    BY <2>1, <2>2 DEF WordValues
<1>2. inet_innetwork4(w, v, p) <=> w - (w % d) = v - (v % d)
  BY DEF inet_innetwork4, Masked, HostBits
<1>3. w - (w % d) = v - (v % d) <=> w \div d = v \div d
  <2> HIDE DEF d, v
  <2> DEFINE x == w \div d
             y == v \div d
  <2>1. /\ x \in Nat /\ y \in Nat
        /\ w - (w % d) = d * x /\ v - (v % d) = d * y
    <3>1. /\ x \in Nat /\ w % d \in 0 .. d - 1 /\ w = d * x + (w % d)
          /\ y \in Nat /\ v % d \in 0 .. d - 1 /\ v = d * y + (v % d)
      BY <1>1, Division
    <3> HIDE DEF x, y
    <3>2. d * x \in Nat /\ d * y \in Nat
      BY <1>1, <3>1
    <3> QED
      BY <1>1, <3>1, <3>2
  <2> HIDE DEF x, y
  <2>2. d * x = d * y <=> x = y
    <3>1. d * x = d * y => x >= y /\ y >= x
      <4>1. 0 \in 0 .. d - 1 /\ d * x \in Nat /\ d * y \in Nat
        BY <1>1, <2>1
      <4>2. ASSUME d * x = d * y
            PROVE  d * x + 0 >= d * y + 0 /\ d * y + 0 >= d * x + 0
        BY <4>1, <4>2
      <4>3. ASSUME d * x = d * y PROVE (x > y \/ (x = y /\ 0 >= 0)) /\ (y > x \/ (y = x /\ 0 >= 0))
        BY <1>1, <2>1, <4>1, <4>2, <4>3, Ordered
      <4> QED
        BY <2>1, <4>3
    <3> QED
      BY <2>1, <3>1
  <2> QED
    BY <2>1, <2>2 DEF x, y
<1>4. w \div d = v \div d <=> \A j \in m .. Bits - 1 : Bit(w, j) = Bit(v, j)
  BY <1>1, HighBits
<1>5. ASSUME NEW k \in 0 .. p - 1
      PROVE  BitAt(<<w>>, k) = Bit(w, Bits - 1 - k) /\ BitAt(n, k) = Bit(v, Bits - 1 - k)
  <2>1. k \in 0 .. Bits - 1 /\ 1 \in 1 .. 4 /\ Bits * (1 - 1) + k = k
    BY <1>1
  <2>2. BitAt(<<w>>, k) = Bit(<<w>>[1], Bits - 1 - k) /\ BitAt(n, k) = Bit(n[1], Bits - 1 - k)
    BY <2>1, BitOfWord
  <2> QED
    BY <2>2
<1> HIDE DEF v, d
<1>6. (\A j \in m .. Bits - 1 : Bit(w, j) = Bit(v, j))
        <=> (\A k \in 0 .. p - 1 : Bit(w, Bits - 1 - k) = Bit(v, Bits - 1 - k))
  <2>1. ASSUME \A j \in m .. Bits - 1 : Bit(w, j) = Bit(v, j), NEW k \in 0 .. p - 1
        PROVE  Bit(w, Bits - 1 - k) = Bit(v, Bits - 1 - k)
    <3>1. Bits - 1 - k \in m .. Bits - 1
      BY <1>1
    <3> QED
      BY <2>1, <3>1
  <2>2. ASSUME \A k \in 0 .. p - 1 : Bit(w, Bits - 1 - k) = Bit(v, Bits - 1 - k),
               NEW j \in m .. Bits - 1
        PROVE  Bit(w, j) = Bit(v, j)
    <3>1. Bits - 1 - j \in 0 .. p - 1 /\ Bits - 1 - (Bits - 1 - j) = j
      BY <1>1
    <3> QED
      BY <2>2, <3>1
  <2> QED
    BY <2>1, <2>2
<1> QED
  BY <1>2, <1>3, <1>4, <1>5, <1>6 DEF v

\* Of a network of whole words inet_innetwork6 accepts the addresses whose own host
\* part is zero.
LEMMA InNetworkOfWords ==
    ASSUME NEW n, NEW a, NEW p, inet_isnetwork6(n, p), Rest(p) = 0, p # 0
    PROVE  inet_innetwork6(a, n, p) <=> inet_isnetwork6(a, p)
BY DEF inet_isnetwork6, inet_innetwork6

\* inet_isnetwork6 and inet_innetwork4 test by words and remainders what prefixes
\* say about bits, at, before and behind the ends of words; and inet_innetwork6
\* accepts of a network of whole words the addresses with an empty host part.
THEOREM PrefixesByBits == AddressesSpec => []NetworksMatch
<1>1. NetworksMatch
  <2> SUFFICES ASSUME NEW n \in Hosts6, NEW p \in Prefixes
               PROVE  /\ inet_isnetwork6(n, p) <=>
                            \A k \in (IF p < 0 THEN 4 * Bits ELSE p) .. 4 * Bits - 1 : BitAt(n, k) = 0
                      /\ \A w \in Words : p \in 1 .. Bits =>
                            (inet_innetwork4(w, n[1], p) <=> \A k \in 0 .. p - 1 : BitAt(<<w>>, k) = BitAt(n, k))
                      /\ inet_isnetwork6(n, p) /\ Rest(p) = 0 /\ p # 0 =>
                            \A a \in Hosts6 : inet_innetwork6(a, n, p) <=> inet_isnetwork6(a, p)
    BY DEF NetworksMatch
  <2>1. \A i \in 1 .. 4 : n[i] \in WordValues
    BY WordsAreWords DEF Hosts6
  <2>2. p \in -1 .. 4 * Bits
    BY BitsType DEF Prefixes
  <2>3. inet_isnetwork6(n, p) <=>
           \A k \in (IF p < 0 THEN 4 * Bits ELSE p) .. 4 * Bits - 1 : BitAt(n, k) = 0
    BY <2>1, <2>2, IsNetworkByBits
  <2>4. ASSUME NEW w \in Words, p \in 1 .. Bits
        PROVE  inet_innetwork4(w, n[1], p) <=> \A k \in 0 .. p - 1 : BitAt(<<w>>, k) = BitAt(n, k)
    BY <2>1, <2>4, InNetworkByBits, WordsAreWords
  <2>5. ASSUME inet_isnetwork6(n, p), Rest(p) = 0, p # 0, NEW a \in Hosts6
        PROVE  inet_innetwork6(a, n, p) <=> inet_isnetwork6(a, p)
    BY <2>5, InNetworkOfWords
  <2> QED
    BY <2>3, <2>4, <2>5
<1> QED
  BY <1>1, PTL

---------------------------------------------------------------------------
(* The three together. *)

\* MCData runs one of the three at a time: each of them keeps to its own
\* specification.
LEMMA EachPartRuns == MCSpec => TextSpec /\ CommandLineSpec /\ AddressesSpec
<1>1. MCInit => TextInit /\ CommandLineInit /\ AddressesInit
  BY DEF MCInit
<1>2. [MCNext]_<<part, text, commandVars, addressesVars>>
        => [TextNext]_text /\ [CommandLineNext]_commandVars /\ [AddressesNext]_addressesVars
  BY DEF MCNext
<1> QED
  BY <1>1, <1>2, PTL DEF MCSpec, TextSpec, CommandLineSpec, AddressesSpec

\* Whatever users type and devices report, the types of numbers, settings and
\* addresses are kept.
THEOREM DataKeepsTypes == MCSpec => []TypesOK
BY EachPartRuns, NumbersAreFilledIn, SettingsKeepTypes, FamiliesMatch, PTL DEF TypesOK
============================================================================
