---------------------------- MODULE NumberText ----------------------------
(***************************************************************************)
(* What users write for a phone number, after `-n' (leelen2sip.c) or as    *)
(* the user of a SIP URI (uas.c), and what leelen/number.c makes of it.    *)
(* The digit in a place is fixed, and ten places in a row have ten digits: *)
(* the parser never looks at which digit it is, only the place matters.    *)
(***************************************************************************)
EXTENDS LeelenNumber

CONSTANT TextMax    \* bound: characters of a text

VARIABLE text

TextInit == text = <<>>

\* One more character.
Type(char) ==
    /\ Len(text) < TextMax
    /\ text' = Append(text, char)

TextNext == Type((Len(text) + 1) % 10) \/ Type(Sep)

TextSpec == TextInit /\ [][TextNext]_text

\* Memory that was zero, and memory that has held a number with an extension.
Blank == [block |-> <<0, 0, 0, 0>>, room |-> <<0, 0, 0, 0>>, sep2 |-> Nul, extension |-> Nul]
Former == [block |-> <<8, 7, 6, 5>>, room |-> <<4, 3, 2, 1>>, sep2 |-> Sep, extension |-> 7]

\* Results of parsing a text into each of them, without and with a base.
Results(src) ==
    {LeelenNumber_init(dest, src, base) : dest \in {Blank, Former}, base \in {{}, {Former}}}

\* Numbers parsed into memory that has no old extension.
CleanOf(src) ==
    {r.number : r \in {r \in {LeelenNumber_init(Blank, src, base) : base \in {{}, {Former}}} : r.ret = 0}}
Clean == CleanOf(text)

---------------------------------------------------------------------------
(* The accepted forms, from number.h:134-138, as the ways to cut a text.   *)

Word(i, j) == SubSeq(text, i, j)
IsField(word) == Len(word) \in 1 .. 4 /\ \A k \in 1 .. Len(word) : word[k] \in Digit

\* Where a number that ends at k goes on: nowhere, or to an extension, which
\* has a separator before it, or none if `joined'.
Extensions(k, joined) ==
    LET n == Len(text)
    IN  {e \in Digit \cup {Nul} :
            \/ k = n /\ e = Nul
            \/ k = n - 2 /\ text[k + 1] = Sep /\ text[n] = e
            \/ k = n - 1 /\ text[n] = e /\ joined}

\* block-room[-extension]; a single digit after the only separator is not a
\* room but an extension.
BlockRooms ==
    UNION {{<<Word(1, i - 1), Word(i + 1, k), e>> :
                e \in {e \in Extensions(k, FALSE) : ~ (e = Nul /\ k = i + 1)}} :
           i \in SepsOf(text), k \in 1 .. Len(text)}

\* room[-extension] and room[extension], in the block of the base.
Rooms(block) ==
    UNION {{<<block, Word(1, k), e>> : e \in Extensions(k, k = 4)} :
           k \in {k \in 1 .. 4 : k <= Len(text)}}

\* blockroom[-extension] and blockroom[extension]
Joined == {<<Word(1, 4), Word(5, 8), e>> : e \in IF Len(text) < 8 THEN {} ELSE Extensions(8, TRUE)}

Readings(block) ==
    {r \in BlockRooms \cup Rooms(block) \cup Joined : IsField(r[1]) /\ IsField(r[2])}

\* The value of a field of any length.
Amount(word) ==
    LET Place(k) == IF k > Len(word) THEN 0 ELSE word[Len(word) + 1 - k]
    IN  Place(1) + 10 * Place(2) + 100 * Place(3) + 1000 * Place(4)

Meaning(n) ==
    <<Value(n.block), Value(n.room), IF n.sep2 = Nul THEN Nul ELSE n.extension>>

---------------------------------------------------------------------------
(* Properties. *)

\* What the parser stores is a number of the form XXXX-XXXX or XXXX-XXXX-X,
\* all of its digits filled in, whatever the text and the memory.
NumberTypeOK ==
    /\ text \in Seq(Digit \cup {Sep})
    /\ \A r \in Results(text) : r.number \in Numbers

\* LeelenNumber_init accepts exactly the texts that number.h lists, and stores
\* the block, the room and the extension that the text names; without a base it
\* answers 2 for a text that needs one.
ParseMatchesForms ==
    \A dest \in {Blank, Former} :
        LET with == LeelenNumber_init(dest, text, {Former})
            without == LeelenNumber_init(dest, text, {})
        IN  /\ (with.ret = 0) <=> (Readings(Former.block) # {})
            /\ with.ret = 0 =>
                  {Meaning(with.number)}
                      = {<<Amount(r[1]), Amount(r[2]), r[3]>> : r \in Readings(Former.block)}
            /\ without =
                  IF with.ret = 0 /\ Rooms(Former.block) \cap Readings(Former.block) # {}
                  THEN [ret |-> 2, number |-> dest]
                  ELSE with

\* A number that is printed and parsed again, also over itself and whatever
\* the base, is the same: LeelenNumber.str may go on the network and back.
ParseIsStable ==
    \A r \in Results(text), base \in {{}, {Former}} : r.ret = 0 =>
        LET again == LeelenNumber_init(r.number, Str(r.number), base)
        IN  again.ret = 0 /\ Str(again.number) = Str(r.number)

\* The 32-bit form loses nothing of a number, as long as its memory does not
\* keep the extension of a number before it.
IntRoundTrip ==
    \A n \in Clean : Str(LeelenNumber_fromint(n, LeelenNumber_toint(n))) = Str(n)

\* The 5-byte form loses nothing either, but comes back with the halves of
\* each field exchanged: the two directions do not agree on their order.
BytesSwapHalves ==
    \A n \in Clean :
        LET back == LeelenNumber_frombytes(n, LeelenNumber_tobytes(n))
            Swap(field) == <<field[3], field[4], field[1], field[2]>>
        IN  Str(back) = Str([n EXCEPT !.block = Swap(@), !.room = Swap(@)])

\* `Test if two phone numbers are equal' (number.h:46), as far as it is true: of
\* two texts that differ in the last digit at most, numbers that print the same
\* are equal if the memory of both was zero; and numbers that are equal have the
\* same block and room, though not the same extension.  A device answers to the
\* solicitations (uas.c sends LeelenNumber.str) for its block and room.
EqualIsSameRoom ==
    text # <<>> /\ text[Len(text)] # Sep =>
        \A n \in Clean, m \in Clean \cup CleanOf([text EXCEPT ![Len(text)] = (@ + 1) % 10]) :
            /\ Str(n) = Str(m) => LeelenNumber_equal(n, m)
            /\ LeelenNumber_equal(n, m) => n.block = m.block /\ n.room = m.room
            /\ LeelenNumber_should_reply(n, Str(m)) <=> n.block = m.block /\ n.room = m.room

\* Every form of a number stands for the same number: its text, its packed
\* forms but for their halves, and its copy that LeelenNumber_equal looks at.
FormsAgree == ParseIsStable /\ IntRoundTrip /\ BytesSwapHalves /\ EqualIsSameRoom
===========================================================================
