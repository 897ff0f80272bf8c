---------------------------- MODULE LeelenNumber ----------------------------
(***************************************************************************)
(* Phone numbers, leelen/number.c and number.h: parsing and the two packed *)
(* forms.  A character is a digit, or Sep, which stands for every other    *)
(* one: the parser takes any, and the program writes `-'.                  *)
(***************************************************************************)
EXTENDS Integers, Sequences

Digit == 0 .. 9
Sep == 10
Nul == 11      \* the byte '\0'
MaxText == 11  \* LEELEN_NUMBER_STRLEN - 1

\* struct LeelenNumber.  Where the number has no extension (sep2 is '\0') the
\* byte `extension' is whatever was there before.
Four == [1 .. 4 -> Digit]
Numbers == [block : Four, room : Four, sep2 : {Nul, Sep}, extension : Digit \cup {Nul}]

\* LeelenNumber.str
Str(n) ==
    n.block \o <<Sep>> \o n.room
        \o (IF n.sep2 = Nul THEN <<>> ELSE <<Sep, n.extension>>)

LeelenNumber_has_extension(n) == ~ (n.sep2 = Nul /\ n.extension = Nul)

LeelenNumber_equal(n, m) ==
    /\ n.block = m.block /\ n.room = m.room
    /\ n.sep2 = m.sep2
    /\ n.sep2 # Nul \/ n.extension = m.extension

\* The request is the rest of a buffer, so that there is always something to
\* compare with.
LeelenNumber_should_reply(n, request) == SubSeq(Str(n), 1, 9) = SubSeq(request, 1, 9)

---------------------------------------------------------------------------
(* LeelenNumber_init. *)

\* (mutant: a field filled with '\0')
PaddedNul(src, from, len) ==
    [i \in 1 .. 4 |-> IF i <= 4 - len THEN Nul ELSE src[from + i - (4 - len)]]

\* (mutant: forgets to shift short fields to the right)
PaddedLeft(src, from, len) ==
    [i \in 1 .. 4 |-> IF i <= len THEN src[from + i] ELSE 0]

\* memcpy(field + 4 - len, src + from, 4) on a field of zeros.
Padded(src, from, len) ==
    [i \in 1 .. 4 |-> IF i <= 4 - len THEN 0 ELSE src[from + i - (4 - len)]]

SepsOf(src) == {i \in 1 .. Len(src) : src[i] = Sep}

\* The end of the function, with `extension' or Nul for none.
Stored(dest, block, room, extension) ==
    [block |-> block, room |-> room,
     sep2 |-> IF extension = Nul THEN Nul ELSE Sep,
     extension |-> IF extension = Nul THEN dest.extension ELSE extension]

Done(dest, block, room, extension) ==
    [ret |-> 0, number |-> Stored(dest, block, room, extension)]
Failed(dest, code) == [ret |-> code, number |-> dest]

\* (mutant: jumps behind the assignment of the extension)
BlockRoomOnly(dest, src, i, j, extension) ==
    IF i - 1 > 4 \/ j - i - 1 > 4 THEN Failed(dest, 1)
    ELSE Done(dest, Padded(src, 0, i - 1), Padded(src, i, j - i - 1), Nul)

\* block_room: `i' and `j' are the places of the separators, or of the end.
BlockRoom(dest, src, i, j, extension) ==
    IF i - 1 > 4 \/ j - i - 1 > 4 THEN Failed(dest, 1)
    ELSE Done(dest, Padded(src, 0, i - 1), Padded(src, i, j - i - 1), extension)

\* case 0: the first `len' characters are room or block and room, the rest of
\* an extension without a separator with them.
Digits(dest, src, base, len, extension) ==
    IF len <= 5
    THEN IF base = {} THEN Failed(dest, 2)
         ELSE LET block == (CHOOSE b \in base : TRUE).block
              IN  IF len <= 4 THEN Done(dest, block, Padded(src, 0, len), extension)
                  ELSE Done(dest, block, Padded(src, 0, 4), src[5])
    ELSE IF len \in {8, 9}
         THEN Done(dest, Padded(src, 0, 4), Padded(src, 4, 4),
                   IF len = 9 THEN src[9] ELSE extension)
         ELSE Failed(dest, 1)

\* `base' is a set of one number, or empty for NULL; `dest' the memory before.
LeelenNumber_init(dest, src, base) ==
    LET n == Len(src)
        seps == SepsOf(src)
        first == CHOOSE i \in seps : \A k \in seps : i <= k
        last == CHOOSE i \in seps : \A k \in seps : k <= i
    IN  IF \/ n = 0 \/ n > MaxText
           \/ 1 \in seps \/ n \in seps
           \/ \E i, j, k \in seps : i < j /\ j < k
        THEN Failed(dest, 1)
        ELSE IF seps = {} THEN Digits(dest, src, base, n, Nul)
        ELSE IF first = last
             THEN IF first # n - 1
                  THEN BlockRoom(dest, src, first, n + 1, Nul)
                  ELSE IF n - 2 <= 4 \/ n - 2 = 8
                       THEN Digits(dest, src, base, n - 2, src[n])
                       ELSE Failed(dest, 1)
        ELSE IF first + 1 = last \/ last # n - 1 THEN Failed(dest, 1)
             ELSE BlockRoom(dest, src, first, last, src[n])

---------------------------------------------------------------------------
(* The 32-bit form.  Its bit fields are kept apart; widths of 14, 14 and 4. *)

\* atoi() of the four digits of a field
Value(field) == 1000 * field[1] + 100 * field[2] + 10 * field[3] + field[4]

LeelenNumber_toint(n) ==
    [block |-> Value(n.block) % 16384,
     room |-> Value(n.room) % 16384,
     extension |-> IF LeelenNumber_has_extension(n) THEN n.extension % 16 ELSE 15]

itoa4(value) ==
    <<(value \div 1000) % 10, (value \div 100) % 10, (value \div 10) % 10, value % 10>>

LeelenNumber_fromint(dest, int) ==
    Stored(dest, itoa4(int.block), itoa4(int.room),
           IF int.extension >= 10 THEN Nul ELSE int.extension)

---------------------------------------------------------------------------
(* The 5-byte form: extension, two bytes of room and two of block. *)

int2byte(x, y) == 10 * x + y
byte2int(byte) == <<byte \div 10, byte % 10>>

\* The second half of a field comes first.
Halves(field) == <<int2byte(field[3], field[4]), int2byte(field[1], field[2])>>

LeelenNumber_tobytes(n) ==
    [extension |-> IF LeelenNumber_has_extension(n) THEN n.extension ELSE 255,
     room |-> Halves(n.room), block |-> Halves(n.block)]

\* Here the first half of a field comes first.
LeelenNumber_frombytes(dest, bytes) ==
    Stored(dest, byte2int(bytes.block[1]) \o byte2int(bytes.block[2]),
           byte2int(bytes.room[1]) \o byte2int(bytes.room[2]),
           IF bytes.extension = 255 THEN Nul ELSE bytes.extension)
===========================================================================
