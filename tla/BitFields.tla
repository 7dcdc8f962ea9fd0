------------------------------ MODULE BitFields ------------------------------
(***************************************************************************)
(* mwr/core/bitfields: reading and writing ranges of the bits of a word,   *)
(* which share it with others.  A field is the pair of its OFFSET and      *)
(* LENGTH; the assertion of every function is InRange.                     *)
(***************************************************************************)
EXTENDS BitOps

InRange(start, width, w) == start + width <= w

extract(x, start, width) == Shr(x, start) \cap bitmask(width, 0)

\* Up against the upper end of the word and, with the sign, down again.
sextract(x, start, width, w) ==
    IF width = 0 THEN {}
    ELSE Sar(Shl(x, w - width - start, w), w - width, w)

signext(x, width) == sextract(x, 0, width, LongLong)

\* in is of the type S and converted to the type of the word.
deposit(x, start, width, in, S, w) ==
    LET mask == Trunc(bitmask(width, start), w)
        shifted == IF start < w THEN Shl(Extend(in, S.w, S.signed, w), start, w)
                   ELSE {}
    IN (x \cap Not(mask, w)) \cup (shifted \cap mask)

MASK(f, w) == Trunc(bitmask(f.LENGTH, f.OFFSET), w)
SetInMask(f, v, w) == Shl(v, f.OFFSET, w) \cap MASK(f, w)

get_field(f, x, T) ==
    IF T.signed THEN sextract(x, f.OFFSET, f.LENGTH, T.w)
    ELSE extract(x, f.OFFSET, f.LENGTH)

\* Every bit of the field is set, from ~0ull.
set_field(f, x, w) ==
    deposit(x, f.OFFSET, f.LENGTH, AllOnes(LongLong), Unsigned(LongLong), w)
set_fieldTo(f, x, v, T) == deposit(x, f.OFFSET, f.LENGTH, v, T, T.w)

\* A bit of an array of words, and a bit (or several) of one word.
get_bit(words, pos, w) ==
    words[pos \div w] \cap bit(pos % w) # {}
set_bit(words, pos, set, w) ==
    [words EXCEPT ![pos \div w] =
        IF set THEN @ \cup bit(pos % w) ELSE @ \cap Not(bit(pos % w), w)]
set_bitOf(BIT, x, set, w) ==
    IF set THEN x \cup Trunc(BIT, w) ELSE x \cap Not(BIT, w)

-----------------------------------------------------------------------------
(* Properties.                                                             *)

\* A field of any place and length, none and all of the word included, is read
\* as it was written, with its sign where the type has one, and writing it
\* touches no bit outside.
FieldsAreIndependent(x, T, f, v) ==
    InRange(f.OFFSET, f.LENGTH, T.w) =>
        LET y == set_fieldTo(f, x, v, T)
            low == Trunc(v, f.LENGTH)
            inside == {i \in 0..(T.w - 1) : i >= f.OFFSET
                                            /\ i < f.OFFSET + f.LENGTH}
        IN /\ extract(y, f.OFFSET, f.LENGTH) = low
           /\ f.LENGTH > 0 =>
                SInt(sextract(y, f.OFFSET, f.LENGTH, T.w), T.w)
                    = SInt(low, f.LENGTH)
           /\ get_field(f, y, T) = IF T.signed /\ f.LENGTH > 0
                                   THEN Extend(low, f.LENGTH, TRUE, T.w) ELSE low
           /\ y \ inside = x \ inside
           /\ MASK(f, T.w) = inside
           /\ SetInMask(f, v, T.w) = y \cap inside
           /\ set_field(f, x, T.w) = x \cup inside
           /\ set_bitOf(MASK(f, T.w), x, TRUE, T.w) = x \cup inside
           /\ set_bitOf(MASK(f, T.w), x, FALSE, T.w) = x \ inside
           /\ f.LENGTH > 0 => signext(low, f.LENGTH)
                                = Extend(low, f.LENGTH, TRUE, LongLong)

\* Setting a bit of an array changes that bit, also on either side of the
\* border between two words.
ArrayBitsAreIndependent(x, y, w) ==
    \A pos, other \in 0..(2 * w - 1), set \in BOOLEAN :
        LET words == [k \in {0, 1} |-> IF k = 0 THEN x ELSE y]
        IN get_bit(set_bit(words, pos, set, w), other, w)
            = IF other = pos THEN set ELSE get_bit(words, other, w)
=============================================================================
