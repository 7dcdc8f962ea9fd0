-------------------------------- MODULE Words --------------------------------
(***************************************************************************)
(* Machine words.  A word of width w is the set of the positions, out of   *)
(* 0..w-1, of the bits that are set, so that words as wide as the          *)
(* machine's can be handled without large integers.  The operators are the *)
(* arithmetic of C++ on such words, which wraps around.                    *)
(***************************************************************************)
EXTENDS Integers, FiniteSets, FiniteSetsExt

Word(w) == SUBSET (0..(w - 1))

\* The value of a word read as an unsigned and as a signed number.
UInt(x) ==
    LET width == IF x = {} THEN 0 ELSE Max(x) + 1
        value[w \in 0..width] ==
            IF w = 0 THEN 0
            ELSE value[w - 1] + (IF w - 1 \in x THEN 2^(w - 1) ELSE 0)
    IN value[width]
SInt(x, w) == IF w - 1 \in x THEN UInt(x) - 2^w ELSE UInt(x)

\* The word of width w that a number, negative ones included, is cut down to.
OfInt(n, w) == {i \in 0..(w - 1) : (n \div 2^i) % 2 = 1}

Trunc(x, w) == x \cap 0..(w - 1)

\* A word of type [w, signed] converted to a type of width v.
Extend(x, w, signed, v) ==
    Trunc(IF signed /\ w - 1 \in x THEN x \cup w..(v - 1) ELSE x, v)

AllOnes(w) == 0..(w - 1)
Not(x, w) == AllOnes(w) \ x
Xor(x, y) == SymDiff(x, y)

Shl(x, n, w) == {i \in n..(w - 1) : i - n \in x}
Shr(x, n) == {i - n : i \in {j \in x : j >= n}}
\* The arithmetic shift of a signed word.
Sar(x, n, w) ==
    IF w - 1 \in x THEN Shr(x, n) \cup {i \in 0..(w - 1) : i >= w - n}
    ELSE Shr(x, n)

Add(x, y, w) == OfInt(UInt(x) + UInt(y), w)
Sub(x, y, w) == OfInt(UInt(x) - UInt(y), w)
Mul(x, y, w) == OfInt(UInt(x) * UInt(y), w)
Neg(x, w) == OfInt(-UInt(x), w)

\* The division of C++ rounds towards zero.
Quotient(n, d) ==
    IF (n < 0) = (d < 0) THEN (IF n < 0 THEN -n ELSE n) \div (IF d < 0 THEN -d ELSE d)
    ELSE -((IF n < 0 THEN -n ELSE n) \div (IF d < 0 THEN -d ELSE d))
Remainder(n, d) == n - d * Quotient(n, d)
=============================================================================
