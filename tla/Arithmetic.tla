----------------------------- MODULE Arithmetic -----------------------------
(***************************************************************************)
(* mwr/core/saturate and mwr/core/muldiv: addition and subtraction that    *)
(* saturate, products of twice the width and quotients by a divisor of     *)
(* half of it, on words.  U64 is the width of u64, twice that of u32.      *)
(***************************************************************************)
EXTENDS Words

CONSTANT U64

\* u64 has the bits of two u32.
ArithmeticAssumption == U64 \in Nat \ {0} /\ U64 % 2 = 0

U32 == U64 \div 2

-----------------------------------------------------------------------------
(* Saturation.  A result is the word and whether it was saturated.         *)

SMax(w) == 0..(w - 2)
SMin(w) == {w - 1}

\* max or min, after the sign of x: (ux >> sh) + max.
Limit(x, w) == Add(Shr(x, w - 1), SMax(w), w)

sat_add_signed(x, y, w) ==
    LET ux == Limit(x, w)
        res == Add(x, y, w)
        in_range == w - 1 \in Xor(ux, y) \cup Not(Xor(y, res), w)
    IN IF in_range THEN [res |-> res, sat |-> FALSE]
       ELSE [res |-> ux, sat |-> TRUE]

\* Of y and z, the one whose sign differs from that of x is added first.
sat_add3(x, y, z, w) ==
    LET swap == w - 1 \in Xor(y, z) \cap Xor(x, z)
        first == sat_add_signed(x, IF swap THEN z ELSE y, w)
        second == sat_add_signed(first.res, IF swap THEN y ELSE z, w)
    IN [res |-> second.res, sat |-> first.sat \/ second.sat]

sat_add_unsigned(x, y, w) ==
    LET res == Add(x, y, w)
        less == UInt(res) < UInt(x)
    IN [res |-> IF less THEN AllOnes(w) ELSE res, sat |-> less]

sat_sub_signed(x, y, w) ==
    LET ux == Limit(x, w)
        res == Sub(x, y, w)
        out_of_range == w - 1 \in Xor(ux, y) \cap Xor(ux, res)
    IN IF out_of_range THEN [res |-> ux, sat |-> TRUE]
       ELSE [res |-> res, sat |-> FALSE]

sat_sub_unsigned(x, y, w) ==
    LET res == Sub(x, y, w)
        less_equal == UInt(res) <= UInt(x)
    IN [res |-> IF less_equal THEN res ELSE {}, sat |-> ~less_equal]

-----------------------------------------------------------------------------
(* Products: the halves hi and lo.                                         *)

\* A wrong product that loses the carry out of the middle.
umul64_slowNoCarry(a, b) ==
    LET ah == Shr(a, U32)  al == Trunc(a, U32)
        bh == Shr(b, U32)  bl == Trunc(b, U32)
        t1 == Mul(al, bl, U64)
        t2 == Mul(ah, bl, U64)
        t3 == Mul(al, bh, U64)
        mid == Add(Add(t2, t3, U64), Shr(t1, U32), U64)
    IN [hi |-> Add(Mul(ah, bh, U64), Shr(mid, U32), U64),
        lo |-> Add(Shl(mid, U32, U64), Trunc(t1, U32), U64)]

umul64_slow(a, b) ==
    LET ah == Shr(a, U32)  al == Trunc(a, U32)
        bh == Shr(b, U32)  bl == Trunc(b, U32)
        t1 == Mul(al, bl, U64)
        t2 == Add(Mul(ah, bl, U64), Shr(t1, U32), U64)
        t3 == Add(Mul(al, bh, U64), Trunc(t2, U32), U64)
    IN [hi |-> Add(Add(Mul(ah, bh, U64), Shr(t2, U32), U64), Shr(t3, U32), U64),
        lo |-> Add(Shl(t3, U32, U64), Trunc(t1, U32), U64)]

\* A number of twice the width, cut into halves.
Halves(n) == [hi |-> OfInt(n \div 2^U64, U64), lo |-> OfInt(n, U64)]

\* With integers of 128 bits.
umul64(a, b) == Halves(UInt(a) * UInt(b))
imul64(a, b) == Halves(SInt(a, U64) * SInt(b, U64))

imul64_slow(a, b) ==
    LET u == umul64(a, b)
        minus_a == IF U64 - 1 \in b THEN Sub(u.hi, a, U64) ELSE u.hi
    IN [hi |-> IF U64 - 1 \in a THEN Sub(minus_a, b, U64) ELSE minus_a,
        lo |-> u.lo]

-----------------------------------------------------------------------------
(* Quotients of hi:lo, of which the lower half is returned.                *)

udivup(a, b) == OfInt(UInt(Sub(Add(a, b, U64), {0}, U64)) \div UInt(b), U64)

Dividend(hi, lo) == hi * 2^U64 + UInt(lo)

udiv128lo(hi, lo, d) ==
    IF d = {} THEN {}
    ELSE IF hi = {} THEN OfInt(UInt(lo) \div UInt(d), U64)
    ELSE OfInt(Dividend(UInt(hi), lo) \div UInt(d), U64)

idiv128lo(hi, lo, d) ==
    IF d = {} THEN {}
    ELSE IF hi = {} THEN OfInt(Quotient(SInt(lo, U64), SInt(d, U64)), U64)
    ELSE OfInt(Quotient(Dividend(SInt(hi, U64), lo), SInt(d, U64)), U64)

umod128(hi, lo, d) ==
    IF d = {} THEN {}
    ELSE IF hi = {} THEN OfInt(UInt(lo) % UInt(d), U64)
    ELSE OfInt(Dividend(UInt(hi), lo) % UInt(d), U64)

imod128(hi, lo, d) ==
    IF d = {} THEN {}
    ELSE IF hi = {} THEN OfInt(Remainder(SInt(lo, U64), SInt(d, U64)), U64)
    ELSE OfInt(Remainder(Dividend(SInt(hi, U64), lo), SInt(d, U64)), U64)

-----------------------------------------------------------------------------
(* Properties.                                                             *)

\* n cut off at lo and hi.
Clamped(n, lo, hi) == IF n < lo THEN lo ELSE IF n > hi THEN hi ELSE n

\* Sums and differences are the exact ones, cut off at the limits of the type
\* once, at the end, and sat says whether they were.
SaturationIsExact(x, y, z, w) ==
    LET S(n, r) == /\ SInt(r.res, w) = Clamped(n, -2^(w - 1), 2^(w - 1) - 1)
                   /\ r.sat <=> n # SInt(r.res, w)
        U(n, r) == /\ UInt(r.res) = Clamped(n, 0, 2^w - 1)
                   /\ r.sat <=> n # UInt(r.res)
        sx == SInt(x, w)
        sy == SInt(y, w)
    IN /\ S(sx + sy, sat_add_signed(x, y, w))
       /\ S(sx - sy, sat_sub_signed(x, y, w))
       /\ S(sx + sy + SInt(z, w), sat_add3(x, y, z, w))
       /\ U(UInt(x) + UInt(y), sat_add_unsigned(x, y, w))
       /\ U(UInt(x) - UInt(y), sat_sub_unsigned(x, y, w))

\* The product from half words is the one of the wide integers, and the
\* quotients and remainders give back the dividend where they fit.  Left out
\* are udivup of operands whose sum overflows, and signed dividends with the
\* upper half zero and the lower one too large for i64, which the code takes to
\* be negative.
MultiplyDivideIsExact(a, b, d) ==
    LET sd == SInt(d, U64)
        n == Dividend(UInt(a), b)
        sn == Dividend(SInt(a, U64), b)
        fits_i64(q) == q \in -2^(U64 - 1) .. 2^(U64 - 1) - 1
    IN /\ umul64_slow(a, b) = umul64(a, b)
       /\ imul64_slow(a, b) = imul64(a, b)
       /\ d # {} =>
            /\ UInt(b) + UInt(d) - 1 < 2^U64 =>
                (UInt(udivup(b, d)) - 1) * UInt(d) < UInt(b)
                    /\ UInt(b) <= UInt(udivup(b, d)) * UInt(d)
            /\ UInt(a) < UInt(d) =>
                n = UInt(udiv128lo(a, b, d)) * UInt(d) + UInt(umod128(a, b, d))
            /\ (a # {} \/ U64 - 1 \notin b) /\ fits_i64(Quotient(sn, sd)) =>
                LET r == SInt(imod128(a, b, d), U64)
                IN /\ sn = SInt(idiv128lo(a, b, d), U64) * sd + r
                   /\ r = 0 \/ (r < 0 <=> sn < 0)
=============================================================================
