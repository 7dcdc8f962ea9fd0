------------------------------- MODULE BitOps -------------------------------
(***************************************************************************)
(* mwr/core/bitops: queries of the bits of an integer, reversal of bits    *)
(* and bytes, and checksums with the tables they use.  A type is a record  *)
(* of its width and whether it is signed.  LongLong is the width of        *)
(* unsigned long long, which most functions convert their argument to.     *)
(***************************************************************************)
EXTENDS Words, Sequences, SequencesExt

CONSTANTS
    LongLong,
    Host      \* the byte order of the machine: "little" or "big"

\* A long long has the bits of eight times the narrowest type.
BitOpsAssumption == LongLong \in Nat \ {0} /\ LongLong % 8 = 0

Unsigned(w) == [w |-> w, signed |-> FALSE]
Signed(w) == [w |-> w, signed |-> TRUE]

\* (unsigned long long)val
Wide(x, T) == Extend(x, T.w, T.signed, LongLong)

popcnt(x, T) == Cardinality(Wide(x, T))
parity(x, T) == popcnt(x, T) % 2
is_aligned(x, T, size) == UInt(Wide(x, T)) % size = 0

ctz(x, T) == IF x = {} THEN T.w ELSE Min(Wide(x, T))

clz(x, T) ==
    IF x = {} THEN T.w
    ELSE LongLong - 1 - Max(Wide(x, T)) - (LongLong - T.w)

ffs(x, T) == IF x = {} THEN -1 ELSE Min(Wide(x, T))
fls(x, T) == T.w - clz(x, T) - 1

\* n &= width - 1, of a width that is a power of two.
rol(x, n, w) ==
    LET k == n % w IN IF k = 0 THEN x ELSE Shl(x, k, w) \cup Shr(x, w - k)
ror(x, n, w) ==
    LET k == n % w IN IF k = 0 THEN x ELSE Shr(x, k) \cup Shl(x, w - k, w)

is_pow2(x, T) == x # {} /\ x \cap Sub(x, {0}, T.w) = {}
log2i(x, T) == ctz(x, T)

bit(offset) == Shl({0}, offset, LongLong)
bitmask(width, offset) ==
    IF offset >= LongLong THEN {}
    ELSE IF width >= LongLong THEN Shl(AllOnes(LongLong), offset, LongLong)
    ELSE Shl(Sub(Shl({0}, width, LongLong), {0}, LongLong), offset, LongLong)

fits(x, T1, T2) ==
    Extend(Extend(x, T1.w, T1.signed, T2.w), T2.w, T2.signed, T1.w) = x

\* The widths 8, 16, 32 and 64, of the signedness of T.
encode_size(x, T) ==
    LET sizes == {w \in {LongLong \div 8, LongLong \div 4, LongLong \div 2,
                         LongLong} : fits(x, T, [T EXCEPT !.w = w])}
    IN IF sizes = {} THEN T.w ELSE Min(sizes)

-----------------------------------------------------------------------------
(* Reversal.                                                               *)

BITREV_TABLE ==
    <<0, 128, 64, 192, 32, 160, 96, 224, 16, 144, 80, 208, 48, 176, 112, 240,
      8, 136, 72, 200, 40, 168, 104, 232, 24, 152, 88, 216, 56, 184, 120, 248,
      4, 132, 68, 196, 36, 164, 100, 228, 20, 148, 84, 212, 52, 180, 116, 244,
      12, 140, 76, 204, 44, 172, 108, 236, 28, 156, 92, 220, 60, 188, 124, 252,
      2, 130, 66, 194, 34, 162, 98, 226, 18, 146, 82, 210, 50, 178, 114, 242,
      10, 138, 74, 202, 42, 170, 106, 234, 26, 154, 90, 218, 58, 186, 122, 250,
      6, 134, 70, 198, 38, 166, 102, 230, 22, 150, 86, 214, 54, 182, 118, 246,
      14, 142, 78, 206, 46, 174, 110, 238, 30, 158, 94, 222, 62, 190, 126, 254,
      1, 129, 65, 193, 33, 161, 97, 225, 17, 145, 81, 209, 49, 177, 113, 241,
      9, 137, 73, 201, 41, 169, 105, 233, 25, 153, 89, 217, 57, 185, 121, 249,
      5, 133, 69, 197, 37, 165, 101, 229, 21, 149, 85, 213, 53, 181, 117, 245,
      13, 141, 77, 205, 45, 173, 109, 237, 29, 157, 93, 221, 61, 189, 125, 253,
      3, 131, 67, 195, 35, 163, 99, 227, 19, 147, 83, 211, 51, 179, 115, 243,
      11, 139, 75, 203, 43, 171, 107, 235, 27, 155, 91, 219, 59, 187, 123, 251,
      7, 135, 71, 199, 39, 167, 103, 231, 23, 151, 87, 215, 55, 183, 119, 247,
      15, 143, 79, 207, 47, 175, 111, 239, 31, 159, 95, 223, 63, 191, 127,
      255>>

bitrev8(x) == OfInt(BITREV_TABLE[UInt(x) + 1], 8)
Swapped(rev(_), x, w) == Shl(rev(Trunc(x, w)), w, 2 * w) \cup rev(Shr(x, w))
bitrev16(x) == Swapped(bitrev8, x, 8)
bitrev32(x) == Swapped(bitrev16, x, 16)
bitrev64(x) == Swapped(bitrev32, x, 32)

ByteOf(x, k) == Trunc(Shr(x, 8 * k), 8)

\* The terms of bswap: byte k moves to the opposite place.
bswap(x, bytes) ==
    UNION {Shl(ByteOf(x, k), 8 * (bytes - 1 - k), 8 * bytes) : k \in 0..(bytes - 1)}

\* le16_to_cpu, be16_to_cpu, ...: nothing to do if the machine has that order.
to_cpu(order, x, bytes) == IF Host = order THEN x ELSE bswap(x, bytes)
cpu_to(order, x, bytes) == IF Host = order THEN x ELSE bswap(x, bytes)

memswap(v) ==
    FoldLeft(LAMBDA m, i : [m EXCEPT ![i] = m[Len(v) + 1 - i],
                                     ![Len(v) + 1 - i] = m[i]],
             v, [i \in 1..(Len(v) \div 2) |-> i])

-----------------------------------------------------------------------------
(* Checksums of sequences of bytes.                                        *)

CRC7_TABLE ==
    <<0, 18, 36, 54, 72, 90, 108, 126, 144, 130, 180, 166, 216, 202, 252, 238,
      50, 32, 22, 4, 122, 104, 94, 76, 162, 176, 134, 148, 234, 248, 206, 220,
      100, 118, 64, 82, 44, 62, 8, 26, 244, 230, 208, 194, 188, 174, 152, 138,
      86, 68, 114, 96, 30, 12, 58, 40, 198, 212, 226, 240, 142, 156, 170, 184,
      200, 218, 236, 254, 128, 146, 164, 182, 88, 74, 124, 110, 16, 2, 52, 38,
      250, 232, 222, 204, 178, 160, 150, 132, 106, 120, 78, 92, 34, 48, 6, 20,
      172, 190, 136, 154, 228, 246, 192, 210, 60, 46, 24, 10, 116, 102, 80, 66,
      158, 140, 186, 168, 214, 196, 242, 224, 14, 28, 42, 56, 70, 84, 98, 112,
      130, 144, 166, 180, 202, 216, 238, 252, 18, 0, 54, 36, 90, 72, 126, 108,
      176, 162, 148, 134, 248, 234, 220, 206, 32, 50, 4, 22, 104, 122, 76, 94,
      230, 244, 194, 208, 174, 188, 138, 152, 118, 100, 82, 64, 62, 44, 26, 8,
      212, 198, 240, 226, 156, 142, 184, 170, 68, 86, 96, 114, 12, 30, 40, 58,
      74, 88, 110, 124, 2, 16, 38, 52, 218, 200, 254, 236, 146, 128, 182, 164,
      120, 106, 92, 78, 48, 34, 20, 6, 232, 250, 204, 222, 160, 178, 132, 150,
      46, 60, 10, 24, 102, 116, 66, 80, 190, 172, 154, 136, 246, 228, 210, 192,
      28, 14, 56, 42, 84, 70, 112, 98, 140, 158, 168, 186, 196, 214, 224, 242>>

crc7(buffer, crc0) ==
    FoldLeft(LAMBDA crc, byte : OfInt(CRC7_TABLE[UInt(Xor(crc, byte)) + 1], 8),
             crc0, buffer)

CRC16_TABLE ==
    <<0, 4129, 8258, 12387, 16516, 20645, 24774, 28903, 33032, 37161, 41290,
      45419, 49548, 53677, 57806, 61935, 4657, 528, 12915, 8786, 21173, 17044,
      29431, 25302, 37689, 33560, 45947, 41818, 54205, 50076, 62463, 58334,
      9314, 13379, 1056, 5121, 25830, 29895, 17572, 21637, 42346, 46411, 34088,
      38153, 58862, 62927, 50604, 54669, 13907, 9842, 5649, 1584, 30423, 26358,
      22165, 18100, 46939, 42874, 38681, 34616, 63455, 59390, 55197, 51132,
      18628, 22757, 26758, 30887, 2112, 6241, 10242, 14371, 51660, 55789,
      59790, 63919, 35144, 39273, 43274, 47403, 23285, 19156, 31415, 27286,
      6769, 2640, 14899, 10770, 56317, 52188, 64447, 60318, 39801, 35672,
      47931, 43802, 27814, 31879, 19684, 23749, 11298, 15363, 3168, 7233,
      60846, 64911, 52716, 56781, 44330, 48395, 36200, 40265, 32407, 28342,
      24277, 20212, 15891, 11826, 7761, 3696, 65439, 61374, 57309, 53244,
      48923, 44858, 40793, 36728, 37256, 33193, 45514, 41451, 53516, 49453,
      61774, 57711, 4224, 161, 12482, 8419, 20484, 16421, 28742, 24679, 33721,
      37784, 41979, 46042, 49981, 54044, 58239, 62302, 689, 4752, 8947, 13010,
      16949, 21012, 25207, 29270, 46570, 42443, 38312, 34185, 62830, 58703,
      54572, 50445, 13538, 9411, 5280, 1153, 29798, 25671, 21540, 17413, 42971,
      47098, 34713, 38840, 59231, 63358, 50973, 55100, 9939, 14066, 1681, 5808,
      26199, 30326, 17941, 22068, 55628, 51565, 63758, 59695, 39368, 35305,
      47498, 43435, 22596, 18533, 30726, 26663, 6336, 2273, 14466, 10403,
      52093, 56156, 60223, 64286, 35833, 39896, 43963, 48026, 19061, 23124,
      27191, 31254, 2801, 6864, 10931, 14994, 64814, 60687, 56684, 52557,
      48554, 44427, 40424, 36297, 31782, 27655, 23652, 19525, 15522, 11395,
      7392, 3265, 61215, 65342, 53085, 57212, 44955, 49082, 36825, 40952,
      28183, 32310, 20053, 24180, 11923, 16050, 3793, 7920>>

crc16(buffer, crc0) ==
    FoldLeft(LAMBDA crc, byte :
                Xor(Shl(crc, 8, 16),
                    OfInt(CRC16_TABLE[UInt(Xor(Shr(crc, 8), byte)) + 1], 16)),
             crc0, buffer)

crc32_poly == {26, 23, 22, 16, 12, 11, 10, 8, 7, 5, 4, 2, 1, 0}

\* The bits of a byte from the lowest up, each against the highest of crc.
crc32(buffer, crc0) ==
    FoldLeft(LAMBDA crc, byte :
        FoldLeft(LAMBDA c, j : IF (31 \in c) # (j \in byte)
                               THEN Xor(Shl(c, 1, 32), crc32_poly)
                               ELSE Shl(c, 1, 32),
                 crc, [j \in 1..8 |-> j - 1]),
        crc0, buffer)

-----------------------------------------------------------------------------
(* Properties.                                                             *)

\* The counts and tests agree with their definitions for words that a long
\* long holds as they are (popcnt, clz and fls of a narrower negative number
\* count the bits of its sign extension).
QueriesAreExactFor(x, T, n) ==
    /\ T.signed /\ T.w < LongLong => T.w - 1 \notin x
    => /\ popcnt(x, T) = Cardinality(x)
       /\ parity(x, T) = 1 <=> Cardinality(x) % 2 = 1
       /\ n > 0 => (is_aligned(x, T, 2^n) <=> \A i \in x : i >= n)
       /\ \A k \in 0..ctz(x, T) : k < T.w => (k \in x <=> k = ctz(x, T))
       /\ \A k \in 0..clz(x, T) :
            k < T.w => (T.w - 1 - k \in x <=> k = clz(x, T))
       /\ x # {} => ffs(x, T) = ctz(x, T) /\ fls(x, T) = T.w - 1 - clz(x, T)
       /\ x = {} => ffs(x, T) = -1 /\ fls(x, T) = -1
       /\ is_pow2(x, T) <=> Cardinality(x) = 1
       /\ is_pow2(x, T) => UInt(x) = 2^log2i(x, T)
       /\ rol(x, n, T.w) = {(i + n) % T.w : i \in x}
       /\ ror(rol(x, n, T.w), n, T.w) = x

\* bitmask is exact at its borders, and encode_size finds the least width whose
\* values include this one.
MasksAndSizesAreExact(x, T, n) ==
    /\ bitmask(n, UInt(x)) =
            {i \in 0..(LongLong - 1) : i >= UInt(x) /\ i < UInt(x) + n}
    /\ n < LongLong => bit(n) = {n}
    /\ LET w == encode_size(x, T)
           v == IF T.signed THEN SInt(x, T.w) ELSE UInt(x)
           Holds(k) == IF T.signed THEN -2^(k - 1) <= v /\ v < 2^(k - 1)
                                   ELSE v < 2^k
       IN Holds(w) /\ (w > LongLong \div 8 => ~Holds(w \div 2))

BytesOf(x, n) == [k \in 1..n |-> ByteOf(x, k - 1)]
StoredAs(x, n, order) == IF order = "little" THEN BytesOf(x, n) ELSE Reverse(BytesOf(x, n))

\* Bits and bytes come out in the opposite order, and numbers stored in one
\* byte order are read as the same number on a machine of either.
ReversalIsExact(x) ==
    /\ bitrev64(x) = {63 - i : i \in x}
    /\ bitrev32(Trunc(x, 32)) = {31 - i : i \in Trunc(x, 32)}
    /\ \A n \in {2, 4, 8}, order \in {"little", "big"} :
        LET v == Trunc(x, 8 * n)
        IN /\ StoredAs(cpu_to(order, v, n), n, Host) = StoredAs(v, n, order)
           /\ to_cpu(order, cpu_to(order, v, n), n) = v
           /\ memswap(StoredAs(v, n, Host)) = StoredAs(bswap(v, n), n, Host)
    /\ memswap(BytesOf(x, 3)) = Reverse(BytesOf(x, 3))

\* The remainder of a polynomial over the bits by another: from the highest
\* place down, a bit that is set is taken away with a multiple of p.
Remainder2(m, p) ==
    IF m = {} THEN m
    ELSE FoldLeft(LAMBDA r, n : IF n \in r THEN Xor(r, {i + n - Max(p) : i \in p})
                                ELSE r,
                  m, [k \in 1..(Max(m) - Max(p) + 1) |-> Max(m) + 1 - k])

Message(buffer, at(_)) ==
    UNION {{8 * (Len(buffer) - k) + at(i) : i \in buffer[k]} : k \in 1..Len(buffer)}
Upper(x, n) == {i + n : i \in x}

\* The checksums are remainders by the polynomials that bitops.h names.
ChecksumsAreRemainders(buffer) ==
    LET high == Message(buffer, LAMBDA i : i)
        low == Message(buffer, LAMBDA i : 7 - i)
    IN /\ crc7(buffer, {}) = Upper(Remainder2(Upper(high, 7), {7, 3, 0}), 1)
       /\ crc16(buffer, {}) = Remainder2(Upper(high, 16), {16, 12, 5, 0})
       /\ crc32(buffer, AllOnes(32)) =
            Remainder2(Xor(Upper(low, 32), Upper(AllOnes(32), 8 * Len(buffer))),
                       {32, 26, 23, 22, 16, 12, 11, 10, 8, 7, 5, 4, 2, 1, 0})
=============================================================================
