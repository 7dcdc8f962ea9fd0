------------------------------- MODULE MCData --------------------------------
(***************************************************************************)
(* What computes on data, in one instance for TLC: the interval tree with  *)
(* its operations, and the pure functions, to which a behaviour gives one  *)
(* input.  An input is <<kind, first, second>>; an initial state has the   *)
(* first half, and the step to the second half is shared by TLC's workers. *)
(* A behaviour with the input <<"tree">> is one of the tree.               *)
(***************************************************************************)
EXTENDS IntervalTree

VARIABLE in

dataVars == <<in, tree, m_size, live>>

\* Node n gets the n-th of these intervals: nested, touching, apart, and twice
\* the same; the last one starts before most others or ends last.  Further
\* nodes are in deep trees only.
Fixed == <<<<3, 4>>, <<0, 6>>, <<1, 1>>, <<5, 6>>, <<3, 3>>,
           <<2, 5>>, <<4, 4>>, <<0, 0>>>>
Free == Len(Fixed) + 1
FewIntervals(n) ==
    CASE n < Free -> {[lo |-> Fixed[n][1], hi |-> Fixed[n][2]]}
      [] n = Free -> {[lo |-> 0, hi |-> 4], [lo |-> 3, hi |-> 6]}
      [] OTHER -> {}

\* Deep trees: insertions that leave the fewest nodes a tree of height five can
\* have, leaning to either side.  Some removals from them need a rotation at two
\* levels.  Only removals follow, while there are more than DeepLeast nodes.
DeepStarts == { <<2, 1, 3, 0, 2, 3, 4, 0, 1, 2, 3, 0>>,
                <<1, 0, 3, 0, 1, 2, 4, 0, 2, 3, 4, 2>>,
                <<2, 1, 4, 0, 2, 3, 5, 1, 3, 4, 6, 4>> }
DeepLeast == 8
DeepTree(starts) ==
    LET Grown[k \in 0 .. Len(starts)] ==
            IF k = 0 THEN [root |-> nullptr, node |-> [n \in Nodes |-> Freed]]
            ELSE LET iv == [lo |-> starts[k], hi |-> IF k % 3 = 0 THEN Last ELSE starts[k]]
                 IN ivt_insert([Grown[k - 1] EXCEPT !.node[k] = ivtnode(iv)],
                               RootPlace, k, nullptr)
    IN Grown[Len(starts)]

Bits == INSTANCE BitFields WITH LongLong <- 8, Host <- "little"
Arith == INSTANCE Arithmetic WITH U64 <- 4
ASSUME DataConstants == Arith!ArithmeticAssumption /\ Bits!BitOpsAssumption

Tree == INSTANCE Fdt WITH IntNames <- {<<114>>}
Hex == INSTANCE HexRecords
Boot == INSTANCE Uimage
Image == INSTANCE Elf
Line == INSTANCE Options WITH Dashed <- {"-a", "-b", "-c"}, Empty <- ""
Text == INSTANCE Strings WITH
    Space <- " ", Backslash <- "\\", Quote <- "\"", Apostrophe <- "'"

UpTo(n, S) == UNION {[1 .. k -> S] : k \in 0 .. n}

-----------------------------------------------------------------------------
(* Words of 8 bits, of which half is the narrower type, and of 64 for the  *)
(* reversals; all operands of 4 bits for the arithmetic.                   *)

Types == [w : {4, 8}, signed : BOOLEAN]
Fields == {f \in [OFFSET : 0 .. 8, LENGTH : 0 .. 8] : f.OFFSET + f.LENGTH <= 8}
Nibbles == SUBSET (0 .. 3)

FirstWord(kind) ==
    CASE kind \in {"queries", "checksum"} -> SUBSET (0 .. 7)
      [] kind = "reversal" -> 0 .. 63
      [] kind = "fields" -> {{}, 0 .. 7, {0, 2, 5}}
      [] kind \in {"saturation", "muldiv"} -> Nibbles

SecondWord(kind) ==
    CASE kind = "queries" -> Types \X (0 .. 8)
      [] kind = "checksum" -> {<<>>, <<{}>>, <<{0, 7}>>}
      [] kind = "reversal" -> {0, 7, 24, 63}
      [] kind = "fields" -> Fields \X {{}, {0}, {2}, {1, 3}, 0 .. 7}
      [] kind \in {"saturation", "muldiv"} -> Nibbles \X Nibbles

WordExact(kind, x, s) ==
    CASE kind = "queries" ->
            /\ Bits!QueriesAreExactFor(x \cap 0 .. s[1].w - 1, s[1], s[2])
            /\ Bits!MasksAndSizesAreExact(x \cap 0 .. s[1].w - 1, s[1], s[2])
      [] kind = "reversal" -> Bits!ReversalIsExact({x, s})
      [] kind = "checksum" -> Bits!ChecksumsAreRemainders(<<x>> \o s)
      [] kind = "fields" ->
            /\ \A signed \in BOOLEAN :
                  Bits!FieldsAreIndependent(x, [w |-> 8, signed |-> signed], s[1], s[2])
            /\ Bits!ArrayBitsAreIndependent(x, s[2], 8)
      [] kind = "saturation" -> Arith!SaturationIsExact(x, s[1], s[2], 4)
      [] kind = "muldiv" -> Arith!MultiplyDivideIsExact(x, s[1], s[2])

-----------------------------------------------------------------------------
(* Device trees of two nodes, hex and S-record files of up to three        *)
(* chunks, boot images, and up to three segments with a few symbols.       *)

A == 97
Values ==
    {<<n, <<>>>> : n \in {<<>>, <<<<0, 0, 1, 0>>>>, <<<<A, A, A, 0>>>>,
                          <<<<0, 0, 0, 1>>, <<A, 0, A, 0>>>>}}
    \cup {<<<<>>, s>> : s \in {<<<<A>>>>, <<<<A, A, A>>>>, <<<<A>>, <<>>>>, <<<<200>>>>}}
Props == {Tree!fdtprop(name, v[1], v[2]) :
            name \in {<<114>>, <<115, 116>>, <<116>>, <<114, 115, 116, A>>}, v \in Values}
Leaves ==
    [name : {<<A>>, <<A, A, A, A>>}, children : {<<>>},
     props : UpTo(1, {p \in Props : \/ p.name = <<115, 116>>
                                   \/ p = Tree!fdtprop(p.name, <<>>, <<>>)})]

\* Two addresses below 64 KB, two above.
Chunks == [addr : {0, 65535, 74565, 131071}, data : {<<255, 1>>}]
            \cup [addr : {74565}, data : {<<1>>}]

BootHeaders ==
    [m_date : {66051}, m_load : {1048576}, m_entry : {2}, m_os : {0, 5},
     m_arch : {2}, m_type : {2}, m_comp : {0, 1},
     m_name : {<<65>>, [k \in 1 .. 32 |-> 65]}]

Segment(p, f, m, offset) ==
    [type |-> 1, paddr |-> p, vaddr |-> (p * 3) % 8, filesz |-> f,
     memsz |-> f + m, offset |-> offset]
Segments(offset) ==
    {Segment(p, f, m, offset) : p \in 0 .. 4, f \in 0 .. 2, m \in 0 .. 3}
Sections ==
    << [type |-> 3, names |-> [k \in 0 .. 3 |-> k]],
       [type |-> 2, link |-> 1,
        syms |-> [k \in 1 .. 8 |-> [value |-> k - 1, size |-> 1, name |-> k % 4,
                                    info |-> 16 * (k % 3) + k - 1]]] >>

FirstFile(kind) ==
    CASE kind = "fdt" -> UpTo(2, Props)
      [] kind = "hex" -> Chunks
      [] kind = "boot" -> BootHeaders
      [] kind = "elf" -> Segments(10)

SecondFile(kind) ==
    CASE kind = "fdt" -> UpTo(1, Leaves)
      [] kind = "hex" -> UpTo(2, Chunks)
      [] kind = "boot" -> (0 .. 2) \X (0 .. 3) \X (0 .. 3)
      [] kind = "elf" -> Segments(20) \X {<<>>, <<Segment(1, 1, 2, 30)>>,
                                          <<Segment(4, 1, 0, 30)>>}

FileExact(kind, x, s) ==
    CASE kind = "fdt" ->
            \A name \in {Tree!Root, <<A, A, A>>} :
                Tree!SurvivesFlattening([name |-> name, props |-> x, children |-> s])
      [] kind = "hex" -> Hex!ImagesReadBack(<<x>> \o s, 131073)
      [] kind = "boot" ->
            \A b \in (0 .. 3) \X (0 .. 3) :
                Boot!ImageIsReadBack(x, <<1, 2, 3>>, s[1], <<s[2], s[3]>>, b)
      [] kind = "elf" -> Image!LoadsAsDescribed(<<x, s[1]>> \o s[2], Sections)

-----------------------------------------------------------------------------
(* Two options with a command line of four words, and texts of two words   *)
(* of up to two characters.                                                *)

Registered ==
    {o \in [name : {"-a", "-b"}, aname : {"-b", "-c", ""}, argc : {0, 1},
            refuses : {{}, {"x"}}] : o.argc = 1 \/ o.refuses = {}}
Letters == {" ", "\\", "\"", "'", "x"}

FirstText(kind) ==
    CASE kind = "options" -> Registered \X Registered
      [] kind = "strings" -> UpTo(2, Letters)

SecondText(kind) ==
    CASE kind = "options" -> UpTo(3, {"-a", "-b", "-c", "", "x", "y"})
      [] kind = "strings" -> UpTo(2, Letters)

TextExact(kind, x, s) ==
    CASE kind = "options" -> Line!PassesAgree(x, <<"program">> \o s)
      [] kind = "strings" ->
            \A search \in {<<"x">>, <<" ", "x">>, <<"x", "x">>} :
                Text!TextSurvives(<<x, s>>, search)

-----------------------------------------------------------------------------
WordKinds == {"queries", "reversal", "checksum", "fields", "saturation", "muldiv"}
FileKinds == {"fdt", "hex", "boot", "elf"}
TextKinds == {"options", "strings"}

DataInit ==
    \/ /\ in = <<"deep">>
       /\ \E starts \in DeepStarts :
            /\ DOMAIN starts \subseteq Nodes
            /\ tree = DeepTree(starts) /\ m_size = Len(starts) /\ live = DOMAIN starts
    \/ /\ Init
       /\ \/ in = <<"tree">>
          \/ \E kind \in WordKinds: \E x \in FirstWord(kind) : in = <<kind, x>>
          \/ \E kind \in FileKinds: \E x \in FirstFile(kind) : in = <<kind, x>>
          \/ \E kind \in TextKinds: \E x \in FirstText(kind) : in = <<kind, x>>

GiveSecond ==
    /\ Len(in) = 2
    /\ \E s \in CASE in[1] \in WordKinds -> SecondWord(in[1])
                  [] in[1] \in FileKinds -> SecondFile(in[1])
                  [] in[1] \in TextKinds -> SecondText(in[1]) :
            in' = Append(in, s)
    /\ UNCHANGED vars

DataNext ==
    \/ in = <<"tree">> /\ Next /\ UNCHANGED in
    \/ /\ in = <<"deep">> /\ m_size > DeepLeast
       /\ \E n \in Nodes : remove(n)
       /\ UNCHANGED in
    \/ GiveSecond

DataSpec == DataInit /\ [][DataNext]_dataVars

-----------------------------------------------------------------------------
(* Properties.                                                             *)

\* Bit queries, masks, reversals, checksums, fields, saturation and the 128-bit
\* multiplications and divisions give what their definitions on integers say
\* (bitops.h, bitops.cpp, bitfields.h, saturate.h, muldiv.h).
WordsAreExact ==
    Len(in) = 3 /\ in[1] \in WordKinds => WordExact(in[1], in[2], in[3])

\* What a writer puts into a device tree, a hex or S-record file, a boot image
\* or an ELF file is what the reader gives back (fdt.cpp, ihex.cpp, srec.cpp,
\* uimage.cpp, elf_nolibelf.cpp).  Of damaged files only some are refused: a
\* line of a hex file that does not add up is skipped, which moves no data but
\* that of a lost offset record; damage to an S-record stays in its record; a
\* boot image that ends within its header is refused.  The checksums of S-records
\* and boot images are not looked at.  Damaged device trees and ELF files are
\* not among the inputs.
FilesAreReadBack ==
    Len(in) = 3 /\ in[1] \in FileKinds => FileExact(in[1], in[2], in[3])

\* Segments that are padded with zeros never overwrite the data of another one
\* (the comment at elf_nolibelf.cpp:192).
ElfPaddingNeverOverwrites ==
    Len(in) = 3 /\ in[1] = "elf"
    => Image!PaddingNeverOverwrites(<<in[2], in[3][1]>> \o in[3][2])

\* The two passes over a command line agree on which words are values, and
\* text that was escaped, joined or replaced can be taken apart again
\* (options.cpp, strings.cpp).
TextIsUnderstood ==
    Len(in) = 3 /\ in[1] \in TextKinds => TextExact(in[1], in[2], in[3])
=============================================================================
