--------------------------------- MODULE Fdt ---------------------------------
(***************************************************************************)
(* mwr/utils/fdt: a device tree written to and read from the flattened     *)
(* format.  Bytes are numbers, words of 32 bits sequences of four bytes,   *)
(* the highest first, and strings sequences of bytes other than 0.  The    *)
(* machine is a little-endian one: on a big-endian one the code swaps the  *)
(* bytes of every word, which is not the flattened format.                 *)
(***************************************************************************)
EXTENDS Naturals, Sequences, SequencesExt

CONSTANT IntNames  \* the names of properties that is_int_property knows

Word(n) == <<n \div 256^3, (n \div 256^2) % 256, (n \div 256) % 256, n % 256>>
Number(w) == w[1] * 256^3 + w[2] * 256^2 + w[3] * 256 + w[4]

FDT_MAGIC == <<208, 13, 254, 237>>
FDT_VERSION == 17
FDT_COMPAT == 16
FDT_BEGIN_NODE == Word(1)
FDT_END_NODE == Word(2)
FDT_PROP == Word(3)
FDT_NOP == Word(4)
FDT_END == Word(9)

Root == <<47>>
CStr(s) == Append(s, 0)

fdtprop(name, numbers, strings) ==
    [name |-> name, numbers |-> numbers, strings |-> strings]
fdtnode(name) == [name |-> name, props |-> <<>>, children |-> <<>>]

-----------------------------------------------------------------------------
(* fdtwriter: what was written, and the names of properties so far.        *)

Put(w, bytes) == [w EXCEPT !.out = @ \o bytes]

Padding(len) == [i \in 1..((4 - (len % 4)) % 4) |-> 0]

Offset(strings, k) ==
    FoldLeft(LAMBDA off, s : off + Len(s) + 1, 0, SubSeq(strings, 1, k))

\* A wrong table that forgets the terminating zeros of the names.
strtabUnterminated(w, s) ==
    LET k == SelectInSeq(w.strings, LAMBDA str : str = s)
        known == k # 0
        strings == IF known THEN w.strings ELSE Append(w.strings, s)
        at == IF known THEN k ELSE Len(strings)
    IN Put([w EXCEPT !.strings = strings], Word(Offset(strings, at - 1) - (at - 1)))

\* The offset of a name, which is entered if it is new.
strtab(w, s) ==
    LET k == SelectInSeq(w.strings, LAMBDA str : str = s)
        known == k # 0
        strings == IF known THEN w.strings ELSE Append(w.strings, s)
    IN Put([w EXCEPT !.strings = strings],
           Word(Offset(strings, (IF known THEN k ELSE Len(strings)) - 1)))

Data(prop) ==
    FlattenSeq(prop.numbers)
        \o FlattenSeq([i \in 1..Len(prop.strings) |-> CStr(prop.strings[i])])

write_prop(w, prop) ==
    LET data == Data(prop)
    IN Put(strtab(Put(w, FDT_PROP \o Word(Len(data))), prop.name),
           data \o Padding(Len(data)))

RECURSIVE write_node(_, _)
write_node(w, node) ==
    LET name == CStr(IF node.name = Root THEN <<>> ELSE node.name)
        begun == Put(w, FDT_BEGIN_NODE \o name \o Padding(Len(name)))
    IN Put(FoldLeft(write_node,
                    FoldLeft(write_prop, begun, node.props), node.children),
           FDT_END_NODE)

\* Sizes and offsets are filled in by finalize_header.
Header(total_size, string_off, string_size, struct_size) ==
    FDT_MAGIC \o Word(total_size) \o Word(56) \o Word(string_off) \o Word(40)
        \o Word(FDT_VERSION) \o Word(FDT_COMPAT) \o Word(0)
        \o Word(string_size) \o Word(struct_size)
        \o FlattenSeq([i \in 1..4 |-> Word(0)])

write_strings(strings) ==
    LET bytes == FlattenSeq([i \in 1..Len(strings) |-> CStr(strings[i])])
    IN bytes \o Padding(Len(bytes))

compile(root) ==
    LET w == Put(write_node([out |-> <<>>, strings |-> <<>>], root), FDT_END)
        strings == write_strings(w.strings)
        size == Len(w.out)
    IN Header(56 + size + Len(strings), 56 + size, Len(strings), size)
        \o w.out \o strings

-----------------------------------------------------------------------------
(* fdtreader: positions in the buffer count from 0.                        *)

Report == [report |-> TRUE]

read(buf, at) == SubSeq(buf, at + 1, at + 4)

RECURSIVE ReadUntilZero(_, _)
ReadUntilZero(buf, at) ==
    IF buf[at + 1] = 0 THEN <<>>
    ELSE <<buf[at + 1]>> \o ReadUntilZero(buf, at + 1)

Aligned(n) == n + ((4 - (n % 4)) % 4)

read_strtab(buf, offset) == ReadUntilZero(buf, Number(read(buf, 12)) + offset)

isprint(ch) == ch \in 32..126

\* Optional values: ok is false for std::nullopt.
read_int_data(data) ==
    [ok |-> Len(data) % 4 = 0,
     val |-> [i \in 1..(Len(data) \div 4) |-> SubSeq(data, 4 * i - 3, 4 * i)]]

\* Strings that end with a zero each.
read_str_data(data) ==
    LET split == FoldLeft(LAMBDA r, ch :
                    IF ch = 0 THEN [done |-> Append(r.done, r.s), s |-> <<>>]
                    ELSE [r EXCEPT !.s = Append(@, ch)],
                    [done |-> <<>>, s |-> <<>>], data)
    IN [ok |-> split.s = <<>> /\ \A ch \in ToSet(data) : ch = 0 \/ isprint(ch),
        val |-> split.done]

\* Numbers where the name says so, else strings, else numbers.  (The names that
\* is_str_property knows are read like those that are not known.)
ReadProp(name, data) ==
    LET ints == read_int_data(data)
        strs == read_str_data(data)
    IN IF ints.ok /\ (name \in IntNames \/ ~strs.ok)
       THEN fdtprop(name, ints.val, <<>>)
       ELSE IF strs.ok THEN fdtprop(name, <<>>, strs.val) ELSE Report

\* The node with what follows at a position, up to its FDT_END_NODE, and the
\* position behind that.  A node is assumed to have fewer than the 1000000 tokens
\* at which the loop of the code ends.
RECURSIVE traverse(_, _, _)
traverse(buf, at, parent) ==
    LET token == read(buf, at)
    IN CASE token = FDT_BEGIN_NODE ->
            LET name == ReadUntilZero(buf, at + 4)
                r == traverse(buf, at + 4 + Aligned(Len(name) + 1), fdtnode(name))
            IN IF r = Report THEN Report
               ELSE traverse(buf, r.at,
                             [parent EXCEPT !.children = Append(@, r.node)])
         [] token = FDT_PROP ->
            LET len == Number(read(buf, at + 4))
                name == read_strtab(buf, Number(read(buf, at + 8)))
                prop == ReadProp(name, SubSeq(buf, at + 13, at + 12 + len))
            IN IF prop = Report THEN Report
               ELSE traverse(buf, at + 12 + Aligned(len),
                             [parent EXCEPT !.props = Append(@, prop)])
         [] token = FDT_NOP -> traverse(buf, at + 4, parent)
         [] token = FDT_END_NODE -> [node |-> parent, at |-> at + 4]
         [] OTHER -> Report

decompile(buf) ==
    LET offset == Number(read(buf, 8))
        name == ReadUntilZero(buf, offset + 4)
        r == traverse(buf, offset + 4 + Aligned(Len(name) + 1),
                      fdtnode(IF name = <<>> THEN Root ELSE name))
    IN IF \/ read(buf, 0) # FDT_MAGIC
          \/ Number(read(buf, 24)) # FDT_COMPAT
          \/ read(buf, offset) # FDT_BEGIN_NODE
          \/ r = Report
       THEN Report
       ELSE IF read(buf, r.at) # FDT_END THEN Report ELSE r.node

-----------------------------------------------------------------------------
(* Properties.                                                             *)

\* Can the value of the property be told from the bytes and the name?
Unambiguous(prop) ==
    LET data == Data(prop)
        Text == \A ch \in ToSet(data) : ch = 0 \/ isprint(ch)
    IN IF prop.strings = <<>>
       THEN data = <<>> \/ prop.name \in IntNames \/ ~Text \/ Last(data) # 0
       ELSE /\ Text
            /\ ~(prop.name \in IntNames /\ Len(data) % 4 = 0)

Readable(prop) ==
    LET data == Data(prop)
    IN Len(data) % 4 = 0 \/ \A ch \in ToSet(data) : ch = 0 \/ isprint(ch)

\* A tree comes back from its flattened form as it was, if the kinds of its
\* properties can be told; and when they are guessed wrong, the tree that was
\* read still has the same flattened form.  The header tells the truth.
SurvivesFlattening(tree) ==
    LET nodes == <<tree>> \o tree.children
        props == UNION {ToSet(nodes[i].props) : i \in 1..Len(nodes)}
        buf == compile(tree)
        back == decompile(buf)
        string_off == Number(read(buf, 12))
    IN /\ back = Report <=> \E p \in props : ~Readable(p)
       /\ back # Report => compile(back) = buf
       /\ (\A p \in props : Unambiguous(p)) => back = tree
       /\ Number(read(buf, 4)) = Len(buf) /\ Len(buf) % 4 = 0
       /\ string_off + Number(read(buf, 32)) = Len(buf)
       /\ Number(read(buf, 8)) + Number(read(buf, 36)) = string_off
=============================================================================
