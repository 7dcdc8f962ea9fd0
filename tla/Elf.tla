--------------------------------- MODULE Elf ---------------------------------
(***************************************************************************)
(* mwr::elf without libelf: the segments and symbols of a file, and the    *)
(* memory a simulator gets by reading all its segments to where they       *)
(* belong.  A file is its program headers and its sections, decoded; the   *)
(* errors of a file that is cut off somewhere are left out.                *)
(***************************************************************************)
EXTENDS Naturals, Sequences, SequencesExt

PT_LOAD == 1
SHT_SYMTAB == 2

get_bind(info) ==
    CASE info \div 16 = 1 -> "GLOBAL"
      [] info \div 16 = 2 -> "WEAK"
      [] OTHER -> "LOCAL"

get_kind(info) ==
    CASE info % 16 = 0 -> "UNKNOWN"
      [] info % 16 = 1 -> "OBJECT"
      [] info % 16 = 2 -> "FUNC"
      [] info % 16 = 5 -> "COMMON"
      [] info % 16 = 6 -> "TLS"
      [] OTHER -> "NONE"

-----------------------------------------------------------------------------
(* Segments.                                                               *)

\* The addresses that would be padded with zeros, from s up to but not e.
Pad(phdr) == [s |-> phdr.paddr + phdr.filesz, e |-> phdr.paddr + phdr.memsz]

\* The test of the code: of the padding of two segments.
Overlaps(a, b) == b.s < a.e /\ a.s < b.e

\* Memory is not padded where it would overlap.
MemSize(phdrs, i) ==
    IF /\ phdrs[i].memsz > phdrs[i].filesz
       /\ \E j \in DOMAIN phdrs \ {i} : Overlaps(Pad(phdrs[i]), Pad(phdrs[j]))
    THEN phdrs[i].filesz ELSE phdrs[i].memsz

read_segments(headers) ==
    LET phdrs == SelectSeq(headers, LAMBDA h : h.type = PT_LOAD)
    IN [i \in DOMAIN phdrs |->
            [virt |-> phdrs[i].vaddr, phys |-> phdrs[i].paddr,
             size |-> MemSize(phdrs, i), filesz |-> phdrs[i].filesz,
             offset |-> phdrs[i].offset]]

\* A byte of the file is its offset, and 0 a zero.  Memory is what is read, at
\* the address dest, in place of what was there.
read_segment(memory, seg, dest) ==
    [a \in DOMAIN memory |->
        IF a \in dest .. dest + seg.filesz - 1 THEN seg.offset + a - dest
        ELSE IF a \in dest + seg.filesz .. dest + seg.size - 1 THEN 0
        ELSE memory[a]]

\* What users do with the segments, in their order.
Load(segments, memory) ==
    FoldLeft(LAMBDA m, seg : read_segment(m, seg, seg.phys), memory, segments)

to_phys(segments, virt) ==
    LET i == SelectInSeq(segments, LAMBDA seg :
                virt >= seg.virt /\ virt < seg.virt + seg.size)
    IN IF i = 0 THEN virt ELSE segments[i].phys + (virt - segments[i].virt)

-----------------------------------------------------------------------------
(* Symbols: of every symbol table, with the names of the section it links  *)
(* to, except those of kinds that are not known.                           *)

read_symbols(sections, segments) ==
    LET Of(shdr) ==
            [k \in DOMAIN shdr.syms |->
                LET sym == shdr.syms[k]
                IN [virt |-> sym.value, size |-> sym.size,
                    phys |-> to_phys(segments, sym.value),
                    kind |-> get_kind(sym.info), bind |-> get_bind(sym.info),
                    name |-> sections[shdr.link].names[sym.name]]]
    IN SelectSeq(
            FlattenSeq([k \in DOMAIN sections |->
                IF sections[k].type = SHT_SYMTAB THEN Of(sections[k]) ELSE <<>>]),
            LAMBDA symbol : symbol.kind # "NONE")

find_symbol(symbols, name) ==
    LET i == SelectInSeq(symbols, LAMBDA sym : sym.name = name)
    IN IF i = 0 THEN <<>> ELSE <<symbols[i]>>

-----------------------------------------------------------------------------
(* Properties.                                                             *)

Occupied(start, size) == start .. start + size - 1

\* Does the file put two segments in one place?
Disjoint(phdrs) ==
    \A i, j \in DOMAIN phdrs : i # j =>
        Occupied(phdrs[i].paddr, phdrs[i].filesz)
            \cap Occupied(phdrs[j].paddr, phdrs[j].filesz) = {}

\* Does a segment begin in the padding of another and end behind it?
RunsOutOfPadding(phdrs) ==
    \E i, j \in DOMAIN phdrs :
        /\ i # j
        /\ phdrs[i].memsz > phdrs[i].filesz
        /\ phdrs[j].paddr < Pad(phdrs[i]).e
        /\ Pad(phdrs[i]).e <= Pad(phdrs[j]).s
        /\ phdrs[j].filesz > 0

\* Is every byte that the file has for memory in memory?
DataIsLoaded(phdrs, memory) ==
    \A i \in DOMAIN phdrs, k \in 0..6 :
        k < phdrs[i].filesz =>
            memory[phdrs[i].paddr + k] = phdrs[i].offset + k

Filled == [a \in 0..12 |-> 99]

\* "during loading, segments will be zero-padded if memsz > filesz, unless
\* padding would cause a segment overlap; we filter these cases out" (line 192):
\* padding never overwrites the data of another segment.
PaddingNeverOverwrites(phdrs) ==
    Disjoint(phdrs) => DataIsLoaded(phdrs, Load(read_segments(phdrs), Filled))

\* The same for all files but those in which a segment runs out of the padding
\* of another; besides, segments that are not empty and do not share addresses
\* are zero behind their data, and a symbol in a segment has the address where
\* its byte is loaded, if the addresses they are linked to do not overlap.
LoadsAsDescribed(phdrs, sections) ==
    LET segments == read_segments(phdrs)
        memory == Load(segments, Filled)
        symbols == read_symbols(sections, segments)
        names == {symbols[k].name : k \in DOMAIN symbols}
    IN Disjoint(phdrs) =>
        /\ RunsOutOfPadding(phdrs) \/ DataIsLoaded(phdrs, memory)
        /\ (\A i, j \in DOMAIN phdrs : i # j =>
                /\ phdrs[i].memsz > 0
                /\ Occupied(phdrs[i].paddr, phdrs[i].memsz)
                    \cap Occupied(phdrs[j].paddr, phdrs[j].memsz) = {})
            => \A i \in DOMAIN phdrs, a \in DOMAIN Filled :
                a \in Pad(phdrs[i]).s .. Pad(phdrs[i]).e - 1 => memory[a] = 0
        /\ (\A i, j \in DOMAIN segments : i # j =>
                Occupied(segments[i].virt, segments[i].size)
                    \cap Occupied(segments[j].virt, segments[j].size) = {})
            => \A name \in names, i \in DOMAIN segments :
                LET sym == find_symbol(symbols, name)[1]
                IN sym.virt \in Occupied(segments[i].virt, segments[i].size)
                    => sym.phys - segments[i].phys = sym.virt - segments[i].virt
=============================================================================
