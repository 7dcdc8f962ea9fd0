----------------------------- MODULE HexRecords ------------------------------
(***************************************************************************)
(* The readers of Intel hex files (utils/ihex.cpp) and of Motorola         *)
(* S-records (utils/srec.cpp).  A line is a record: its mark, the digit    *)
(* after an 'S' (0 otherwise), and the bytes its pairs of hex digits stand *)
(* for.  Addresses do not wrap: the code keeps them in 64 bits.            *)
(***************************************************************************)
EXTENDS Naturals, Sequences, SequencesExt, FiniteSetsExt

BigEndian(bytes) == FoldLeft(LAMBDA value, b : 256 * value + b, 0, bytes)

\* vec_to<T> reads the first bytes only; fewer are an error, never met here
\* because process_line has checked their number.
vec_to(size, bytes) == BigEndian(SubSeq(bytes, 1, size))

DATA == 0
EOF == 1
EX_SEG == 2
START_SEG == 3
EX_LIN_ADDR == 4
START_LIN_ADDR == 5
INVALID == 6

\* A bug it could have: the sum is read and not looked at, as srec does.
CheckSumIgnored(bytes) == 0

CheckSum(bytes) == FoldLeft(LAMBDA sum, b : (sum + b) % 256, 0, bytes)

\* How many data bytes a record type carries; a data record carries any.
Carries(type, n) ==
    CASE type = DATA -> TRUE
      [] type = EOF -> n = 0
      [] type \in {EX_SEG, EX_LIN_ADDR} -> n = 2
      [] type \in {START_SEG, START_LIN_ADDR} -> n = 4
      [] OTHER -> FALSE

process_line(line) ==
    LET b == line.bytes
        bad == [type |-> INVALID, addr |-> 0, data |-> <<>>]
    IN IF line.mark # ":" \/ Len(b) < 5 THEN bad
       ELSE LET addr == BigEndian(SubSeq(b, 2, 3))
                type == b[4]
            IN IF \/ Len(b) < 5 + b[1]
                  \/ CheckSum(SubSeq(b, 1, 5 + b[1])) # 0
                  \/ ~Carries(type, b[1])
                  \/ type # DATA /\ addr # 0
               THEN bad
               ELSE [type |-> type, addr |-> addr,
                     data |-> SubSeq(b, 5, 4 + b[1])]

\* The loop of the constructor; a line that is not understood is skipped.
ihexLine(f, line) ==
    LET r == process_line(line)
    IN CASE f.done \/ r.type = INVALID -> f
         [] r.type = EOF -> [f EXCEPT !.done = TRUE]
         [] r.type = EX_SEG -> [f EXCEPT !.seg_offset = 16 * vec_to(2, r.data)]
         [] r.type = EX_LIN_ADDR -> [f EXCEPT !.linear_offset = 65536 * vec_to(2, r.data)]
         [] r.type \in {START_SEG, START_LIN_ADDR} ->
                [f EXCEPT !.m_start_addr = vec_to(4, r.data)]
         [] OTHER ->
                [f EXCEPT !.m_records =
                    Append(@, [addr |-> r.addr + f.seg_offset + f.linear_offset,
                               data |-> r.data])]

ihex(lines) ==
    FoldLeft(ihexLine,
             [done |-> FALSE, m_start_addr |-> 0, m_records |-> <<>>,
              seg_offset |-> 0, linear_offset |-> 0], lines)

\* The number of address bytes each kind of S-record has.
AddressBytes(kind) ==
    CASE kind \in {0, 1, 9} -> 2 [] kind \in {2, 8} -> 3
      [] kind \in {3, 7} -> 4 [] kind = 4 -> 8 [] OTHER -> 0

\* The bytes trim takes off at both ends, as it does with m_header.
nospace(b) == b # 0 /\ b \notin 9 .. 13 \cup {32}
trim(text) ==
    LET kept == {i \in DOMAIN text : nospace(text[i])}
    IN IF kept = {} THEN <<>> ELSE SubSeq(text, Min(kept), Max(kept))

\* The byte count (the first byte) and the checksum (the last) are not read.
srecLine(f, line) ==
    LET n == AddressBytes(line.kind)
        addr == BigEndian(SubSeq(line.bytes, 2, n + 1))
        data == SubSeq(line.bytes, n + 2, Len(line.bytes) - 1)
    IN CASE line.mark # "S" \/ n = 0 \/ Len(line.bytes) < n + 1 -> f
         [] line.kind = 0 -> [f EXCEPT !.m_header = trim(data)]
         [] line.kind \in {7, 8, 9} -> [f EXCEPT !.m_entry = addr]
         [] OTHER -> [f EXCEPT !.m_records = Append(@, [addr |-> addr, data |-> data])]

srec(lines) ==
    FoldLeft(srecLine, [m_entry |-> 0, m_header |-> <<>>, m_records |-> <<>>], lines)

-----------------------------------------------------------------------------
\* Writers after the two formats, for the property only.
Bytes(n, value) == [i \in 1 .. n |-> (value \div 256 ^ (n - i)) % 256]

HexLine(type, addr, data) ==
    LET b == <<Len(data)>> \o Bytes(2, addr) \o <<type>> \o data
    IN [mark |-> ":", kind |-> 0,
        bytes |-> Append(b, (256 - (FoldLeft(+, 0, b) % 256)) % 256)]

\* The start of the 64 KB an address lies in.
Base(addr) == addr - (addr % 65536)

OffsetLine(linear, base) ==
    IF linear THEN HexLine(EX_LIN_ADDR, 0, Bytes(2, base \div 65536))
    ELSE HexLine(EX_SEG, 0, Bytes(2, base \div 16))

\* A chunk is one data line, after an offset line when its base is a new one.
HexFile(linear, chunks, entry) ==
    LET Before(i) == IF i = 1 THEN 0 ELSE Base(chunks[i - 1].addr)
        Chunk(i) ==
            (IF Base(chunks[i].addr) = Before(i) THEN <<>>
             ELSE <<OffsetLine(linear, Base(chunks[i].addr))>>)
                \o <<HexLine(DATA, chunks[i].addr % 65536, chunks[i].data)>>
    IN FlattenSeq([i \in 1 .. Len(chunks) |-> Chunk(i)])
        \o << HexLine(IF linear THEN START_LIN_ADDR ELSE START_SEG, 0, Bytes(4, entry)),
              HexLine(EOF, 0, <<>>), HexLine(DATA, 0, <<255>>) >>

SLine(kind, n, addr, data) ==
    [mark |-> "S", kind |-> kind,
     bytes |-> <<n + Len(data) + 1>> \o Bytes(n, addr) \o data \o <<0>>]

SFile(n, chunks, entry) ==
    <<SLine(0, 2, 0, <<32, 72, 10, 0>>)>>
        \o [i \in 1 .. Len(chunks) |-> SLine(n - 1, n, chunks[i].addr, chunks[i].data)]
        \o << SLine(5, 2, Len(chunks), <<>>), SLine(11 - n, n, entry, <<>>) >>

\* What can happen to a line: its mark, one byte, or all from a byte on.
WithoutMark(line) == [line EXCEPT !.mark = "?"]
Damaged(line, i) == [line EXCEPT !.bytes[i] = (@ + 1) % 256]
Cut(line, i) == [line EXCEPT !.bytes = SubSeq(@, 1, i - 1)]
Spoilt(line) ==
    {WithoutMark(line)} \cup {Damaged(line, i) : i \in DOMAIN line.bytes}
        \cup {Cut(line, i) : i \in DOMAIN line.bytes}

\* The chunks that line k of a hex file says something of: its own, or those
\* that share the base of an offset line.
DataLines(file, k) == Cardinality({j \in 1 .. k : file[j].bytes[4] = DATA})
Concerned(file, chunks, k) ==
    LET first == DataLines(file, k - 1) + 1
    IN CASE file[k].bytes[4] = DATA -> {first} \cap DOMAIN chunks
         [] file[k].bytes[4] \in {EX_SEG, EX_LIN_ADDR} ->
                {j \in first .. Len(chunks) :
                    \A i \in first .. j : Base(chunks[i].addr) = Base(chunks[first].addr)}
         [] OTHER -> {}

(* The reader of Intel hex (ihex.cpp:101) skips a spoilt line without a    *)
(* word.  A data line takes its own data with it.  Without an offset line  *)
(* the data up to the next one moves to the base before, all else stays    *)
(* where it was.  Without the start line the entry is 0, and without the   *)
(* end line what follows is read, too.  A file that ends early gives the   *)
(* data before its end.                                                    *)
SpoiltHexLine(linear, chunks, entry) ==
    LET file == HexFile(linear, chunks, entry)
        Starts(k) == file[k].bytes[4] \in {START_SEG, START_LIN_ADDR}
    IN \A k \in DOMAIN file :
        LET concerned == Concerned(file, chunks, k)
            before == IF DataLines(file, k) = 0 THEN 0
                      ELSE Base(chunks[DataLines(file, k)].addr)
            moved == [i \in DOMAIN chunks |->
                        IF i \in concerned
                        THEN [chunks[i] EXCEPT !.addr = before + (@ % 65536)]
                        ELSE chunks[i]]
            early == ihex(SubSeq(file, 1, k))
            present == DataLines(file, IF k = Len(file) THEN k - 1 ELSE k)
        IN /\ \A line \in Spoilt(file[k]) :
                LET f == ihex([file EXCEPT ![k] = line])
                IN /\ f.m_start_addr = IF Starts(k) THEN 0 ELSE entry
                   /\ f.m_records =
                        CASE file[k].bytes[4] = DATA ->
                                [i \in 1 .. Len(chunks) - Cardinality(concerned) |->
                                    chunks[IF \E c \in concerned : c <= i
                                           THEN i + 1 ELSE i]]
                          [] file[k].bytes[4] = EOF ->
                                Append(chunks, [addr |-> Base(Last(chunks).addr),
                                                data |-> <<255>>])
                          [] OTHER -> moved
           /\ early.m_records = SubSeq(chunks, 1, present)
           /\ early.m_start_addr = IF \E j \in 1 .. k : Starts(j) THEN entry ELSE 0

(* The reader of S-records (srec.cpp:31) notices no damage, and what it    *)
(* does to a line stays with that line: count and checksum may be anything,*)
(* any other damage changes or loses the record of this line, and every    *)
(* other record is where it was.                                           *)
SpoiltSLine(n, chunks, entry) ==
    LET file == SFile(n, chunks, entry)
        whole == srec(file)
        Holds(k) == k \in 2 .. Len(chunks) + 1
    IN \A k \in DOMAIN file :
        /\ \A i \in {1, Len(file[k].bytes)} :
                srec([file EXCEPT ![k] = Damaged(@, i)]) = whole
        /\ \A line \in Spoilt(file[k]) :
             LET f == srec([file EXCEPT ![k] = line])
             IN /\ k = 1 \/ f.m_header = whole.m_header
                /\ k = Len(file) \/ f.m_entry = entry
                /\ IF Holds(k)
                   THEN RemoveAt(chunks, k - 1) \in
                            {f.m_records} \cup
                            IF Len(f.m_records) = Len(chunks)
                            THEN {RemoveAt(f.m_records, k - 1)} ELSE {}
                   ELSE f.m_records = chunks

(* An image written as Intel hex (with linear or with segment addresses)   *)
(* or as S-records (of 24 or 32 bits) is read back at the addresses it was *)
(* written for, with its entry point, and what follows the end record is   *)
(* ignored.  A spoilt line changes what is said above and nothing else.    *)
ImagesReadBack(chunks, entry) ==
    /\ \A linear \in BOOLEAN :
          LET whole == ihex(HexFile(linear, chunks, entry))
          IN /\ whole.m_records = chunks
             /\ whole.m_start_addr = entry
             /\ SpoiltHexLine(linear, chunks, entry)
    /\ \A n \in 3 .. 4 :
          /\ srec(SFile(n, chunks, entry))
                = [m_entry |-> entry, m_header |-> <<72>>, m_records |-> chunks]
          /\ SpoiltSLine(n, chunks, entry)
=============================================================================
