------------------------------- MODULE Uimage --------------------------------
(***************************************************************************)
(* The reader of U-Boot legacy images (utils/uimage.cpp).  A file is a     *)
(* sequence of bytes; the image is a record of the header's fields and of  *)
(* the state of m_file, which a short read leaves failed for good.         *)
(***************************************************************************)
EXTENDS HexRecords

magic == <<39, 5, 25, 86>>          \* 0x27051956
header_size == 64
INVALID_FIELD == 0                  \* OS_INVALID, ARCH_INVALID, TYPE_INVALID

\* read32be and read8 at the stream position, as the constructor calls them.
read32be(file, at) == BigEndian(SubSeq(file, at + 1, at + 4))
read8(file, at) == file[at + 1]

\* readstr: 32 bytes, taken as a C string.
readstr(file, at) ==
    LET text == SubSeq(file, at + 1, at + 32)
        zero == SelectInSeq(text, LAMBDA b : b = 0)
    IN IF zero = 0 THEN text ELSE SubSeq(text, 1, zero - 1)

\* The checksums of header and payload (at 4 and 24) are read and not looked
\* at.  An empty result stands for the MWR_ERROR of the constructor.
uimage(file) ==
    IF \/ Len(file) < header_size
       \/ SubSeq(file, 1, 4) # magic
       \/ INVALID_FIELD \in {read8(file, 28), read8(file, 29), read8(file, 30)}
    THEN {}
    ELSE {[m_date |-> read32be(file, 8), m_size |-> read32be(file, 12),
           m_load |-> read32be(file, 16), m_entry |-> read32be(file, 20),
           m_os |-> read8(file, 28), m_arch |-> read8(file, 29),
           m_type |-> read8(file, 30), m_comp |-> read8(file, 31),
           m_name |-> readstr(file, 32), good |-> TRUE]}

\* uimage::read: what arrives, and the image afterwards; an error is {}.
read(image, file, size, offset) ==
    IF ~image.good \/ size + offset > image.m_size THEN {}
    ELSE LET from == header_size + offset
             data == SubSeq(file, from + 1,
                            IF from + size < Len(file) THEN from + size ELSE Len(file))
         IN {[data |-> data,
              image |-> [image EXCEPT !.good = Len(data) = size]]}

-----------------------------------------------------------------------------
UimageFile(f, payload, crc) ==
    magic \o Bytes(4, crc) \o Bytes(4, f.m_date) \o Bytes(4, Len(payload))
        \o Bytes(4, f.m_load) \o Bytes(4, f.m_entry) \o Bytes(4, crc)
        \o <<f.m_os, f.m_arch, f.m_type, f.m_comp>>
        \o f.m_name \o [i \in 1 .. 32 - Len(f.m_name) |-> 0] \o payload

(* Every field of the header comes from its place in the file (uimage.cpp: *)
(* 27-56, on a little-endian host), a name that fills its field is not cut *)
(* off, and any two reads of the payload (59) return exactly the bytes     *)
(* asked for or are refused; nothing behind the payload is returned.  The  *)
(* two checksums may say anything.  A file that ends within the header is  *)
(* refused.  When it ends in the payload, the read that notices is short   *)
(* and no later read succeeds.                                             *)
ImageIsReadBack(f, payload, missing, first, second) ==
    LET whole == UimageFile(f, payload, missing)
        file == SubSeq(whole, 1, Len(whole) - missing) \o IF missing = 0 THEN <<9>> ELSE <<>>
        present == Len(payload) - missing
        Right(r, slice) == r.data = SubSeq(payload, slice[2] + 1,
                                           IF slice[1] + slice[2] < present
                                           THEN slice[1] + slice[2] ELSE present)
    IN /\ \A image \in uimage(file) :
          /\ \A field \in DOMAIN f : image[field] = f[field]
          /\ image.m_size = Len(payload)
          /\ (read(image, file, first[1], first[2]) = {})
                 <=> (first[1] + first[2] > Len(payload))
          /\ \A r \in read(image, file, first[1], first[2]) :
                /\ Right(r, first)
                /\ r.image.good <=> Len(r.data) = first[1]
                /\ \A s \in read(r.image, file, second[1], second[2]) :
                      r.image.good /\ Right(s, second)
       /\ (uimage(file) = {}) <=> INVALID_FIELD \in {f.m_os, f.m_arch, f.m_type}
       /\ \A end \in {0, 4, 31, 63} : uimage(SubSeq(whole, 1, end)) = {}
=============================================================================
