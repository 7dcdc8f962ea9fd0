------------------------------- MODULE Memory --------------------------------
(***************************************************************************)
(* Memory blocks (utils/memory.h, utils/memory_posix.cpp): objects that    *)
(* own an anonymous mapping of whole pages.  A mapping is an address and   *)
(* the number of bytes mapped there; mmap may fail.  The word size of the  *)
(* rounding is left out: sizes are far below 2^64 - page_size.             *)
(***************************************************************************)
EXTENDS Naturals

CONSTANTS Objects, Addresses, page_size,
          Sizes,             \* what callers ask for, 0 included
          nullptr, MAP_FAILED

MemoryAssumption ==
    /\ page_size \in Nat \ {0}
    /\ Sizes \subseteq Nat
    /\ {nullptr, MAP_FAILED} \cap Addresses = {}

VARIABLES alive,             \* the objects that are constructed
          m_data, m_size, m_total_size,
          mapped             \* the kernel's record: address to length

vars == <<alive, m_data, m_size, m_total_size, mapped>>

TypeOK ==
    /\ alive \in SUBSET Objects
    /\ m_data \in [Objects -> Addresses \cup {nullptr, MAP_FAILED}]
    /\ m_size \in [Objects -> Sizes \cup {0}]
    /\ \A o \in Objects : m_total_size[o] % page_size = 0
    /\ DOMAIN mapped \subseteq Addresses

Pages(size) == (size + page_size - 1) - ((size + page_size - 1) % page_size)

Init ==
    /\ alive = {}
    /\ m_data = [o \in Objects |-> nullptr]
    /\ m_size = [o \in Objects |-> 0]
    /\ m_total_size = [o \in Objects |-> 0]
    /\ mapped = [a \in {} |-> 0]

Set(o, data, size, total) ==
    /\ m_data' = [m_data EXCEPT ![o] = data]
    /\ m_size' = [m_size EXCEPT ![o] = size]
    /\ m_total_size' = [m_total_size EXCEPT ![o] = total]

Construct(o) ==
    /\ o \notin alive
    /\ alive' = alive \cup {o}
    /\ Set(o, nullptr, 0, 0)
    /\ UNCHANGED mapped

mmap(a, size) == mapped' = [b \in DOMAIN mapped \cup {a} |->
                               IF b = a THEN Pages(size) ELSE mapped[b]]

\* alloc(size, fill) and alloc0 store into the m_size bytes in addition.
alloc(o, size) ==
    /\ o \in alive
    /\ m_data[o] = nullptr /\ size > 0
    /\ \/ \E a \in Addresses \ DOMAIN mapped :
             mmap(a, size) /\ Set(o, a, size, Pages(size))
       \/ UNCHANGED mapped /\ Set(o, MAP_FAILED, size, Pages(size))
    /\ UNCHANGED alive

\* memory(size): an object whose alloc throws never comes to life.
ConstructSize(o, size) ==
    /\ o \notin alive /\ size > 0
    /\ \E a \in Addresses \ DOMAIN mapped :
          mmap(a, size) /\ Set(o, a, size, Pages(size))
    /\ alive' = alive \cup {o}

\* A wrong move that leaves the mapping with the other object as well.
MoveKeeping(o, other) ==
    /\ o \notin alive /\ other \in alive
    /\ alive' = alive \cup {o}
    /\ Set(o, m_data[other], m_size[other], m_total_size[other])
    /\ UNCHANGED mapped

\* The new object takes the mapping; the old one keeps both of its sizes.
Move(o, other) ==
    /\ o \notin alive /\ other \in alive
    /\ alive' = alive \cup {o}
    /\ m_data' = [m_data EXCEPT ![o] = m_data[other], ![other] = nullptr]
    /\ m_size' = [m_size EXCEPT ![o] = m_size[other]]
    /\ m_total_size' = [m_total_size EXCEPT ![o] = m_total_size[other]]
    /\ UNCHANGED mapped

\* munmap of MAP_FAILED is refused by the kernel: it is not page aligned.
free(o) ==
    IF m_data[o] = nullptr
    THEN UNCHANGED <<m_data, m_size, m_total_size, mapped>>
    ELSE /\ mapped' = [a \in DOMAIN mapped \ {m_data[o]} |-> mapped[a]]
         /\ Set(o, nullptr, 0, 0)

Free(o) == o \in alive /\ free(o) /\ UNCHANGED alive

Destroy(o) == o \in alive /\ free(o) /\ alive' = alive \ {o}

Next ==
    \E o \in Objects :
        \/ Construct(o)
        \/ \E size \in Sizes : alloc(o, size) \/ ConstructSize(o, size)
        \/ \E other \in Objects : Move(o, other)
        \/ Free(o)
        \/ Destroy(o)

Spec == Init /\ [][Next]_vars

-----------------------------------------------------------------------------
(* Through moves, failed and repeated allocations, every mapping has       *)
(* exactly one living owner, which knows its whole length, and every owner *)
(* has its mapping, so none is leaked, unmapped twice or in part, and the  *)
(* bytes operator[] lets through (memory.h:52) are mapped for every object *)
(* that owns memory.                                                       *)
OneOwnerPerMapping ==
    /\ \A a \in DOMAIN mapped :
          \E o \in alive : \A other \in alive : m_data[other] = a <=> other = o
    /\ \A o \in alive : m_data[o] \in Addresses =>
          /\ m_data[o] \in DOMAIN mapped
          /\ mapped[m_data[o]] = m_total_size[o]
          /\ m_size[o] <= mapped[m_data[o]]
          /\ mapped[m_data[o]] < m_size[o] + page_size
=============================================================================
