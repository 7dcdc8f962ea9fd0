---------------------------- MODULE SystemProofs ----------------------------
(***************************************************************************)
(* Proofs about the parts composed by MCSystem, under the names its runs   *)
(* check, for any objects and any values of the bounds.                    *)
(***************************************************************************)
EXTENDS MCSystem, Sequences, FiniteSetTheorems, TLAPS

\* A behaviour is one of a single part.
LEMMA PartStays == [Next]_vars => part' = part
BY DEF Next, vars

-----------------------------------------------------------------------------
(* Sockets.                                                                *)

SocketOK == part = "Socket" => Soc!TypeOK /\ Soc!Inductive

LEMMA SocketHolds == Spec => []SocketOK
<1>1. Init => SocketOK
    BY SystemConstants, Soc!InitialState DEF Init, SocketOK
<1>2. SocketOK /\ [Next]_vars => SocketOK'
    <2> SUFFICES ASSUME SocketOK, [Next]_vars, part' = "Socket"
                 PROVE  (Soc!TypeOK /\ Soc!Inductive)'
        BY DEF SocketOK
    <2>1. part = "Socket" /\ Soc!TypeOK /\ Soc!Inductive
        BY PartStays DEF SocketOK
    <2>2. [Soc!Next]_(Soc!vars)
        BY <2>1 DEF Next, vars, Soc!vars
    <2>3. QED
        BY <2>1, <2>2, SystemConstants, Soc!StepKeepsInductive
<1>3. QED
    BY <1>1, <1>2, PTL DEF Spec

\* Between calls, whatever failed, however often the connection was replaced
\* under transfers and however many of them tore it down together, the fields
\* agree and no socket but the connection is open; until a transfer has torn
\* down without the lock while connect ran.
THEOREM SocketsAreConsistent == Spec => []ConsistentWhenQuiescent
<1>1. SocketOK => ConsistentWhenQuiescent
    BY SystemConstants, Soc!WhatInductiveSays DEF SocketOK, ConsistentWhenQuiescent
<1>2. QED
    BY <1>1, SocketHolds, PTL

\* No transfer uses a connection that is open and not the socket's any more,
\* although connect and disconnect may replace it during the transfer; until
\* the same.
THEOREM TransfersArePresent == Spec => []TransfersOnPresentConnection
<1>1. SocketOK => TransfersOnPresentConnection
    BY SystemConstants, Soc!WhatInductiveSays DEF SocketOK, TransfersOnPresentConnection
<1>2. QED
    BY <1>1, SocketHolds, PTL

-----------------------------------------------------------------------------
(* The library loader.  The variables of a part under the names they have  *)
(* in its module are expanded everywhere in its section; cleaned is exited.*)

alive == s1
m_handle == s2
m_copy == s3
m_keep == s4
copies == s5
disk == s6
cleanup_libs == s7
cleaned == s8
own == s9
USE DEF alive, m_handle, m_copy, m_keep, copies, disk, cleanup_libs, cleaned, own

(* Both properties follow from who has which copy: a copy has one object   *)
(* that knows it, so that closing an object takes no file from another; an *)
(* object that mopen has opened has the first instance or the copy that it *)
(* knows; and every copy on disk is on the list of those to be removed.    *)

CopiesAreOwned ==
    /\ \A o \in Triple : m_copy[o] = 0 \/ m_copy[o] < copies
    /\ \A o, p \in Triple : m_copy[o] = m_copy[p] /\ m_copy[o] # 0 => o = p

InstancesAreKnown ==
    /\ own \subseteq alive
    /\ copies = 0 => own = {}
    /\ \A o, p \in own : m_handle[o] \in Pair /\ m_handle[p] \in Pair => o = p
    /\ \A o \in own :
        \/ m_handle[o] \in Pair
        \/ /\ m_handle[o] = m_copy[o] /\ m_copy[o] # 0
           /\ ~cleaned => m_copy[o] \in disk

CopiesAreListed ==
    /\ ~cleaned => disk \subseteq cleanup_libs
    /\ cleaned => disk = {}

LibraryOwned ==
    /\ alive \subseteq Triple
    /\ m_handle \in [Triple -> Pair \cup Nat \cup {nullptr}]
    /\ m_copy \in [Triple -> Nat]
    /\ copies \in Nat
    /\ CopiesAreOwned /\ InstancesAreKnown /\ CopiesAreListed

\* What close may change: the object's own handle and copy, and that copy on
\* disk and on the list.
ClosesOnly(o, r) ==
    /\ r.handle \in [Triple -> Pair \cup Nat \cup {nullptr}]
    /\ r.copy \in [Triple -> Nat]
    /\ \A p \in Triple \ {o} : r.handle[p] = m_handle[p] /\ r.copy[p] = m_copy[p]
    /\ r.copy[o] \in {0, m_copy[o]}
    /\ r.disk \subseteq disk /\ disk \ r.disk \subseteq {m_copy[o]}
    /\ disk \subseteq cleanup_libs => r.disk \subseteq r.libs

LEMMA CloseIsLocal ==
    ASSUME LibraryOwned, NEW o \in Triple
    PROVE  ClosesOnly(o, Lib!close(o)) /\ ClosesOnly(o, Lib!Reopened(o))
<1>1. ClosesOnly(o, Lib!close(o))
    BY DEF ClosesOnly, Lib!close, LibraryOwned
<1>2. ClosesOnly(o, [handle |-> m_handle, copy |-> m_copy, disk |-> disk,
                     libs |-> cleanup_libs])
    BY DEF ClosesOnly, LibraryOwned
<1>3. QED
    BY <1>1, <1>2 DEF Lib!Reopened

\* An object that is closed, and then opened by other means than mopen or not
\* at all, leaves the others as they were.
LEMMA ClosedForOthers ==
    ASSUME LibraryOwned, ~cleaned, ~cleaned', NEW o \in alive, NEW r, ClosesOnly(o, r),
           m_handle' \in [Triple -> Pair \cup Nat \cup {nullptr}],
           \A p \in Triple \ {o} : m_handle'[p] = r.handle[p],
           m_copy' = r.copy, disk' = r.disk, cleanup_libs' = r.libs,
           own' = own \ {o}, alive' = alive,
           copies' \in Nat, copies <= copies'
    PROVE  LibraryOwned'
<1> USE DEF LibraryOwned, ClosesOnly
<1>1. o \in Triple
    OBVIOUS
<1>2. CopiesAreOwned'
    <2>1. ASSUME NEW p \in Triple PROVE m_copy'[p] = 0 \/ m_copy'[p] < copies'
        <3>1. m_copy'[p] = m_copy[p] \/ m_copy'[p] = 0
            OBVIOUS
        <3>2. m_copy[p] = 0 \/ m_copy[p] < copies
            BY DEF CopiesAreOwned
        <3>3. QED
            BY <3>1, <3>2
    <2>2. ASSUME NEW p \in Triple, NEW q \in Triple,
                 m_copy'[p] = m_copy'[q], m_copy'[p] # 0
          PROVE  p = q
        <3>1. m_copy'[p] = m_copy[p] /\ m_copy'[q] = m_copy[q]
            BY <2>2
        <3>2. QED
            BY <2>2, <3>1 DEF CopiesAreOwned
    <2>3. QED
        BY <2>1, <2>2 DEF CopiesAreOwned
<1>3. InstancesAreKnown'
    <2>1. ASSUME NEW p \in own'
          PROVE  \/ m_handle'[p] \in Pair
                 \/ m_handle'[p] = m_copy'[p] /\ m_copy'[p] # 0 /\ m_copy'[p] \in disk'
        <3>1. p \in own /\ p # o /\ p \in Triple
            BY DEF InstancesAreKnown
        <3>2. m_handle'[p] = m_handle[p] /\ m_copy'[p] = m_copy[p]
            BY <3>1
        <3>3. CASE m_handle[p] \in Pair
            BY <3>2, <3>3
        <3>4. CASE m_handle[p] = m_copy[p] /\ m_copy[p] # 0 /\ m_copy[p] \in disk
            <4>1. m_copy[p] # m_copy[o]
                BY <3>1, <3>4, <1>1 DEF CopiesAreOwned
            <4>2. QED
                BY <3>2, <3>4, <4>1
        <3>5. QED
            BY <3>1, <3>3, <3>4 DEF InstancesAreKnown
    <2>2. copies' = 0 => own' = {}
        BY DEF InstancesAreKnown
    <2>3. \A p, q \in own' : m_handle'[p] \in Pair /\ m_handle'[q] \in Pair => p = q
        <3>1. \A p \in own' : p \in own /\ m_handle'[p] = m_handle[p]
            BY DEF InstancesAreKnown
        <3>2. QED
            BY <3>1 DEF InstancesAreKnown
    <2>4. own' \subseteq alive'
        BY DEF InstancesAreKnown
    <2>5. QED
        BY <2>1, <2>2, <2>3, <2>4 DEF InstancesAreKnown
<1>4. CopiesAreListed'
    BY DEF CopiesAreListed
<1>5. QED
    BY <1>2, <1>3, <1>4

\* The first instance: before it no object has one.
LEMMA FirstInstance ==
    ASSUME Lib!LibraryAssumption, LibraryOwned, NEW o \in Triple, NEW path \in Pair,
           Lib!mopenFirst(o, path)
    PROVE  LibraryOwned'
<1> DEFINE r == Lib!Reopened(o)
<1>1. /\ ~cleaned /\ ~cleaned' /\ o \in alive /\ copies = 0 /\ alive' = alive
      /\ m_copy' = r.copy /\ disk' = r.disk /\ cleanup_libs' = r.libs
    BY DEF Lib!mopenFirst, LibraryOwned
<1>2. ClosesOnly(o, r)
    BY CloseIsLocal
<1> HIDE DEF r
<1>3. CASE m_handle' = r.handle /\ own' = own \ {o} /\ copies' = copies
    BY <1>1, <1>2, <1>3, ClosedForOthers DEF ClosesOnly, LibraryOwned
<1>4. CASE m_handle' = [r.handle EXCEPT ![o] = path] /\ own' = own \cup {o} /\ copies' = 1
    <2> USE DEF LibraryOwned, ClosesOnly
    <2>1. own' = {o} /\ m_handle'[o] = path
        BY <1>1, <1>2, <1>4 DEF InstancesAreKnown
    <2>2. \A p \in Triple : m_copy[p] = 0
        BY <1>1 DEF CopiesAreOwned
    <2>3. \A p \in Triple : m_copy'[p] = 0
        BY <1>1, <1>2, <2>2
    <2>4. CopiesAreOwned' /\ InstancesAreKnown'
        BY <1>1, <1>4, <2>1, <2>3 DEF CopiesAreOwned, InstancesAreKnown
    <2>5. CopiesAreListed'
        BY <1>1, <1>2 DEF CopiesAreListed
    <2>6. QED
        BY <1>1, <1>2, <1>4, <2>4, <2>5
<1>5. QED
    BY <1>3, <1>4 DEF Lib!mopenFirst, r

\* A further instance gets a number that no object has.
LEMMA NextInstance ==
    ASSUME Lib!LibraryAssumption, LibraryOwned, NEW o \in Triple, Lib!mopenCopy(o)
    PROVE  LibraryOwned'
<1> DEFINE r == Lib!Reopened(o)
<1>1. /\ ~cleaned /\ ~cleaned' /\ o \in alive /\ alive' = alive
      /\ copies \in Nat \ {0} /\ copies' = copies + 1
      /\ m_copy' = [r.copy EXCEPT ![o] = copies]
      /\ disk' = r.disk \cup {copies} /\ cleanup_libs' = r.libs \cup {copies}
      /\ \/ m_handle' = [r.handle EXCEPT ![o] = copies] /\ own' = own \cup {o}
         \/ m_handle' = r.handle /\ own' = own \ {o}
    BY DEF Lib!mopenCopy, LibraryOwned, Lib!Copies, Lib!LibraryAssumption
<1>2. ClosesOnly(o, r)
    BY CloseIsLocal
<1> HIDE DEF r
<1> USE DEF LibraryOwned, ClosesOnly
<1>3. /\ m_copy'[o] = copies
      /\ \A p \in Triple \ {o} :
            m_copy'[p] = m_copy[p] /\ m_handle'[p] = m_handle[p]
      /\ o \in own' => m_handle'[o] = copies
      /\ own' \ {o} = own \ {o}
    BY <1>1, <1>2
<1>4. CopiesAreOwned'
    <2>1. \A p \in Triple \ {o} : m_copy[p] = 0 \/ m_copy[p] < copies
        BY DEF CopiesAreOwned
    <2>2. \A p \in Triple \ {o} : m_copy'[p] # copies
        BY <1>1, <1>3, <2>1
    <2>3. \A p \in Triple : m_copy'[p] = 0 \/ m_copy'[p] < copies'
        <3>1. SUFFICES ASSUME NEW p \in Triple
                       PROVE  m_copy'[p] = 0 \/ m_copy'[p] < copies'
            OBVIOUS
        <3>2. CASE p = o
            BY <1>1, <1>3, <3>2
        <3>3. CASE p # o
            <4>1. m_copy'[p] = m_copy[p] /\ m_copy[p] \in Nat
                BY <1>3, <3>3
            <4>2. m_copy[p] = 0 \/ m_copy[p] < copies
                BY <2>1, <3>3
            <4>3. QED
                BY <1>1, <4>1, <4>2
        <3>4. QED
            BY <3>2, <3>3
    <2>4. \A p, q \in Triple : m_copy'[p] = m_copy'[q] /\ m_copy'[p] # 0 => p = q
        BY <1>3, <2>2 DEF CopiesAreOwned
    <2>5. QED
        BY <2>3, <2>4 DEF CopiesAreOwned
<1>5. InstancesAreKnown'
    <2>1. ASSUME NEW p \in own'
          PROVE  \/ m_handle'[p] \in Pair
                 \/ m_handle'[p] = m_copy'[p] /\ m_copy'[p] # 0 /\ m_copy'[p] \in disk'
        <3>1. CASE p = o
            BY <1>1, <1>3, <2>1, <3>1
        <3>2. CASE p # o
            <4>1. /\ p \in own /\ p \in Triple
                  /\ m_handle'[p] = m_handle[p] /\ m_copy'[p] = m_copy[p]
                BY <1>3, <2>1, <3>2 DEF InstancesAreKnown
            <4>2. CASE m_handle[p] \in Pair
                BY <4>1, <4>2
            <4>3. CASE m_handle[p] = m_copy[p] /\ m_copy[p] # 0 /\ m_copy[p] \in disk
                <5>1. m_copy[p] # m_copy[o]
                    BY <1>1, <3>2, <4>1, <4>3 DEF CopiesAreOwned
                <5>2. m_copy[p] \in r.disk
                    BY <1>2, <4>3, <5>1
                <5>3. QED
                    BY <1>1, <4>1, <4>3, <5>2
            <4>4. QED
                BY <1>1, <4>1, <4>2, <4>3 DEF InstancesAreKnown
        <3>3. QED
            BY <3>1, <3>2
    <2>2. \A p, q \in own' : m_handle'[p] \in Pair /\ m_handle'[q] \in Pair => p = q
        <3>1. copies \notin Pair
            BY <1>1 DEF Lib!LibraryAssumption
        <3>2. \A p \in own' : m_handle'[p] \in Pair =>
                    p \in own /\ m_handle'[p] = m_handle[p]
            BY <1>3, <3>1 DEF InstancesAreKnown
        <3>3. QED
            BY <3>2 DEF InstancesAreKnown
    <2>3. own' \subseteq alive' /\ copies' # 0
        BY <1>1 DEF InstancesAreKnown
    <2>4. QED
        BY <1>1, <2>1, <2>2, <2>3 DEF InstancesAreKnown
<1>6. CopiesAreListed'
    BY <1>1, <1>2 DEF CopiesAreListed
<1>7. m_handle' \in [Triple -> Pair \cup Nat \cup {nullptr}]
      /\ m_copy' \in [Triple -> Nat]
    BY <1>1, <1>2
<1>8. QED
    BY <1>1, <1>4, <1>5, <1>6, <1>7

\* The move constructor hands over the handle, the copy and the instance.
LEMMA LibraryMoves ==
    ASSUME LibraryOwned, NEW o \in Triple, NEW other \in Triple, Lib!Move(o, other)
    PROVE  LibraryOwned'
<1> USE DEF LibraryOwned
<1>1. /\ o # other /\ o \notin alive /\ other \in alive
      /\ alive' = alive \cup {o}
      /\ m_handle'[o] = m_handle[other] /\ m_handle'[other] = nullptr
      /\ m_copy'[o] = m_copy[other] /\ m_copy'[other] = 0
      /\ \A p \in Triple \ {o, other} :
            m_handle'[p] = m_handle[p] /\ m_copy'[p] = m_copy[p]
      /\ own' = IF other \in own THEN (own \cup {o}) \ {other} ELSE own
      /\ UNCHANGED <<copies, disk, cleanup_libs, cleaned>>
    BY DEF Lib!Move
<1>2. CopiesAreOwned'
    BY <1>1 DEF CopiesAreOwned
<1>3. InstancesAreKnown'
    <2>1. o \notin own /\ own \subseteq Triple
        BY <1>1 DEF InstancesAreKnown
    <2>2. /\ other \notin own'
          /\ o \in own' => other \in own
          /\ \A p \in own' : p # o => p \in own
        BY <1>1, <2>1
    <2>3. QED
        BY <1>1, <2>1, <2>2 DEF InstancesAreKnown
<1>4. CopiesAreListed'
    BY <1>1 DEF CopiesAreListed
<1>5. QED
    BY <1>1, <1>2, <1>3, <1>4 DEF Lib!Move

\* The destructor, before and after the cleanup at exit.
LEMMA DestroyIsLocal ==
    ASSUME LibraryOwned, NEW o \in Triple, Lib!Destroy(o)
    PROVE  LibraryOwned'
<1> USE DEF LibraryOwned
<1>1. /\ alive' = alive \ {o} /\ own' = own \ {o}
      /\ m_copy' = [m_copy EXCEPT ![o] = 0]
      /\ UNCHANGED <<copies, cleaned>>
    BY DEF Lib!Destroy
<1>2. ClosesOnly(o, Lib!close(o))
    BY CloseIsLocal
<1>3. /\ m_handle' \in [Triple -> Pair \cup Nat \cup {nullptr}]
      /\ \A p \in Triple \ {o} : m_handle'[p] = m_handle[p]
      /\ disk' \subseteq disk /\ disk \ disk' \subseteq {m_copy[o]}
      /\ disk \subseteq cleanup_libs => disk' \subseteq cleanup_libs'
    <2>1. CASE o \in m_keep
        BY <2>1 DEF Lib!Destroy
    <2>2. CASE o \notin m_keep
        BY <1>2, <2>2 DEF Lib!Destroy, ClosesOnly
    <2>3. QED
        BY <2>1, <2>2
<1>4. CopiesAreOwned'
    BY <1>1 DEF CopiesAreOwned
<1>5. InstancesAreKnown'
    <2>1. ASSUME NEW p \in own'
          PROVE  \/ m_handle'[p] \in Pair
                 \/ /\ m_handle'[p] = m_copy'[p] /\ m_copy'[p] # 0
                    /\ ~cleaned' => m_copy'[p] \in disk'
        <3>1. /\ p \in own /\ p \in Triple /\ p # o
              /\ m_handle'[p] = m_handle[p] /\ m_copy'[p] = m_copy[p]
            BY <1>1, <1>3 DEF InstancesAreKnown
        <3>2. m_copy[p] # 0 => m_copy[p] # m_copy[o]
            BY <3>1 DEF CopiesAreOwned
        <3>3. QED
            BY <1>1, <1>3, <3>1, <3>2 DEF InstancesAreKnown
    <2>2. \A p, q \in own' : m_handle'[p] \in Pair /\ m_handle'[q] \in Pair => p = q
        BY <1>1, <1>3 DEF InstancesAreKnown
    <2>3. QED
        BY <1>1, <2>1, <2>2 DEF InstancesAreKnown
<1>6. CopiesAreListed'
    BY <1>1, <1>3 DEF CopiesAreListed
<1>7. QED
    BY <1>1, <1>3, <1>4, <1>5, <1>6

\* Every step keeps the invariant.
LEMMA LibraryStep ==
    ASSUME Lib!LibraryAssumption, LibraryOwned, [Lib!Next]_(Lib!vars)
    PROVE  LibraryOwned'
<1>1. ASSUME NEW o \in Triple, Lib!Construct(o) PROVE LibraryOwned'
    BY <1>1 DEF Lib!Construct, LibraryOwned, CopiesAreOwned, InstancesAreKnown, CopiesAreListed
<1>2. ASSUME NEW o \in Triple, NEW keep \in BOOLEAN, Lib!keep_alive(o, keep)
      PROVE  LibraryOwned'
    BY <1>2 DEF Lib!keep_alive, LibraryOwned, CopiesAreOwned, InstancesAreKnown, CopiesAreListed
<1>3. ASSUME NEW o \in Triple, NEW path \in Pair, Lib!open(o, path) PROVE LibraryOwned'
    <2>1. ClosesOnly(o, Lib!Reopened(o))
        BY CloseIsLocal
    <2>2. /\ m_handle' \in [Triple -> Pair \cup Nat \cup {nullptr}]
          /\ \A p \in Triple \ {o} : m_handle'[p] = Lib!Reopened(o).handle[p]
        BY <1>3, <2>1 DEF Lib!open, ClosesOnly
    <2>3. QED
        BY <1>3, <2>1, <2>2, ClosedForOthers DEF Lib!open, LibraryOwned
<1>4. ASSUME NEW o \in Triple, Lib!Close(o) PROVE LibraryOwned'
    <2>1. ClosesOnly(o, Lib!close(o))
        BY CloseIsLocal
    <2>2. QED
        BY <1>4, <2>1, ClosedForOthers DEF Lib!Close, ClosesOnly, LibraryOwned
<1>5. ASSUME NEW o \in Triple, Lib!copyFails(o) PROVE LibraryOwned'
    <2>1. ClosesOnly(o, Lib!Reopened(o))
        BY CloseIsLocal
    <2>2. copies' \in Nat /\ copies <= copies'
        BY <1>5 DEF Lib!copyFails, LibraryOwned
    <2>3. QED
        BY <1>5, <2>1, <2>2, ClosedForOthers DEF Lib!copyFails, ClosesOnly
<1>6. ASSUME NEW o \in Triple, NEW path \in Pair, Lib!mopenFirst(o, path)
      PROVE  LibraryOwned'
    BY <1>6, FirstInstance
<1>7. ASSUME NEW o \in Triple, Lib!mopenCopy(o) PROVE LibraryOwned'
    BY <1>7, NextInstance
<1>8. ASSUME NEW o \in Triple, NEW other \in Triple, Lib!Move(o, other)
      PROVE  LibraryOwned'
    BY <1>8, LibraryMoves
<1>9. ASSUME NEW o \in Triple, Lib!Destroy(o) PROVE LibraryOwned'
    BY <1>9, DestroyIsLocal
<1>10. CASE Lib!exit_cleanup
    BY <1>10 DEF Lib!exit_cleanup, LibraryOwned, CopiesAreOwned, InstancesAreKnown, CopiesAreListed
<1>11. CASE UNCHANGED Lib!vars
    BY <1>11 DEF Lib!vars, LibraryOwned, CopiesAreOwned, InstancesAreKnown, CopiesAreListed
<1>12. QED
    BY <1>1, <1>2, <1>3, <1>4, <1>5, <1>6, <1>7, <1>8, <1>9, <1>10, <1>11 DEF Lib!Next

LEMMA OwnedIsSeparate == ASSUME Lib!LibraryAssumption, LibraryOwned PROVE Lib!SeparateInstances
<1>1. ASSUME NEW o \in own, NEW p \in own, m_handle[o] = m_handle[p]
      PROVE  o = p
    <2>1. o \in Triple /\ p \in Triple /\ m_copy[o] \in Nat /\ m_copy[p] \in Nat
        BY DEF LibraryOwned, InstancesAreKnown
    <2>2. QED
        BY <1>1, <2>1 DEF LibraryOwned, InstancesAreKnown, CopiesAreOwned, Lib!LibraryAssumption
<1>2. ~cleaned => \A o \in own : m_handle[o] \in Pair \cup disk
    BY DEF LibraryOwned, InstancesAreKnown
<1>3. QED
    BY <1>1, <1>2 DEF Lib!SeparateInstances

LibraryOK == part = "Library" => LibraryOwned

LEMMA LibraryHolds == Spec => []LibraryOK
<1>1. Init => LibraryOK
    <2>1. Lib!LibraryAssumption /\ Lib!Init => LibraryOwned
        BY DEF Lib!LibraryAssumption, Lib!Init, LibraryOwned, CopiesAreOwned,
               InstancesAreKnown, CopiesAreListed
    <2>2. QED
        BY <2>1, SystemConstants DEF Init, LibraryOK
<1>2. LibraryOK /\ [Next]_vars => LibraryOK'
    <2> SUFFICES ASSUME LibraryOK, [Next]_vars, part' = "Library"
                 PROVE  LibraryOwned'
        BY DEF LibraryOK
    <2>1. part = "Library" /\ LibraryOwned
        BY PartStays DEF LibraryOK
    <2>2. [Lib!Next]_(Lib!vars)
        BY <2>1 DEF Next, vars, Lib!vars
    <2>3. QED
        BY <2>1, <2>2, SystemConstants, LibraryStep
<1>3. QED
    BY <1>1, <1>2, PTL DEF Spec

\* Objects opened by mopen never share a loaded file, and their files exist.
THEOREM InstancesAreSeparate == Spec => []SeparateInstances
<1>1. LibraryOK => SeparateInstances
    BY SystemConstants, OwnedIsSeparate DEF LibraryOK, SeparateInstances
<1>2. QED
    BY <1>1, LibraryHolds, PTL

\* Every copy on disk is listed for removal, and none is left after exit.
THEOREM CopiesAreRemoved == Spec => []NoCopyLeftBehind
<1>1. LibraryOK => NoCopyLeftBehind
    BY DEF LibraryOK, NoCopyLeftBehind, Lib!NoCopyLeftBehind, LibraryOwned,
           CopiesAreListed
<1>2. QED
    BY <1>1, LibraryHolds, PTL

HIDE DEF m_handle, m_copy, m_keep, copies, disk, cleanup_libs, cleaned, own

-----------------------------------------------------------------------------
(* Memory.                                                                 *)

m_data == s2
m_size == s3
m_total_size == s4
mapped == s5
USE DEF m_data, m_size, m_total_size, mapped

\* A mapping is at least as long as what was asked for, and less than a page
\* longer.
LEMMA PagesBound ==
    ASSUME Mem!MemoryAssumption, NEW size \in Nat
    PROVE  /\ Mem!Pages(size) \in Nat
           /\ size <= Mem!Pages(size)
           /\ Mem!Pages(size) < size + page_size
<1> DEFINE sum == size + page_size - 1
<1>1. sum \in Nat /\ page_size \in Nat \ {0}
    BY DEF Mem!MemoryAssumption
<1>2. sum % page_size \in 0..(page_size - 1)
    BY <1>1
<1>3. sum % page_size <= sum
    BY <1>1
<1> HIDE DEF sum
<1>4. /\ sum - (sum % page_size) \in Nat
      /\ sum - page_size < sum - (sum % page_size)
      /\ sum - (sum % page_size) <= sum
    BY <1>1, <1>2, <1>3
<1>5. QED
    BY <1>1, <1>4 DEF sum, Mem!Pages

-----------------------------------------------------------------------------
(* OneOwnerPerMapping is inductive together with the types of the fields:  *)
(* a new mapping is where none is, hence nobody's, and free takes away the *)
(* mapping of one owner, which is nobody else's.                           *)

MemoryFields ==
    /\ alive \subseteq Triple
    /\ m_data \in [Triple -> Triple \cup {nullptr, MAP_FAILED}]
    /\ m_size \in [Triple -> Nat]
    /\ m_total_size \in [Triple -> Nat]
    /\ mapped = [a \in DOMAIN mapped |-> mapped[a]]
    /\ DOMAIN mapped \subseteq Triple

MemoryOwned == MemoryFields /\ Mem!OneOwnerPerMapping

\* What a new mapping of an object that owns none does.
LEMMA NewMapping ==
    ASSUME Mem!MemoryAssumption, MemoryOwned,
           NEW o \in Triple, NEW size \in Nat, NEW a \in Triple \ DOMAIN mapped,
           o \in alive => m_data[o] \notin Triple,
           Mem!mmap(a, size), Mem!Set(o, a, size, Mem!Pages(size)), alive' = alive \cup {o}
    PROVE  MemoryOwned'
<1> USE DEF MemoryOwned, MemoryFields, Mem!Set
<1>1. Mem!Pages(size) \in Nat /\ size <= Mem!Pages(size) /\ Mem!Pages(size) < size + page_size
    BY PagesBound
<1>2. /\ DOMAIN mapped' = DOMAIN mapped \cup {a}
      /\ mapped'[a] = Mem!Pages(size)
      /\ \A b \in DOMAIN mapped : mapped'[b] = mapped[b]
    BY DEF Mem!mmap
<1>3. MemoryFields'
    BY <1>1, <1>2 DEF Mem!mmap
<1>4. /\ m_data'[o] = a /\ m_size'[o] = size /\ m_total_size'[o] = Mem!Pages(size)
      /\ \A p \in Triple \ {o} : /\ m_data'[p] = m_data[p]
                                  /\ m_size'[p] = m_size[p]
                                  /\ m_total_size'[p] = m_total_size[p]
    OBVIOUS
<1>5. ASSUME NEW b \in DOMAIN mapped'
      PROVE  \E p \in alive' : \A q \in alive' : m_data'[q] = b <=> q = p
    <2>1. CASE b = a
        <3>1. \A q \in alive \ {o} : m_data[q] # a
            BY DEF Mem!OneOwnerPerMapping
        <3>2. QED
            BY <2>1, <3>1, <1>4
    <2>2. CASE b \in DOMAIN mapped
        <3>1. PICK p \in alive : \A q \in alive : m_data[q] = b <=> q = p
            BY <2>2 DEF Mem!OneOwnerPerMapping
        <3>2. p # o
            BY <2>2, <3>1
        <3>3. \A q \in alive' : m_data'[q] = b <=> q = p
            BY <2>2, <3>1, <3>2, <1>4
        <3>4. QED
            BY <3>1, <3>3
    <2>3. QED
        BY <2>1, <2>2, <1>2
<1>6. ASSUME NEW p \in alive', m_data'[p] \in Triple
      PROVE  /\ m_data'[p] \in DOMAIN mapped'
             /\ mapped'[m_data'[p]] = m_total_size'[p]
             /\ m_size'[p] <= mapped'[m_data'[p]]
             /\ mapped'[m_data'[p]] < m_size'[p] + page_size
    <2>1. CASE p = o
        BY <2>1, <1>1, <1>2, <1>4
    <2>2. CASE p # o
        <3>1. /\ p \in alive /\ m_data'[p] = m_data[p] /\ m_size'[p] = m_size[p]
              /\ m_total_size'[p] = m_total_size[p]
            BY <2>2, <1>4
        <3>2. /\ m_data[p] \in DOMAIN mapped
              /\ mapped[m_data[p]] = m_total_size[p]
              /\ m_size[p] <= mapped[m_data[p]]
              /\ mapped[m_data[p]] < m_size[p] + page_size
            BY <1>6, <3>1 DEF Mem!OneOwnerPerMapping
        <3>3. QED
            BY <3>1, <3>2, <1>2
    <2>3. QED
        BY <2>1, <2>2
<1>7. QED
    BY <1>3, <1>5, <1>6 DEF Mem!OneOwnerPerMapping

\* An object without a mapping may change its fields, come to life or die.
LEMMA NoMapping ==
    ASSUME Mem!MemoryAssumption, MemoryOwned, MemoryFields',
           NEW o \in Triple, UNCHANGED mapped,
           o \in alive => m_data[o] \notin Triple,
           o \in alive' => m_data'[o] \notin Triple,
           alive' \ {o} = alive \ {o},
           \A p \in Triple \ {o} : /\ m_data'[p] = m_data[p]
                                    /\ m_size'[p] = m_size[p]
                                    /\ m_total_size'[p] = m_total_size[p]
    PROVE  MemoryOwned'
<1> USE DEF MemoryOwned, MemoryFields
<1>1. ASSUME NEW b \in DOMAIN mapped'
      PROVE  \E p \in alive' : \A q \in alive' : m_data'[q] = b <=> q = p
    <2>1. PICK p \in alive : \A q \in alive : m_data[q] = b <=> q = p
        BY DEF Mem!OneOwnerPerMapping
    <2>2. QED
        BY <2>1
<1>2. \A p \in alive' : m_data'[p] \in Triple => p \in alive \ {o}
    OBVIOUS
<1>3. QED
    BY <1>1, <1>2 DEF Mem!OneOwnerPerMapping

\* free leaves the object without a mapping and takes no other's.
LEMMA FreeIsExact ==
    ASSUME Mem!MemoryAssumption, MemoryOwned, NEW o \in alive, Mem!free(o),
           alive' \in {alive, alive \ {o}}
    PROVE  MemoryOwned'
<1> USE DEF MemoryOwned, MemoryFields
<1>1. CASE m_data[o] = nullptr
    <2>1. MemoryFields'
        BY <1>1 DEF Mem!free
    <2>2. QED
        BY <1>1, <2>1, NoMapping DEF Mem!free, Mem!MemoryAssumption
<1>2. CASE m_data[o] # nullptr
    <2> DEFINE old == m_data[o]
    <2>1. /\ mapped' = [a \in DOMAIN mapped \ {old} |-> mapped[a]]
          /\ m_data' = [m_data EXCEPT ![o] = nullptr]
          /\ m_size' = [m_size EXCEPT ![o] = 0]
          /\ m_total_size' = [m_total_size EXCEPT ![o] = 0]
        BY <1>2 DEF Mem!free, Mem!Set
    <2>2. /\ DOMAIN mapped' = DOMAIN mapped \ {old}
          /\ \A b \in DOMAIN mapped' : mapped'[b] = mapped[b]
        BY <2>1
    <2>3. MemoryFields'
        BY <2>1, <2>2
    <2>4. /\ m_data'[o] = nullptr
          /\ \A p \in Triple \ {o} : /\ m_data'[p] = m_data[p]
                                      /\ m_size'[p] = m_size[p]
                                      /\ m_total_size'[p] = m_total_size[p]
        BY <2>1
    <2>5. ASSUME NEW b \in DOMAIN mapped'
          PROVE  \E p \in alive' : \A q \in alive' : m_data'[q] = b <=> q = p
        <3>1. PICK p \in alive : \A q \in alive : m_data[q] = b <=> q = p
            BY <2>2 DEF Mem!OneOwnerPerMapping
        <3>2. p # o /\ p \in alive'
            BY <2>2, <3>1
        <3>3. nullptr # b
            BY <2>2 DEF Mem!MemoryAssumption
        <3>4. QED
            BY <2>4, <3>1, <3>2, <3>3
    <2>6. ASSUME NEW p \in alive', m_data'[p] \in Triple
          PROVE  /\ m_data'[p] \in DOMAIN mapped'
                 /\ mapped'[m_data'[p]] = m_total_size'[p]
                 /\ m_size'[p] <= mapped'[m_data'[p]]
                 /\ mapped'[m_data'[p]] < m_size'[p] + page_size
        <3>1. p # o /\ p \in alive
            BY <2>4, <2>6 DEF Mem!MemoryAssumption
        <3>2. /\ m_data[p] \in DOMAIN mapped
              /\ mapped[m_data[p]] = m_total_size[p]
              /\ m_size[p] <= mapped[m_data[p]]
              /\ mapped[m_data[p]] < m_size[p] + page_size
            BY <2>4, <2>6, <3>1 DEF Mem!OneOwnerPerMapping
        <3>3. m_data[p] # old
            BY <3>1, <3>2 DEF Mem!OneOwnerPerMapping
        <3>4. QED
            BY <2>2, <2>4, <3>1, <3>2, <3>3
    <2>7. QED
        BY <2>3, <2>5, <2>6 DEF Mem!OneOwnerPerMapping
<1>3. QED
    BY <1>1, <1>2

\* The move constructor hands the mapping and its length over.
LEMMA MoveHandsOver ==
    ASSUME Mem!MemoryAssumption, MemoryOwned,
           NEW o \in Triple, NEW other \in Triple, Mem!Move(o, other)
    PROVE  MemoryOwned'
<1> USE DEF MemoryOwned, MemoryFields
<1>1. /\ o # other /\ o \notin alive /\ other \in alive
      /\ alive' = alive \cup {o} /\ mapped' = mapped
      /\ m_data'[o] = m_data[other] /\ m_data'[other] = nullptr
      /\ m_size'[o] = m_size[other] /\ m_total_size'[o] = m_total_size[other]
      /\ \A p \in Triple \ {o, other} : m_data'[p] = m_data[p]
      /\ \A p \in Triple \ {o} : /\ m_size'[p] = m_size[p]
                                  /\ m_total_size'[p] = m_total_size[p]
    BY DEF Mem!Move
<1>2. MemoryFields'
    BY DEF Mem!Move
<1>3. ASSUME NEW b \in DOMAIN mapped'
      PROVE  \E p \in alive' : \A q \in alive' : m_data'[q] = b <=> q = p
    <2>1. PICK p \in alive : \A q \in alive : m_data[q] = b <=> q = p
        BY <1>1 DEF Mem!OneOwnerPerMapping
    <2>2. nullptr # b
        BY <1>1 DEF Mem!MemoryAssumption
    <2>3. CASE p = other
        BY <1>1, <2>1, <2>2, <2>3
    <2>4. CASE p # other
        BY <1>1, <2>1, <2>2, <2>4
    <2>5. QED
        BY <2>3, <2>4
<1>4. ASSUME NEW p \in alive', m_data'[p] \in Triple
      PROVE  /\ m_data'[p] \in DOMAIN mapped'
             /\ mapped'[m_data'[p]] = m_total_size'[p]
             /\ m_size'[p] <= mapped'[m_data'[p]]
             /\ mapped'[m_data'[p]] < m_size'[p] + page_size
    <2>1. p # other
        BY <1>1, <1>4 DEF Mem!MemoryAssumption
    <2>2. CASE p = o
        BY <1>1, <1>4, <2>2 DEF Mem!OneOwnerPerMapping
    <2>3. CASE p # o
        BY <1>1, <1>4, <2>1, <2>3 DEF Mem!OneOwnerPerMapping
    <2>4. QED
        BY <2>2, <2>3
<1>5. QED
    BY <1>2, <1>3, <1>4 DEF Mem!OneOwnerPerMapping

LEMMA MemoryInit == ASSUME Mem!MemoryAssumption, Mem!Init PROVE MemoryOwned
BY DEF Mem!Init, MemoryOwned, MemoryFields, Mem!OneOwnerPerMapping, Mem!MemoryAssumption

\* Every step keeps the types of the fields and the owners of the mappings.
LEMMA MemoryStep ==
    ASSUME Mem!MemoryAssumption, MemoryOwned, [Mem!Next]_(Mem!vars)
    PROVE  MemoryOwned'
<1>1. ASSUME NEW o \in Triple, Mem!Construct(o) PROVE MemoryOwned'
    <2>1. MemoryFields'
        BY <1>1 DEF Mem!Construct, Mem!Set, MemoryOwned, MemoryFields
    <2>2. /\ m_data'[o] = nullptr /\ o \notin alive /\ alive' = alive \cup {o}
          /\ mapped' = mapped
          /\ \A p \in Triple \ {o} : /\ m_data'[p] = m_data[p]
                                      /\ m_size'[p] = m_size[p]
                                      /\ m_total_size'[p] = m_total_size[p]
        BY <1>1 DEF Mem!Construct, Mem!Set, MemoryOwned, MemoryFields
    <2>3. QED
        BY <2>1, <2>2, NoMapping DEF Mem!MemoryAssumption
<1>2. ASSUME NEW o \in Triple, NEW size \in Sizes, Mem!alloc(o, size)
      PROVE  MemoryOwned'
    <2>1. CASE \E a \in Triple \ DOMAIN mapped :
                    Mem!mmap(a, size) /\ Mem!Set(o, a, size, Mem!Pages(size))
        <3>1. PICK a \in Triple \ DOMAIN mapped :
                    Mem!mmap(a, size) /\ Mem!Set(o, a, size, Mem!Pages(size))
            BY <2>1
        <3>2. /\ alive' = alive \cup {o} /\ m_data[o] \notin Triple
              /\ size \in Nat
            BY <1>2 DEF Mem!alloc, Mem!MemoryAssumption
        <3>3. QED
            BY <3>1, <3>2, NewMapping
    <2>2. CASE UNCHANGED mapped /\ Mem!Set(o, MAP_FAILED, size, Mem!Pages(size))
        <3>1. Mem!Pages(size) \in Nat /\ size \in Nat
            BY PagesBound DEF Mem!MemoryAssumption
        <3>2. MemoryFields'
            BY <1>2, <2>2, <3>1 DEF Mem!alloc, Mem!Set, MemoryOwned, MemoryFields
        <3>3. /\ m_data'[o] = MAP_FAILED /\ m_data[o] = nullptr
              /\ alive' = alive
              /\ \A p \in Triple \ {o} : /\ m_data'[p] = m_data[p]
                                          /\ m_size'[p] = m_size[p]
                                          /\ m_total_size'[p] = m_total_size[p]
            BY <1>2, <2>2 DEF Mem!alloc, Mem!Set, MemoryOwned, MemoryFields
        <3>4. QED
            BY <2>2, <3>2, <3>3, NoMapping DEF Mem!MemoryAssumption
    <2>3. QED
        BY <1>2, <2>1, <2>2 DEF Mem!alloc
<1>3. ASSUME NEW o \in Triple, NEW size \in Sizes, Mem!ConstructSize(o, size)
      PROVE  MemoryOwned'
    <2>1. PICK a \in Triple \ DOMAIN mapped :
                Mem!mmap(a, size) /\ Mem!Set(o, a, size, Mem!Pages(size))
        BY <1>3 DEF Mem!ConstructSize
    <2>2. o \notin alive /\ alive' = alive \cup {o} /\ size \in Nat
        BY <1>3 DEF Mem!ConstructSize, Mem!MemoryAssumption
    <2>3. QED
        BY <2>1, <2>2, NewMapping
<1>4. ASSUME NEW o \in Triple, NEW other \in Triple, Mem!Move(o, other)
      PROVE  MemoryOwned'
    BY <1>4, MoveHandsOver
<1>5. ASSUME NEW o \in Triple, Mem!Free(o) \/ Mem!Destroy(o) PROVE MemoryOwned'
    BY <1>5, FreeIsExact DEF Mem!Free, Mem!Destroy
<1>6. CASE UNCHANGED Mem!vars
    BY <1>6 DEF Mem!vars, MemoryOwned, MemoryFields, Mem!OneOwnerPerMapping
<1>7. QED
    BY <1>1, <1>2, <1>3, <1>4, <1>5, <1>6 DEF Mem!Next

HIDE DEF alive, m_data, m_size, m_total_size, mapped

MemoryOK == part = "Memory" => MemoryOwned

LEMMA MemoryHolds == Spec => []MemoryOK
<1>1. Init => MemoryOK
    BY SystemConstants, MemoryInit DEF Init, MemoryOK
<1>2. MemoryOK /\ [Next]_vars => MemoryOK'
    <2> SUFFICES ASSUME MemoryOK, [Next]_vars, part' = "Memory"
                 PROVE  MemoryOwned'
        BY DEF MemoryOK
    <2>1. part = "Memory" /\ MemoryOwned
        BY PartStays DEF MemoryOK
    <2>2. [Mem!Next]_(Mem!vars)
        BY <2>1 DEF Next, vars, Mem!vars
    <2>3. QED
        BY <2>1, <2>2, SystemConstants, MemoryStep
<1>3. QED
    BY <1>1, <1>2, PTL DEF Spec

\* Every mapping has exactly one owner, which knows its whole length.
THEOREM MappingsAreOwned == Spec => []OneOwnerPerMapping
<1>1. MemoryOK => OneOwnerPerMapping
    BY DEF MemoryOK, OneOwnerPerMapping, MemoryOwned
<1>2. QED
    BY <1>1, MemoryHolds, PTL

-----------------------------------------------------------------------------
(* Publishers.                                                             *)

PublisherOK == part = "Publisher" => Pub!Inductive

LEMMA PublisherHolds == Spec => []PublisherOK
<1>1. Init => PublisherOK
    BY SystemConstants, Pub!InitialState DEF Init, PublisherOK
<1>2. PublisherOK /\ [Next]_vars => PublisherOK'
    <2> SUFFICES ASSUME PublisherOK, [Next]_vars, part' = "Publisher"
                 PROVE  Pub!Inductive'
        BY DEF PublisherOK
    <2>1. part = "Publisher" /\ Pub!Inductive
        BY PartStays DEF PublisherOK
    <2>2. [Pub!Next]_(Pub!vars)
        BY <2>1 DEF Next, vars, Pub!vars
    <2>3. QED
        BY <2>1, <2>2, SystemConstants, Pub!InductiveStep
<1>3. QED
    BY <1>1, <1>2, PTL DEF Spec

\* Whatever constructors, destructors and set_level are called, a publisher is
\* registered once for each level it wants and for no other (publisher.cpp:36).
THEOREM RegistryIsExact == Spec => []RegistryMatchesLevels
<1>1. PublisherOK => RegistryMatchesLevels
    BY Pub!RegistryIsExact DEF PublisherOK, RegistryMatchesLevels
<1>2. QED
    BY <1>1, PublisherHolds, PTL

\* However many threads log, every message is printed once by each publisher
\* that wants its level and whose filters let it pass (publisher.cpp:149).
THEOREM MessagesAreDelivered == Spec => []DeliveredOnce
<1>1. PublisherOK => DeliveredOnce
    BY SystemConstants, Pub!DeliveryIsExact DEF PublisherOK, DeliveredOnce
<1>2. QED
    BY <1>1, PublisherHolds, PTL

\* When no two threads log at a time, reports are printed with their source and
\* print_source is put back after them (publisher.cpp:163).
THEOREM ReportsHaveSources ==
    ASSUME Pub!OneLogger PROVE Spec => []ReportsPrintSource
<1> DEFINE SourcesOK == part = "Publisher" => Pub!Sources
<1>1. Init => SourcesOK
    BY Pub!SourcesInit DEF Init
<1>2. PublisherOK /\ PublisherOK' /\ SourcesOK /\ [Next]_vars => SourcesOK'
    <2> SUFFICES ASSUME PublisherOK, PublisherOK', SourcesOK, [Next]_vars,
                        part' = "Publisher"
                 PROVE  Pub!Sources'
        OBVIOUS
    <2>1. part = "Publisher" /\ Pub!Inductive /\ Pub!Inductive' /\ Pub!Sources
        BY PartStays DEF PublisherOK
    <2>2. [Pub!Next]_(Pub!vars)
        BY <2>1 DEF Next, vars, Pub!vars
    <2>3. QED
        BY <2>1, <2>2, Pub!SourcesStep
<1>3. PublisherOK /\ SourcesOK => ReportsPrintSource
    BY Pub!SourcesShown DEF PublisherOK, ReportsPrintSource
<1> HIDE DEF SourcesOK
<1>4. QED
    BY <1>1, <1>2, <1>3, PublisherHolds, PTL DEF Spec

-----------------------------------------------------------------------------
(* Asynchronous I/O on Windows.                                            *)

AioWin32OK == part = "AioWin32" => Win!Inductive

LEMMA AioWin32Init == Win!Init => Win!Inductive
BY DEF Win!Init, Win!Inductive, Win!CalledForAReason

LEMMA AioWin32Step ==
    ASSUME Win!Inductive, [Win!Next]_(Win!vars)
    PROVE  Win!Inductive'
<1> USE DEF Win!Inductive, Win!CalledForAReason, Win!shared, Win!world
<1>1. ASSUME NEW h \in Triple, Win!notify(h) \/ Win!cancel(h)
      PROVE  Win!Inductive'
    BY <1>1 DEF Win!notify, Win!cancel
<1>2. ASSUME NEW h \in Triple, Win!Arrive(h) \/ Win!Close(h)
      PROVE  Win!Inductive'
    BY <1>2 DEF Win!Arrive, Win!Close
<1>3. CASE Win!Destroy \/ Win!Loop
    BY <1>3 DEF Win!Destroy, Win!Loop
<1>4. CASE Win!Check \/ Win!Wait
    BY <1>4 DEF Win!Check, Win!Wait
<1>5. CASE Win!Signalled
    BY <1>5 DEF Win!Signalled
<1>6. CASE Win!WaitFailed
    BY <1>6 DEF Win!WaitFailed
<1>7. CASE Win!TimedOut \/ Win!NextChunk
    BY <1>7 DEF Win!TimedOut, Win!NextChunk
<1>8. ASSUME NEW c \in s8, Win!Call(c) PROVE Win!Inductive'
    <2> DEFINE scheduled == s8
               valid == s9
               readable == s10
               told == s11
               spurious == s12
    <2>1. PICK h \in Triple, kind \in {"data", "closed"} : c = <<h, kind>>
        OBVIOUS
    <2>2. /\ scheduled' = scheduled \ {c}
          /\ readable' \in {readable, readable \ {h}}
          /\ told' = IF kind = "closed" THEN told \cup {h} ELSE told
          /\ UNCHANGED <<Win!shared, s4, valid>> /\ s4 = "call"
        BY <1>8, <2>1 DEF Win!Call
    <2>3. spurious' = spurious
        BY <1>8, <2>1 DEF Win!Call
    <2>4. CASE kind = "data"
        <3>1. scheduled' = {}
            BY <2>1, <2>2, <2>4
        <3>2. QED
            BY <2>2, <2>3, <2>4, <3>1
    <2>5. CASE kind = "closed"
        <3>1. \A k \in Triple : <<k, "data">> \notin scheduled
            BY <2>1, <2>5
        <3>2. h \notin valid \cup told \cup s1
            BY <2>1, <2>5
        <3>3. \A k \in Triple : <<k, "closed">> \in scheduled' =>
                k # h /\ k \notin valid \cup told \cup s1
            BY <2>1, <2>2, <2>5
        <3>4. QED
            BY <2>2, <2>3, <2>5, <3>1, <3>2, <3>3
    <2>6. QED
        BY <2>4, <2>5
<1>9. CASE UNCHANGED Win!vars
    BY <1>9 DEF Win!vars
<1>10. QED
    BY <1>1, <1>2, <1>3, <1>4, <1>5, <1>6, <1>7, <1>8, <1>9 DEF Win!Next

LEMMA AioWin32Holds == Spec => []AioWin32OK
<1>1. Init => AioWin32OK
    BY AioWin32Init DEF Init, AioWin32OK
<1>2. AioWin32OK /\ [Next]_vars => AioWin32OK'
    <2> SUFFICES ASSUME AioWin32OK, [Next]_vars, part' = "AioWin32"
                 PROVE  Win!Inductive'
        BY DEF AioWin32OK
    <2>1. part = "AioWin32" /\ Win!Inductive
        BY PartStays DEF AioWin32OK
    <2>2. [Win!Next]_(Win!vars)
        BY <2>1 DEF Next, vars, Win!vars
    <2>3. QED
        BY <2>1, <2>2, AioWin32Step
<1>3. QED
    BY <1>1, <1>2, PTL DEF Spec

\* A handler is called for data that is there or once for a closed
\* descriptor, although what the wait found may be about another one or old.
THEOREM HandlersAreCalledForAReason == Spec => []CalledForAReason
<1>1. AioWin32OK => CalledForAReason
    BY DEF AioWin32OK, CalledForAReason, Win!Inductive
<1>2. QED
    BY <1>1, AioWin32Holds, PTL

-----------------------------------------------------------------------------
(* Subprocesses.                                                           *)

SubprocessOK == part = "Subprocess" => Sub!TypeOK /\ Sub!Inductive

LEMMA SubprocessHolds == Spec => []SubprocessOK
<1>1. Init => SubprocessOK
    BY SystemConstants, Sub!InitialState DEF Init, SubprocessOK
<1>2. SubprocessOK /\ [Next]_vars => SubprocessOK'
    <2> SUFFICES ASSUME SubprocessOK, [Next]_vars, part' = "Subprocess"
                 PROVE  (Sub!TypeOK /\ Sub!Inductive)'
        BY DEF SubprocessOK
    <2>1. part = "Subprocess" /\ Sub!TypeOK /\ Sub!Inductive
        BY PartStays DEF SubprocessOK
    <2>2. [Sub!Next]_(Sub!vars)
        BY <2>1 DEF Next, vars, Sub!vars
    <2>3. QED
        BY <2>1, <2>2, SystemConstants, Sub!StepKeepsInductive
<1>3. QED
    BY <1>1, <1>2, PTL DEF Spec

\* An object that has a pid has that of its own child, which has not been
\* reaped, or was told that the child is gone, or another object's waitpid took
\* the child; and none does before a pid is used again after that was told.
THEOREM PidsAreOfChildren == Spec => []PidsMatchChildren
<1>1. SubprocessOK => PidsMatchChildren
    BY DEF SubprocessOK, PidsMatchChildren, Sub!Inductive
<1>2. QED
    BY <1>1, SubprocessHolds, PTL

\* A reader of stdout waits only for processes that live: the object's child,
\* and those that were forked while the run() that started it was in progress.
THEOREM ReadingStdoutEnds == Spec => []ReadOfStdoutEnds
<1>1. SubprocessOK => ReadOfStdoutEnds
    BY Sub!ReadersHaveWriters DEF SubprocessOK, ReadOfStdoutEnds
<1>2. QED
    BY <1>1, SubprocessHolds, PTL

-----------------------------------------------------------------------------
(* Files.                                                                  *)

content == s1
flags == s2
pos == s3
pc == s4
buflen == s5
done == s6
buffer == s7
ret == s8
acked == s9
USE DEF content, flags, pos, pc, buflen, done, buffer, ret, acked

LEMMA FilesInit ==
    ASSUME Fil!FileIoAssumption, Fil!Init
    PROVE  Fil!Inductive
<1> USE DEF Fil!FileIoAssumption, Fil!Init
<1>1. Fil!Calls
    BY DEF Fil!Calls
<1>2. Fil!Appended
    BY DEF Fil!Appended
<1>3. Fil!Filled
    BY DEF Fil!Filled, Fil!Reads
<1>4. QED
    BY <1>1, <1>2, <1>3 DEF Fil!Inductive

\* Where a write of an appender puts its bytes.
LEMMA PutAtEnd ==
    ASSUME content \in Seq(Fil!Bytes), NEW bytes \in Seq(Fil!Bytes)
    PROVE  Fil!Put(Len(content), bytes) = content \o bytes
<1> DEFINE before == [i \in 1 .. Len(content) |-> IF i <= Len(content) THEN content[i] ELSE 0]
           after == SubSeq(content, Len(content) + Len(bytes) + 1, Len(content))
<1>1. before = content
    OBVIOUS
<1>2. after = <<>>
    OBVIOUS
<1>3. QED
    BY <1>1, <1>2 DEF Fil!Put

\* What two sequences are together.
LEMMA Concatenation ==
    ASSUME NEW S, NEW s \in Seq(S), NEW t \in Seq(S)
    PROVE  /\ s \o t \in Seq(S)
           /\ Len(s \o t) = Len(s) + Len(t)
           /\ \A k \in 1 .. Len(s) : (s \o t)[k] = s[k]
           /\ \A i \in 1 .. Len(t) : (s \o t)[Len(s) + i] = t[i]
<1>1. Len(s) \in Nat /\ Len(t) \in Nat
    OBVIOUS
<1>2. \A i \in 1 .. Len(t) : Len(s) + i \in 1 .. Len(s) + Len(t) /\ Len(s) + i > Len(s)
    BY <1>1
<1>3. QED
    BY <1>1, <1>2

\* What a part of a sequence is.
LEMMA PartOf ==
    ASSUME NEW S, NEW s \in Seq(S), NEW m \in Nat, NEW n \in Nat, m + n <= Len(s)
    PROVE  /\ SubSeq(s, m + 1, m + n) \in Seq(S)
           /\ Len(SubSeq(s, m + 1, m + n)) = n
           /\ \A i \in 1 .. n : SubSeq(s, m + 1, m + n)[i] = s[m + i]
<1>1. \A i \in 1 .. n : m + 1 + i - 1 = m + i
    OBVIOUS
<1>2. QED
    BY <1>1

\* The modes there are, with the flags they stand for.
LEMMA FlagValues ==
    /\ Fil!Flags("r") = {"RD"}
    /\ Fil!Flags("a") = {"WR", "CREAT", "APPEND"}
    /\ Fil!Flags("a+") = {"RD", "WR", "CREAT", "APPEND"}
BY DEF Fil!Flags

LEMMA FlagsOfModes ==
    ASSUME Fil!FileIoAssumption, NEW mode \in Modes
    PROVE  /\ mode \in {"r", "a", "a+"}
           /\ Fil!Flags(mode) \in {{"RD"}, {"WR", "CREAT", "APPEND"},
                               {"RD", "WR", "CREAT", "APPEND"}}
           /\ "TRUNC" \notin Fil!Flags(mode)
<1>1. mode \in {"r", "a", "a+"}
    BY DEF Fil!FileIoAssumption
<1>2. QED
    BY <1>1, FlagValues

\* A write appends the next bytes that were not acknowledged yet.
LEMMA WriteAppends ==
    ASSUME Fil!FileIoAssumption, Fil!Inductive, NEW p \in Pair, Fil!WriteSome(p)
    PROVE  \E len \in 1 .. (buflen[p] - done[p]) :
            /\ content' \in Seq(Fil!Bytes)
            /\ Len(content') = Len(content) + len
            /\ \A k \in 1 .. Len(content) : content'[k] = content[k]
            /\ \A i \in 1 .. len : content'[Len(content) + i] = <<p, acked[p] + i>>
            /\ pos' = [pos EXCEPT ![p] = Len(content) + len]
            /\ acked' = [acked EXCEPT ![p] = @ + len]
            /\ Fil!Advance(p, len)
            /\ UNCHANGED <<flags, buflen, buffer>>
            /\ pc[p] = "write"
<1>1. "APPEND" \in flags[p] /\ pc[p] = "write"
    BY DEF Fil!WriteSome, Fil!Inductive, Fil!Calls
<1>2. PICK len \in 1 .. (buflen[p] - done[p]) :
        /\ content' = Fil!Put(Len(content), Fil!Piece(p, len))
        /\ pos' = [pos EXCEPT ![p] = Len(content) + len]
        /\ acked' = [acked EXCEPT ![p] = @ + len]
        /\ Fil!Advance(p, len)
        /\ UNCHANGED <<flags, buflen, buffer>>
    BY <1>1 DEF Fil!WriteSome, Fil!Missing
<1>3. buflen[p] \in Nat /\ done[p] \in Nat /\ acked[p] \in Nat /\ len \in Nat
    BY DEF Fil!Inductive, Fil!Calls
<1>4. /\ Fil!Piece(p, len) \in Seq(Fil!Bytes)
      /\ Len(Fil!Piece(p, len)) = len
      /\ \A i \in 1 .. len : Fil!Piece(p, len)[i] = <<p, acked[p] + i>>
    <2>1. Fil!Piece(p, len) = [i \in 1 .. len |-> <<p, acked[p] + i>>]
        BY <1>3 DEF Fil!Piece
    <2>2. \A i \in 1 .. len : <<p, acked[p] + i>> \in Fil!Bytes
        BY <1>3 DEF Fil!Bytes
    <2>3. QED
        BY <1>3, <2>1, <2>2
<1>5. content \in Seq(Fil!Bytes)
    BY DEF Fil!Inductive, Fil!Appended
<1>6. content' = content \o Fil!Piece(p, len)
    BY <1>2, <1>4, <1>5, PutAtEnd
<1>7. /\ content' \in Seq(Fil!Bytes)
      /\ Len(content') = Len(content) + len
      /\ \A k \in 1 .. Len(content) : content'[k] = content[k]
      /\ \A i \in 1 .. len : content'[Len(content) + i] = <<p, acked[p] + i>>
    <2> DEFINE bytes == Fil!Piece(p, len)
    <2> HIDE DEF bytes
    <2>1. /\ bytes \in Seq(Fil!Bytes) /\ Len(bytes) = len
          /\ \A i \in 1 .. len : bytes[i] = <<p, acked[p] + i>>
          /\ content' = content \o bytes
        BY <1>4, <1>6 DEF bytes
    <2>2. QED
        BY <1>5, <2>1, Concatenation
<1>8. QED
    BY <1>1, <1>2, <1>7

\* A read adds the next bytes of the file to the buffer.
LEMMA ReadFills ==
    ASSUME Fil!FileIoAssumption, Fil!Inductive, NEW p \in Pair, Fil!ReadSome(p)
    PROVE  \E len \in 1 .. (buflen[p] - done[p]) :
            /\ pos[p] + len <= Len(content)
            /\ buffer' = [buffer EXCEPT ![p] =
                            @ \o SubSeq(content, pos[p] + 1, pos[p] + len)]
            /\ buffer'[p] \in Seq(Fil!Bytes)
            /\ Len(buffer'[p]) = Len(buffer[p]) + len
            /\ \A i \in 1 .. Len(buffer[p]) : buffer'[p][i] = buffer[p][i]
            /\ \A i \in 1 .. len :
                buffer'[p][Len(buffer[p]) + i] = content[pos[p] + i]
            /\ pos' = [pos EXCEPT ![p] = @ + len]
            /\ Fil!Advance(p, len)
            /\ UNCHANGED <<content, flags, buflen, acked>>
            /\ pc[p] = "read"
<1>1. PICK len \in 1 .. (buflen[p] - done[p]) :
        /\ pos[p] + len <= Len(content)
        /\ buffer' = [buffer EXCEPT ![p] =
                            @ \o SubSeq(content, pos[p] + 1, pos[p] + len)]
        /\ pos' = [pos EXCEPT ![p] = @ + len]
        /\ Fil!Advance(p, len)
        /\ UNCHANGED <<content, flags, buflen, acked>>
        /\ pc[p] = "read"
    BY DEF Fil!ReadSome, Fil!Missing
<1>2. /\ pos[p] \in Nat /\ len \in Nat
      /\ content \in Seq(Fil!Bytes) /\ buffer[p] \in Seq(Fil!Bytes)
    BY <1>1 DEF Fil!Inductive, Fil!Calls, Fil!Appended, Fil!Filled
<1>3. \E piece \in Seq(Fil!Bytes) :
        /\ Len(piece) = len
        /\ \A i \in 1 .. len : piece[i] = content[pos[p] + i]
        /\ buffer' = [buffer EXCEPT ![p] = @ \o piece]
    <2> DEFINE at == pos[p]
    <2> HIDE DEF at
    <2>1. /\ at \in Nat /\ len \in Nat /\ at + len <= Len(content)
          /\ content \in Seq(Fil!Bytes)
        BY <1>1, <1>2 DEF at
    <2>2. /\ SubSeq(content, at + 1, at + len) \in Seq(Fil!Bytes)
          /\ Len(SubSeq(content, at + 1, at + len)) = len
          /\ \A i \in 1 .. len :
                SubSeq(content, at + 1, at + len)[i] = content[at + i]
        BY <2>1, PartOf
    <2>3. buffer' = [buffer EXCEPT ![p] = @ \o SubSeq(content, at + 1, at + len)]
        BY <1>1 DEF at
    <2>4. QED
        BY <2>2, <2>3 DEF at
<1>4. /\ buffer'[p] \in Seq(Fil!Bytes)
      /\ Len(buffer'[p]) = Len(buffer[p]) + len
      /\ \A i \in 1 .. Len(buffer[p]) : buffer'[p][i] = buffer[p][i]
      /\ \A i \in 1 .. len :
            buffer'[p][Len(buffer[p]) + i] = content[pos[p] + i]
    <2>1. PICK piece \in Seq(Fil!Bytes) :
            /\ Len(piece) = len
            /\ \A i \in 1 .. len : piece[i] = content[pos[p] + i]
            /\ buffer' = [buffer EXCEPT ![p] = @ \o piece]
        BY <1>3
    <2>2. buffer'[p] = buffer[p] \o piece
        BY <2>1 DEF Fil!Inductive, Fil!Filled
    <2>3. PICK old \in Seq(Fil!Bytes) : old = buffer[p]
        BY <1>2
    <2>4. /\ old \o piece \in Seq(Fil!Bytes)
          /\ Len(old \o piece) = Len(old) + Len(piece)
          /\ \A k \in 1 .. Len(old) : (old \o piece)[k] = old[k]
          /\ \A i \in 1 .. Len(piece) : (old \o piece)[Len(old) + i] = piece[i]
        BY Concatenation
    <2>5. QED
        BY <2>1, <2>2, <2>3, <2>4
<1>5. QED
    BY <1>1, <1>4

LEMMA CallsStep ==
    ASSUME Fil!FileIoAssumption, Fil!Inductive, [Fil!Next]_(Fil!vars)
    PROVE  Fil!Calls'
<1> USE DEF Fil!Inductive
<1>0. /\ MaxBytes \in Nat /\ MaxBuffer \in Nat
      /\ \A p \in Pair :
            /\ pos[p] \in Nat /\ acked[p] \in Nat /\ done[p] \in Nat
            /\ buflen[p] \in Nat
    BY DEF Fil!FileIoAssumption, Fil!Calls
<1>1. ASSUME NEW p \in Pair, NEW mode \in Modes, Fil!fd_open(p, mode)
      PROVE  Fil!Calls'
    <2>1. mode \in {"r", "a", "a+"}
        BY FlagsOfModes
    <2>2. pc[p] # "write"
        BY <1>1 DEF Fil!fd_open, Fil!Calls
    <2>3. QED
        BY <1>0, <1>1, <2>1, <2>2 DEF Fil!fd_open, Fil!Calls
<1>2. ASSUME NEW p \in Pair, Fil!fd_close(p)
      PROVE  Fil!Calls'
    BY <1>2 DEF Fil!fd_close, Fil!Calls
<1>3. ASSUME NEW p \in Pair, NEW n \in 1 .. MaxBuffer,
             Fil!fd_read(p, n) \/ Fil!fd_write(p, n)
      PROVE  Fil!Calls'
    <2>1. n \in Nat
        BY <1>0
    <2>2. ASSUME Fil!fd_write(p, n) PROVE "APPEND" \in flags[p]
        <3>1. flags[p] \in {{"RD"}, {"WR", "CREAT", "APPEND"},
                            {"RD", "WR", "CREAT", "APPEND"}}
            <4>1. flags[p] # {}
                BY <2>2 DEF Fil!fd_write, Fil!Call
            <4>2. PICK mode \in {"r", "a", "a+"} : flags[p] = Fil!Flags(mode)
                BY <4>1 DEF Fil!Calls
            <4>3. QED
                BY <4>2, FlagValues
        <3>2. QED
            BY <2>2, <3>1 DEF Fil!fd_write
    <2>3. CASE Fil!fd_read(p, n)
        BY <1>0, <2>1, <2>3 DEF Fil!fd_read, Fil!Call, Fil!Calls
    <2>4. CASE Fil!fd_write(p, n)
        <3>1. /\ acked[p] + n <= MaxBytes
              /\ pc' = [pc EXCEPT ![p] = "write"]
              /\ buflen' = [buflen EXCEPT ![p] = n]
              /\ done' = [done EXCEPT ![p] = 0]
              /\ UNCHANGED <<flags, pos, ret, acked>>
            BY <2>4 DEF Fil!fd_write, Fil!Call
        <3>2. QED
            BY <1>0, <2>1, <2>2, <2>4, <3>1 DEF Fil!Calls
    <2>5. QED
        BY <1>3, <2>3, <2>4
<1>4. ASSUME NEW p \in Pair, Fil!ReadEof(p) \/ Fil!Fails(p)
      PROVE  Fil!Calls'
    BY <1>4 DEF Fil!ReadEof, Fil!Fails, Fil!Stop, Fil!Calls
<1>5. ASSUME NEW p \in Pair, Fil!ReadSome(p)
      PROVE  Fil!Calls'
    <2>1. PICK len \in 1 .. (buflen[p] - done[p]) :
            /\ pos' = [pos EXCEPT ![p] = @ + len]
            /\ Fil!Advance(p, len)
            /\ UNCHANGED <<flags, buflen, acked>>
            /\ pc[p] = "read"
        BY <1>5, ReadFills
    <2>2. QED
        BY <1>0, <2>1 DEF Fil!Advance, Fil!Calls
<1>6. ASSUME NEW p \in Pair, Fil!WriteSome(p)
      PROVE  Fil!Calls'
    <2>1. PICK len \in 1 .. (buflen[p] - done[p]) :
            /\ pos' = [pos EXCEPT ![p] = Len(content) + len]
            /\ acked' = [acked EXCEPT ![p] = @ + len]
            /\ Fil!Advance(p, len)
            /\ UNCHANGED <<flags, buflen>>
            /\ pc[p] = "write"
        BY <1>6, WriteAppends
    <2>2. Len(content) \in Nat
        BY DEF Fil!Appended
    <2>3. /\ len \in Nat /\ done[p] + len <= buflen[p] /\ Len(content) + len \in Nat
          /\ acked[p] + len \in Nat /\ done[p] + len \in Nat
        BY <1>0, <2>1, <2>2
    <2>4. /\ acked[p] + (buflen[p] - done[p]) <= MaxBytes /\ "APPEND" \in flags[p]
          /\ acked[p] + len <= MaxBytes
          /\ (acked[p] + len) + (buflen[p] - (done[p] + len)) <= MaxBytes
        BY <1>0, <2>1, <2>3 DEF Fil!Calls
    <2>5. /\ pos' \in [Pair -> Nat] /\ acked' \in [Pair -> Nat] /\ done' \in [Pair -> Nat]
          /\ buflen' = buflen /\ flags' = flags
          /\ pc' \in [Pair -> {"idle", "read", "write"}]
          /\ ret' \in [Pair -> {"full", "eof", "error"}]
        BY <2>1, <2>3 DEF Fil!Advance, Fil!Calls
    <2>6. ASSUME NEW q \in Pair
          PROVE  /\ done'[q] <= buflen[q] /\ acked'[q] <= MaxBytes
                 /\ pc'[q] = "write" => /\ "APPEND" \in flags[q]
                                        /\ acked'[q] + (buflen[q] - done'[q]) <= MaxBytes
        <3>1. CASE q = p
            BY <1>0, <2>1, <2>3, <2>4, <3>1 DEF Fil!Advance, Fil!Calls
        <3>2. CASE q # p
            BY <2>1, <3>2 DEF Fil!Advance, Fil!Calls
        <3>3. QED
            BY <3>1, <3>2
    <2>7. QED
        BY <2>5, <2>6 DEF Fil!Calls
<1>7. CASE UNCHANGED Fil!vars
    BY <1>7 DEF Fil!vars, Fil!Calls
<1>8. QED
    BY <1>1, <1>2, <1>3, <1>4, <1>5, <1>6, <1>7 DEF Fil!Next

LEMMA AppendedStep ==
    ASSUME Fil!FileIoAssumption, Fil!Inductive, [Fil!Next]_(Fil!vars)
    PROVE  Fil!Appended'
<1> USE DEF Fil!Inductive
<1>1. ASSUME UNCHANGED <<content, acked>>
      PROVE  Fil!Appended'
    BY <1>1 DEF Fil!Appended
<1>2. ASSUME NEW p \in Pair, NEW mode \in Modes, Fil!fd_open(p, mode)
      PROVE  Fil!Appended'
    BY <1>1, <1>2, FlagsOfModes DEF Fil!fd_open
<1>3. ASSUME NEW p \in Pair, NEW n \in 1 .. MaxBuffer,
             Fil!fd_read(p, n) \/ Fil!fd_write(p, n)
      PROVE  Fil!Appended'
    BY <1>1, <1>3 DEF Fil!fd_read, Fil!fd_write, Fil!Call
<1>4. ASSUME NEW p \in Pair, Fil!WriteSome(p)
      PROVE  Fil!Appended'
    <2>1. PICK len \in 1 .. (buflen[p] - done[p]) :
            /\ content' \in Seq(Fil!Bytes)
            /\ Len(content') = Len(content) + len
            /\ \A k \in 1 .. Len(content) : content'[k] = content[k]
            /\ \A i \in 1 .. len : content'[Len(content) + i] = <<p, acked[p] + i>>
            /\ acked' = [acked EXCEPT ![p] = @ + len]
        BY <1>4, WriteAppends
    <2>2. /\ len \in Nat /\ Len(content) \in Nat
          /\ \A q \in Pair : acked[q] \in Nat
        BY DEF Fil!Calls, Fil!Appended
    <2>3. \A q \in Pair : acked'[q] = IF q = p THEN acked[p] + len ELSE acked[q]
        BY <2>1 DEF Fil!Calls
    <2>4. \A k \in 1 .. Len(content') :
            \/ k \in 1 .. Len(content) /\ content'[k] = content[k]
            \/ /\ k - Len(content) \in 1 .. len
               /\ content'[k] = <<p, acked[p] + (k - Len(content))>>
        <3>1. SUFFICES ASSUME NEW k \in 1 .. Len(content'), k \notin 1 .. Len(content)
                       PROVE  /\ k - Len(content) \in 1 .. len
                              /\ content'[k] = <<p, acked[p] + (k - Len(content))>>
            BY <2>1
        <3>2. k - Len(content) \in 1 .. len /\ k = Len(content) + (k - Len(content))
            BY <2>1, <2>2, <3>1
        <3>3. QED
            BY <2>1, <3>2
    <2>5. ASSUME NEW q \in Pair, NEW i \in 1 .. acked'[q]
          PROVE  \E k \in 1 .. Len(content') : content'[k] = <<q, i>>
        <3>1. CASE i \in 1 .. acked[q]
            <4>1. PICK k \in 1 .. Len(content) : content[k] = <<q, i>>
                BY <3>1 DEF Fil!Appended
            <4>2. k \in 1 .. Len(content')
                BY <2>1, <2>2
            <4>3. QED
                BY <2>1, <4>1, <4>2
        <3>2. CASE i \notin 1 .. acked[q]
            <4>1. q = p /\ i - acked[p] \in 1 .. len
                BY <2>2, <2>3, <2>5, <3>2
            <4>2. /\ Len(content) + (i - acked[p]) \in 1 .. Len(content')
                  /\ acked[p] + (i - acked[p]) = i
                BY <2>1, <2>2, <4>1
            <4>3. QED
                BY <2>1, <4>1, <4>2
        <3>3. QED
            BY <3>1, <3>2
    <2>6. ASSUME NEW q \in Pair, NEW k \in 1 .. Len(content'), content'[k][1] = q
          PROVE  content'[k][2] \in 1 .. acked'[q]
        <3>1. CASE k \in 1 .. Len(content) /\ content'[k] = content[k]
            <4>1. content[k][2] \in 1 .. acked[q]
                BY <2>6, <3>1 DEF Fil!Appended
            <4>2. QED
                BY <2>2, <2>3, <3>1, <4>1
        <3>2. CASE /\ k - Len(content) \in 1 .. len
                   /\ content'[k] = <<p, acked[p] + (k - Len(content))>>
            BY <2>2, <2>3, <2>6, <3>2
        <3>3. QED
            BY <2>4, <3>1, <3>2
    <2>7. ASSUME NEW q \in Pair, NEW j \in 1 .. Len(content'),
                 NEW k \in 1 .. Len(content'), j < k,
                 content'[j][1] = q, content'[k][1] = q
          PROVE  content'[j][2] < content'[k][2]
        <3>1. CASE k \in 1 .. Len(content)
            <4>1. j \in 1 .. Len(content)
                BY <2>2, <2>7, <3>1
            <4>2. QED
                BY <2>1, <2>7, <3>1, <4>1 DEF Fil!Appended
        <3>2. CASE k \notin 1 .. Len(content)
            <4>1. /\ k - Len(content) \in 1 .. len /\ q = p
                  /\ content'[k][2] = acked[p] + (k - Len(content))
                BY <2>4, <2>7, <3>2
            <4>2. CASE j \in 1 .. Len(content)
                <5>1. content'[j] = content[j] /\ content[j][1] = p
                    BY <2>1, <2>7, <4>1, <4>2
                <5>2. \A i \in 1 .. Len(content) :
                        content[i][1] = p => content[i][2] \in 1 .. acked[p]
                    BY DEF Fil!Appended
                <5>3. content'[j][2] \in 1 .. acked[p]
                    <6>1. content[j][2] \in 1 .. acked[p]
                        BY <4>2, <5>1, <5>2
                    <6>2. QED
                        BY <5>1, <6>1
                <5> DEFINE before == content'[j][2]
                           after == content'[k][2]
                           bytes == acked[p]
                           more == k - Len(content)
                <5>4. /\ before \in 1 .. bytes /\ after = bytes + more
                      /\ more \in 1 .. len /\ bytes \in Nat /\ len \in Nat
                    BY <2>2, <4>1, <5>3
                <5> HIDE DEF before, after, bytes, more
                <5>5. before < after
                    BY ONLY <5>4
                <5>6. QED
                    BY <5>5 DEF before, after
            <4>3. CASE j \notin 1 .. Len(content)
                <5>1. /\ j - Len(content) \in 1 .. len
                      /\ content'[j][2] = acked[p] + (j - Len(content))
                    BY <2>4, <2>7, <4>3
                <5>2. QED
                    BY <2>2, <2>7, <4>1, <5>1
            <4>4. QED
                BY <4>2, <4>3
        <3>3. QED
            BY <3>1, <3>2
    <2>8. QED
        BY <2>1, <2>5, <2>6, <2>7 DEF Fil!Appended
<1>5. CASE UNCHANGED Fil!vars
    BY <1>1, <1>5 DEF Fil!vars
<1>6. ASSUME NEW p \in Pair,
             Fil!fd_close(p) \/ Fil!ReadEof(p) \/ Fil!Fails(p) \/ Fil!ReadSome(p)
      PROVE  Fil!Appended'
    BY <1>1, <1>6 DEF Fil!fd_close, Fil!ReadEof, Fil!Fails, Fil!Stop, Fil!ReadSome
<1>7. QED
    BY <1>2, <1>3, <1>4, <1>5, <1>6 DEF Fil!Next

LEMMA FilledStep ==
    ASSUME Fil!FileIoAssumption, Fil!Inductive, [Fil!Next]_(Fil!vars)
    PROVE  Fil!Filled'
<1> USE DEF Fil!Inductive
<1>0. /\ \A p \in Pair :
            /\ pos[p] \in Nat /\ done[p] \in Nat /\ buflen[p] \in Nat
            /\ buffer[p] \in Seq(Fil!Bytes) /\ Len(buffer[p]) \in Nat
      /\ content \in Seq(Fil!Bytes) /\ Len(content) \in Nat
      /\ <<>> \in Seq(Fil!Bytes) /\ Len(<<>>) = 0
    BY DEF Fil!Calls, Fil!Appended, Fil!Filled
<1>1. ASSUME NEW p \in Pair, NEW mode \in Modes, Fil!fd_open(p, mode)
      PROVE  Fil!Filled'
    <2>1. content' = content
        BY <1>1, FlagsOfModes DEF Fil!fd_open
    <2>2. pc[p] # "write"
        BY <1>1 DEF Fil!fd_open, Fil!Calls
    <2>3. QED
        BY <1>0, <1>1, <2>1, <2>2 DEF Fil!fd_open, Fil!Calls, Fil!Filled, Fil!Reads
<1>2. ASSUME NEW p \in Pair, Fil!fd_close(p)
      PROVE  Fil!Filled'
    BY <1>2 DEF Fil!fd_close, Fil!Calls, Fil!Filled, Fil!Reads
<1>3. ASSUME NEW p \in Pair, NEW n \in 1 .. MaxBuffer,
             Fil!fd_read(p, n) \/ Fil!fd_write(p, n)
      PROVE  Fil!Filled'
    <2>1. n \in Nat
        BY DEF Fil!FileIoAssumption
    <2>2. ASSUME Fil!fd_write(p, n) PROVE "APPEND" \in flags[p]
        <3>1. flags[p] # {}
            BY <2>2 DEF Fil!fd_write, Fil!Call
        <3>2. PICK mode \in {"r", "a", "a+"} : flags[p] = Fil!Flags(mode)
            BY <3>1 DEF Fil!Calls
        <3>3. QED
            BY <2>2, <3>2, FlagValues DEF Fil!fd_write
    <2>3. PICK what \in {"read", "write"} :
            /\ Fil!Call(p, what, n)
            /\ what = "write" => "APPEND" \in flags[p]
        BY <1>3, <2>2 DEF Fil!fd_read, Fil!fd_write
    <2>4. QED
        BY <1>0, <2>1, <2>3 DEF Fil!Call, Fil!Calls, Fil!Filled, Fil!Reads
<1>4. ASSUME NEW p \in Pair, Fil!ReadEof(p) \/ Fil!Fails(p)
      PROVE  Fil!Filled'
    <2>1. PICK how \in {"eof", "error"} : Fil!Stop(p, how)
        BY <1>4 DEF Fil!ReadEof, Fil!Fails
    <2>2. QED
        BY <2>1 DEF Fil!Stop, Fil!Calls, Fil!Filled, Fil!Reads
<1>5. ASSUME NEW p \in Pair, Fil!ReadSome(p)
      PROVE  Fil!Filled'
    <2>1. PICK len \in 1 .. (buflen[p] - done[p]) :
            /\ pos[p] + len <= Len(content)
            /\ buffer' = [buffer EXCEPT ![p] =
                            @ \o SubSeq(content, pos[p] + 1, pos[p] + len)]
            /\ buffer'[p] \in Seq(Fil!Bytes)
            /\ Len(buffer'[p]) = Len(buffer[p]) + len
            /\ \A i \in 1 .. Len(buffer[p]) : buffer'[p][i] = buffer[p][i]
            /\ \A i \in 1 .. len :
                buffer'[p][Len(buffer[p]) + i] = content[pos[p] + i]
            /\ pos' = [pos EXCEPT ![p] = @ + len]
            /\ Fil!Advance(p, len)
            /\ UNCHANGED <<content, flags, buflen, acked>>
            /\ pc[p] = "read"
        BY <1>5, ReadFills
    <2>2. len \in Nat /\ Len(buffer[p]) = done[p]
        BY <1>0, <2>1 DEF Fil!Filled
    <2>3. /\ buffer' \in [Pair -> Seq(Fil!Bytes)]
          /\ \A q \in Pair \ {p} : buffer'[q] = buffer[q]
        BY <2>1 DEF Fil!Filled
    <2>4. /\ pos'[p] = pos[p] + len /\ done'[p] = done[p] + len
          /\ pc'[p] = IF done[p] + len < buflen[p] THEN "read" ELSE "idle"
          /\ \A q \in Pair \ {p} :
                /\ pos'[q] = pos[q] /\ done'[q] = done[q]
                /\ pc'[q] = pc[q] /\ ret'[q] = ret[q]
        BY <2>1 DEF Fil!Advance, Fil!Calls
    <2>5. ASSUME NEW q \in Pair
          PROVE  /\ pc'[q] = "read" => Len(buffer'[q]) = done'[q]
                 /\ Len(buffer'[q]) <= buflen'[q]
                 /\ Fil!Reads(q)' =>
                    /\ Len(buffer'[q]) <= pos'[q] /\ pos'[q] <= Len(content')
                    /\ pc'[q] # "write"
                    /\ pc'[q] = "idle" /\ ret'[q] = "full" =>
                        Len(buffer'[q]) = buflen'[q]
        <3>1. Fil!Reads(q)' = Fil!Reads(q)
            BY <2>1 DEF Fil!Reads
        <3>2. CASE q # p
            BY <2>1, <2>3, <2>4, <3>1, <3>2 DEF Fil!Filled
        <3>3. CASE q = p
            <4>1. /\ Len(buffer'[p]) = done[p] + len
                  /\ done'[p] = done[p] + len /\ pos'[p] = pos[p] + len
                  /\ done[p] + len <= buflen[p]
                  /\ Fil!Reads(p) => done[p] <= pos[p]
                <5>1. done[p] + len <= buflen[p]
                    BY <1>0, <2>2
                <5>2. Fil!Reads(p) => done[p] <= pos[p]
                    BY <2>2 DEF Fil!Filled
                <5>3. QED
                    BY <2>1, <2>2, <2>4, <5>1, <5>2
            <4>2. pc'[p] = "idle" => done[p] + len = buflen[p]
                BY <1>0, <2>2, <2>4, <4>1
            <4>3. pc'[p] # "write" /\ content' = content /\ buflen' = buflen
                BY <2>1, <2>4
            <4>4. QED
                BY <1>0, <2>1, <2>2, <3>1, <3>3, <4>1, <4>2, <4>3
        <3>4. QED
            BY <3>2, <3>3
    <2>6. ASSUME NEW q \in Pair, Fil!Reads(q)', NEW i \in 1 .. Len(buffer'[q])
          PROVE  buffer'[q][i] = content'[pos'[q] - Len(buffer'[q]) + i]
        <3>1. CASE q # p
            BY <2>1, <2>3, <2>4, <2>6, <3>1 DEF Fil!Filled, Fil!Reads
        <3>2. CASE q = p
            <4>1. /\ pos'[p] - Len(buffer'[p]) + i = pos[p] - Len(buffer[p]) + i
                  /\ Fil!Reads(p)
                <5>1. Len(buffer'[p]) = Len(buffer[p]) + len /\ pos'[p] = pos[p] + len
                    BY <2>1, <2>4
                <5>2. i \in Nat
                    BY <1>0, <2>2, <2>6, <3>2, <5>1
                <5>3. Fil!Reads(p)
                    BY <2>1, <2>6, <3>2 DEF Fil!Reads
                <5>4. QED
                    BY <1>0, <2>2, <5>1, <5>2, <5>3
            <4>2. CASE i \in 1 .. Len(buffer[p])
                <5>1. buffer[p][i] = content[pos[p] - Len(buffer[p]) + i]
                    BY <4>1, <4>2 DEF Fil!Filled
                <5>2. QED
                    BY <2>1, <3>2, <4>1, <4>2, <5>1
            <4>3. CASE i \notin 1 .. Len(buffer[p])
                <5>1. /\ i - Len(buffer[p]) \in 1 .. len
                      /\ i = Len(buffer[p]) + (i - Len(buffer[p]))
                      /\ pos[p] - Len(buffer[p]) + i = pos[p] + (i - Len(buffer[p]))
                    <6>1. i \in 1 .. Len(buffer[p]) + len
                        BY <2>1, <2>6, <3>2
                    <6>2. QED
                        BY <1>0, <2>2, <4>3, <6>1
                <5>2. buffer'[p][i] = content[pos[p] + (i - Len(buffer[p]))]
                    BY <2>1, <5>1
                <5>3. QED
                    BY <2>1, <3>2, <4>1, <5>1, <5>2
            <4>4. QED
                BY <4>2, <4>3
        <3>3. QED
            BY <3>1, <3>2
    <2>7. QED
        BY <2>3, <2>5, <2>6 DEF Fil!Filled
<1>6. ASSUME NEW p \in Pair, Fil!WriteSome(p)
      PROVE  Fil!Filled'
    <2>1. PICK len \in 1 .. (buflen[p] - done[p]) :
            /\ Len(content') = Len(content) + len
            /\ \A k \in 1 .. Len(content) : content'[k] = content[k]
            /\ pos' = [pos EXCEPT ![p] = Len(content) + len]
            /\ Fil!Advance(p, len)
            /\ UNCHANGED <<flags, buflen, buffer>>
            /\ pc[p] = "write"
        BY <1>6, WriteAppends
    <2>2. len \in Nat
        BY <1>0
    <2>3. ~Fil!Reads(p)
        BY <2>1 DEF Fil!Calls, Fil!Reads
    <2>4. /\ pc'[p] # "read"
          /\ \A q \in Pair \ {p} :
                /\ pos'[q] = pos[q] /\ done'[q] = done[q]
                /\ pc'[q] = pc[q] /\ ret'[q] = ret[q]
        BY <2>1 DEF Fil!Advance, Fil!Calls
    <2>5. ASSUME NEW q \in Pair, Fil!Reads(q)
          PROVE  /\ q # p /\ pos[q] <= Len(content')
                 /\ \A i \in 1 .. Len(buffer[q]) :
                        buffer[q][i] = content'[pos[q] - Len(buffer[q]) + i]
        <3>1. /\ Len(buffer[q]) <= pos[q] /\ pos[q] <= Len(content)
              /\ \A i \in 1 .. Len(buffer[q]) :
                        buffer[q][i] = content[pos[q] - Len(buffer[q]) + i]
            BY <2>5 DEF Fil!Filled
        <3>2. \A i \in 1 .. Len(buffer[q]) :
                pos[q] - Len(buffer[q]) + i \in 1 .. Len(content)
            BY <1>0, <3>1
        <3>3. \A i \in 1 .. Len(buffer[q]) :
                content'[pos[q] - Len(buffer[q]) + i] = content[pos[q] - Len(buffer[q]) + i]
            BY <2>1, <3>2
        <3>4. pos[q] <= Len(content') /\ q # p
            BY <1>0, <2>1, <2>2, <2>3, <2>5, <3>1
        <3>5. QED
            BY <3>1, <3>3, <3>4
    <2>6. \A q \in Pair : Fil!Reads(q)' = Fil!Reads(q)
        BY <2>1 DEF Fil!Reads
    <2>7. QED
        <3>1. ASSUME NEW q \in Pair
              PROVE  /\ pc'[q] = "read" => Len(buffer[q]) = done'[q]
                     /\ Len(buffer[q]) <= buflen[q]
            BY <2>4, <3>1 DEF Fil!Filled
        <3>2. ASSUME NEW q \in Pair, Fil!Reads(q)
              PROVE  /\ pos'[q] = pos[q] /\ pc'[q] = pc[q] /\ ret'[q] = ret[q]
                     /\ Len(buffer[q]) <= pos[q] /\ pc[q] # "write"
                     /\ pc[q] = "idle" /\ ret[q] = "full" =>
                            Len(buffer[q]) = buflen[q]
            BY <2>4, <2>5, <3>2 DEF Fil!Filled
        <3>3. buffer' = buffer /\ buflen' = buflen
            BY <2>1
        <3>4. buffer \in [Pair -> Seq(Fil!Bytes)]
            BY DEF Fil!Filled
        <3>5. ASSUME NEW q \in Pair, Fil!Reads(q)'
              PROVE  /\ Len(buffer'[q]) <= pos'[q] /\ pos'[q] <= Len(content')
                     /\ \A i \in 1 .. Len(buffer'[q]) :
                            buffer'[q][i] = content'[pos'[q] - Len(buffer'[q]) + i]
                     /\ pc'[q] # "write"
                     /\ pc'[q] = "idle" /\ ret'[q] = "full" =>
                            Len(buffer'[q]) = buflen'[q]
            <4>1. Fil!Reads(q)
                BY <2>6, <3>5
            <4>2. QED
                BY <2>5, <3>2, <3>3, <4>1
        <3>6. QED
            BY <3>1, <3>3, <3>4, <3>5 DEF Fil!Filled
<1>7. CASE UNCHANGED Fil!vars
    BY <1>7 DEF Fil!vars, Fil!Filled, Fil!Reads
<1>8. QED
    BY <1>1, <1>2, <1>3, <1>4, <1>5, <1>6, <1>7 DEF Fil!Next

LEMMA FilesStep ==
    ASSUME Fil!FileIoAssumption, Fil!Inductive, [Fil!Next]_(Fil!vars)
    PROVE  Fil!Inductive'
BY CallsStep, AppendedStep, FilledStep DEF Fil!Inductive

LEMMA FilesAreWhole ==
    ASSUME Fil!Inductive
    PROVE  Fil!TransfersAreWhole
<1> SUFFICES ASSUME NEW p \in Pair
             PROVE  /\ {content[k][2] : k \in Fil!Places(p)} = 1 .. acked[p]
                    /\ \A j, k \in Fil!Places(p) : j < k => content[j][2] < content[k][2]
                    /\ Fil!Reads(p) =>
                       /\ buffer[p] = SubSeq(content, pos[p] - Len(buffer[p]) + 1, pos[p])
                       /\ pc[p] = "idle" /\ ret[p] = "full" => Len(buffer[p]) = buflen[p]
    BY DEF Fil!TransfersAreWhole, Fil!Reads
<1>0. /\ content \in Seq(Fil!Bytes) /\ DOMAIN content = 1 .. Len(content)
      /\ buffer[p] \in Seq(Fil!Bytes) /\ pos[p] \in Nat
    BY DEF Fil!Inductive, Fil!Calls, Fil!Appended, Fil!Filled
<1>1. {content[k][2] : k \in Fil!Places(p)} = 1 .. acked[p]
    <2>1. \A k \in Fil!Places(p) : content[k][2] \in 1 .. acked[p]
        BY <1>0 DEF Fil!Places, Fil!Inductive, Fil!Appended
    <2>2. ASSUME NEW i \in 1 .. acked[p]
          PROVE  \E k \in Fil!Places(p) : content[k][2] = i
        <3>1. PICK k \in 1 .. Len(content) : content[k] = <<p, i>>
            BY DEF Fil!Inductive, Fil!Appended
        <3>2. k \in Fil!Places(p) /\ content[k][2] = i
            BY <1>0, <3>1 DEF Fil!Places
        <3>3. QED
            BY <3>2
    <2>3. QED
        BY <2>1, <2>2
<1>2. \A j, k \in Fil!Places(p) : j < k => content[j][2] < content[k][2]
    BY <1>0 DEF Fil!Places, Fil!Inductive, Fil!Appended
<1>3. ASSUME Fil!Reads(p)
      PROVE  buffer[p] = SubSeq(content, pos[p] - Len(buffer[p]) + 1, pos[p])
    <2> DEFINE got == buffer[p]
               at == pos[p] - Len(got)
    <2> HIDE DEF got, at
    <2>1. /\ got \in Seq(Fil!Bytes) /\ Len(got) \in Nat
          /\ at \in Nat /\ at + Len(got) <= Len(content)
          /\ \A i \in 1 .. Len(got) : got[i] = content[at + i]
        BY <1>0, <1>3 DEF got, at, Fil!Inductive, Fil!Filled
    <2>2. /\ SubSeq(content, at + 1, at + Len(got)) \in Seq(Fil!Bytes)
          /\ Len(SubSeq(content, at + 1, at + Len(got))) = Len(got)
          /\ \A i \in 1 .. Len(got) :
                SubSeq(content, at + 1, at + Len(got))[i] = content[at + i]
        BY <1>0, <2>1, PartOf
    <2>3. got = SubSeq(content, at + 1, at + Len(got))
        BY <2>1, <2>2
    <2>4. at + Len(got) = pos[p]
        BY <1>0, <2>1 DEF at
    <2>5. QED
        BY <2>3, <2>4 DEF got, at
<1>4. Fil!Reads(p) /\ pc[p] = "idle" /\ ret[p] = "full" => Len(buffer[p]) = buflen[p]
    BY DEF Fil!Inductive, Fil!Filled
<1>5. QED
    BY <1>1, <1>2, <1>3, <1>4

HIDE DEF content, flags, pos, pc, buflen, done, buffer, ret, acked

FilesOK == part = "FileIo" => Fil!Inductive

LEMMA FilesHold == Spec => []FilesOK
<1>1. Init => FilesOK
    BY SystemConstants, FilesInit DEF Init, FilesOK
<1>2. FilesOK /\ [Next]_vars => FilesOK'
    <2> SUFFICES ASSUME FilesOK, [Next]_vars, part' = "FileIo"
                 PROVE  Fil!Inductive'
        BY DEF FilesOK
    <2>1. part = "FileIo" /\ Fil!Inductive
        BY PartStays DEF FilesOK
    <2>2. [Fil!Next]_(Fil!vars)
        BY <2>1 DEF Next, vars, Fil!vars
    <2>3. QED
        BY <2>1, <2>2, SystemConstants, FilesStep
<1>3. QED
    BY <1>1, <1>2, PTL DEF Spec

\* Transfers that are cut short, interrupted or fail half way lose, repeat or
\* overtake no byte, for any processes, buffers and files read or appended to.
THEOREM TransfersKeepEveryByte == Spec => []TransfersAreWhole
<1>1. FilesOK => TransfersAreWhole
    BY FilesAreWhole DEF FilesOK, TransfersAreWhole
<1>2. QED
    BY <1>1, FilesHold, PTL

-----------------------------------------------------------------------------
(* Terminals.                                                              *)

attr == s1
open == s2
stacks == s3
exited == s4
bare == s5
users == s6
USE DEF attr, open, stacks, exited, bare, users

LEMMA TerminalInit ==
    ASSUME Ter!TerminalAssumption, Ter!Init
    PROVE  Ter!Inductive
<1> USE DEF Ter!Init
<1>1. Ter!Types
    <2>1. <<>> \in Seq(Ter!Settings) /\ Ter!Cooked \in SUBSET Ter!Flags
        BY DEF Ter!Cooked, Ter!Flags
    <2>2. attr \in [Ter!TTYs -> SUBSET Ter!Flags] /\ stacks \in [FDs -> Seq(Ter!Settings)]
        BY <2>1
    <2>3. open \in [FDs -> Ter!TTYs \cup {Closed}]
        BY DEF Ter!TTYs
    <2>4. users \in [Ter!TTYs -> SUBSET FDs]
        OBVIOUS
    <2>5. QED
        BY <2>2, <2>3, <2>4 DEF Ter!Types
<1>2. Ter!StacksHaveUsers
    BY DEF Ter!StacksHaveUsers
<1>3. \A t \in Ter!TTYs, fd \in FDs : Ter!LeadsBack(stacks[fd], attr[t])
    BY DEF Ter!LeadsBack
<1>4. QED
    BY <1>1, <1>2, <1>3 DEF Ter!Inductive

\* Settings that are pushed are the first ones as long as none below them is
\* to be restored.
LEMMA PushLeadsBack ==
    ASSUME NEW s \in Seq(Ter!Settings), NEW a \in SUBSET Ter!Flags, NEW r \in BOOLEAN,
           Ter!LeadsBack(s, a)
    PROVE  Ter!LeadsBack(<<[attr |-> a, restore |-> r]>> \o s, a)
<1> DEFINE e == [attr |-> a, restore |-> r]
           new == <<e>> \o s
<1>1. /\ new \in Seq(Ter!Settings) /\ Len(new) = Len(s) + 1
      /\ new[1] = e /\ \A i \in 1..Len(s) : new[i + 1] = s[i]
    BY DEF Ter!Settings
<1>2. Len(s) \in Nat
    OBVIOUS
<1> HIDE DEF new
<1>3. ASSUME NEW i \in 0..Len(s), \A j \in (i + 2)..Len(new) : ~new[j].restore
      PROVE  \A j \in (i + 1)..Len(s) : ~s[j].restore
    <2> SUFFICES ASSUME NEW j \in (i + 1)..Len(s)
                 PROVE  ~s[j].restore
        OBVIOUS
    <2>1. j + 1 \in (i + 2)..Len(new) /\ j \in 1..Len(s)
        BY <1>1, <1>2
    <2>2. QED
        BY <1>1, <1>3, <2>1
<1>4. ASSUME NEW i \in 1..Len(new), \A j \in (i + 1)..Len(new) : ~new[j].restore
      PROVE  new[i].attr = Ter!Cooked
    <2>1. CASE i = 1
        <3>1. \A j \in (0 + 1)..Len(s) : ~s[j].restore
            BY <1>2, <1>3, <1>4, <2>1
        <3>2. QED
            BY <1>1, <2>1, <3>1 DEF Ter!LeadsBack
    <2>2. CASE i # 1
        <3>1. i - 1 \in 1..Len(s) /\ (i - 1) + 2 = i + 1 /\ (i - 1) + 1 = i
            BY <1>1, <1>2, <2>2
        <3>2. PICK k \in 1..Len(s) : i = k + 1
            BY <3>1
        <3>3. k \in 0..Len(s) /\ \A j \in (k + 2)..Len(new) : ~new[j].restore
            BY <1>4, <3>2
        <3>4. \A j \in (k + 1)..Len(s) : ~s[j].restore
            BY <1>3, <3>3
        <3>5. QED
            BY <1>1, <3>2, <3>4 DEF Ter!LeadsBack
    <2>3. QED
        BY <2>1, <2>2
<1>5. ASSUME \A j \in (0 + 1)..Len(new) : ~new[j].restore
      PROVE  a = Ter!Cooked
    <2>1. \A j \in (0 + 2)..Len(new) : ~new[j].restore
        BY <1>1, <1>2, <1>5
    <2>2. \A j \in (0 + 1)..Len(s) : ~s[j].restore
        BY <1>2, <1>3, <2>1
    <2>3. QED
        BY <2>2 DEF Ter!LeadsBack
<1>6. Ter!LeadsBack(new, a)
    BY <1>4, <1>5 DEF Ter!LeadsBack
<1>7. QED
    BY <1>6 DEF new

\* Without its newest settings a stack leads back from these, and from where
\* the terminal is if they were not to be restored.
LEMMA PopLeadsBack ==
    ASSUME NEW s \in Seq(Ter!Settings), s # <<>>, NEW a, Ter!LeadsBack(s, a)
    PROVE  /\ Ter!LeadsBack(Tail(s), Head(s).attr)
           /\ ~Head(s).restore => Ter!LeadsBack(Tail(s), a)
<1> DEFINE new == Tail(s)
<1>1. /\ new \in Seq(Ter!Settings) /\ Len(new) = Len(s) - 1
      /\ Head(s) = s[1] /\ \A i \in 1..Len(new) : new[i] = s[i + 1]
    OBVIOUS
<1>2. Len(s) \in Nat /\ Len(s) # 0 /\ Len(new) \in Nat
    OBVIOUS
<1> HIDE DEF new
<1>3. ASSUME NEW i \in 0..Len(new), \A j \in (i + 1)..Len(new) : ~new[j].restore
      PROVE  \A j \in (i + 2)..Len(s) : ~s[j].restore
    <2> SUFFICES ASSUME NEW j \in (i + 2)..Len(s)
                 PROVE  ~s[j].restore
        OBVIOUS
    <2>1. j - 1 \in (i + 1)..Len(new) /\ j - 1 \in 1..Len(new) /\ (j - 1) + 1 = j
        BY <1>1, <1>2
    <2>2. QED
        BY <1>1, <1>3, <2>1
<1>4. ASSUME NEW i \in 1..Len(new), \A j \in (i + 1)..Len(new) : ~new[j].restore
      PROVE  new[i].attr = Ter!Cooked
    <2>1. \A j \in ((i + 1) + 1)..Len(s) : ~s[j].restore
        BY <1>2, <1>3, <1>4
    <2>2. i + 1 \in 1..Len(s)
        BY <1>1, <1>2
    <2>3. QED
        BY <1>1, <2>1, <2>2 DEF Ter!LeadsBack
<1>5. ASSUME \A j \in (0 + 1)..Len(new) : ~new[j].restore
      PROVE  /\ Head(s).attr = Ter!Cooked
             /\ ~Head(s).restore => a = Ter!Cooked
    <2>1. \A j \in (1 + 1)..Len(s) : ~s[j].restore
        BY <1>2, <1>3, <1>5
    <2>2. Head(s).attr = Ter!Cooked
        BY <1>1, <1>2, <2>1 DEF Ter!LeadsBack
    <2>3. ASSUME ~Head(s).restore PROVE a = Ter!Cooked
        <3>1. \A j \in (0 + 1)..Len(s) : ~s[j].restore
            BY <1>1, <1>2, <2>1, <2>3
        <3>2. QED
            BY <3>1 DEF Ter!LeadsBack
    <2>4. QED
        BY <2>2, <2>3
<1>6. /\ Ter!LeadsBack(new, Head(s).attr)
      /\ ~Head(s).restore => Ter!LeadsBack(new, a)
    BY <1>4, <1>5 DEF Ter!LeadsBack
<1>7. QED
    BY <1>6 DEF new

LEMMA TerminalTypes ==
    ASSUME Ter!TerminalAssumption, Ter!Types, [Ter!Next]_(Ter!vars)
    PROVE  Ter!Types'
<1> USE DEF Ter!Types
<1>1. ASSUME NEW fd \in FDs, Ter!new_tty(fd) \/ Ter!Close(fd)
      PROVE  Ter!Types'
    BY <1>1 DEF Ter!new_tty, Ter!Close, Ter!TTYs
<1>2. ASSUME NEW fd \in FDs, NEW restore \in BOOLEAN, Ter!push(fd, restore)
      PROVE  Ter!Types'
    <2>1. open[fd] \in Ter!TTYs
        BY <1>2 DEF Ter!push, Ter!lookup, Ter!is_tty
    <2>2. [attr |-> attr[open[fd]], restore |-> restore] \in Ter!Settings
        BY <2>1 DEF Ter!Settings
    <2>3. <<[attr |-> attr[open[fd]], restore |-> restore]>> \o stacks[fd]
            \in Seq(Ter!Settings)
        BY <2>2
    <2>4. QED
        BY <1>2, <2>3 DEF Ter!push, Ter!lookup
<1>3. ASSUME NEW fd \in FDs, Ter!pop(fd) \/ Ter!Destroy(fd)
      PROVE  Ter!Types'
    <2>1. stacks[fd] \in Seq(Ter!Settings) /\ stacks[fd] # <<>>
        BY <1>3 DEF Ter!pop, Ter!Destroy
    <2>2. Head(stacks[fd]) \in Ter!Settings /\ Tail(stacks[fd]) \in Seq(Ter!Settings)
        BY <2>1
    <2>3. Head(stacks[fd]).attr \in SUBSET Ter!Flags
        BY <2>2 DEF Ter!Settings
    <2>4. attr' = attr \/ attr' = [attr EXCEPT ![open[fd]] = Head(stacks[fd]).attr]
        BY <1>3 DEF Ter!pop, Ter!Destroy
    <2>5. attr' \in [Ter!TTYs -> SUBSET Ter!Flags]
        BY <2>3, <2>4
    <2>6. stacks' = [stacks EXCEPT ![fd] = Tail(stacks[fd])]
        BY <1>3 DEF Ter!pop, Ter!Destroy
    <2>7. UNCHANGED <<open, exited, bare>>
        BY <1>3 DEF Ter!pop, Ter!Destroy
    <2>8. users' = users \/ users' = [users EXCEPT ![open[fd]] = @ \cup {fd}]
        BY <1>3 DEF Ter!pop, Ter!Destroy, Ter!lookup
    <2>9. stacks' \in [FDs -> Seq(Ter!Settings)]
        BY <2>2, <2>6
    <2>10. users' \in [Ter!TTYs -> SUBSET FDs]
        BY <2>8
    <2>11. QED
        BY <2>5, <2>7, <2>9, <2>10
<1>4. ASSUME NEW fd \in FDs, Ter!setup_vt100(fd)
      PROVE  Ter!Types'
    <2>1. open[fd] \in Ter!TTYs
        BY <1>4 DEF Ter!setup_vt100, Ter!lookup, Ter!is_tty
    <2>2. Ter!vt100(attr[open[fd]]) \in SUBSET Ter!Flags
        BY <2>1 DEF Ter!vt100, Ter!Flags
    <2>3. QED
        BY <1>4, <2>1, <2>2 DEF Ter!setup_vt100, Ter!lookup
<1>5. CASE Ter!Exit
    BY <1>5 DEF Ter!Exit
<1>6. CASE UNCHANGED Ter!vars
    BY <1>6 DEF Ter!vars
<1>7. QED
    BY <1>1, <1>2, <1>3, <1>4, <1>5, <1>6 DEF Ter!Next

LEMMA TerminalStep ==
    ASSUME Ter!TerminalAssumption, Ter!Inductive, [Ter!Next]_(Ter!vars)
    PROVE  Ter!Inductive'
<1> USE DEF Ter!Inductive
<1>1. Ter!Types'
    BY TerminalTypes
<1>2. Ter!StacksHaveUsers'
    <2>1. ASSUME NEW fd \in FDs, Ter!lookup(fd),
                 \A d \in FDs \ {fd} : stacks'[d] = stacks[d]
          PROVE  Ter!StacksHaveUsers'
        <3>1. open[fd] \in Ter!TTYs
            BY <2>1 DEF Ter!lookup, Ter!is_tty, Ter!Types
        <3>2. \A d \in FDs \ {fd} : stacks'[d] # <<>> =>
                \E t \in Ter!TTYs : d \in users[t]
            BY <2>1 DEF Ter!StacksHaveUsers
        <3>3. \A t \in Ter!TTYs : users[t] \subseteq users'[t]
            BY <2>1, <3>1 DEF Ter!lookup, Ter!Types
        <3>4. fd \in users'[open[fd]]
            BY <2>1, <3>1 DEF Ter!lookup, Ter!Types
        <3>5. QED
            BY <3>1, <3>2, <3>3, <3>4 DEF Ter!StacksHaveUsers
    <2>2. ASSUME NEW fd \in FDs, NEW restore \in BOOLEAN,
                 Ter!push(fd, restore) \/ Ter!pop(fd) \/ Ter!setup_vt100(fd)
          PROVE  Ter!StacksHaveUsers'
        <3>1. Ter!lookup(fd) /\ \A d \in FDs \ {fd} : stacks'[d] = stacks[d]
            BY <2>2 DEF Ter!push, Ter!pop, Ter!setup_vt100, Ter!Types
        <3>2. QED
            BY <2>1, <3>1
    <2>3. ASSUME NEW fd \in FDs, Ter!Destroy(fd)
          PROVE  Ter!StacksHaveUsers'
        BY <2>3 DEF Ter!Destroy, Ter!StacksHaveUsers, Ter!Types
    <2>4. ASSUME NEW fd \in FDs, Ter!new_tty(fd) \/ Ter!Close(fd)
          PROVE  Ter!StacksHaveUsers'
        BY <2>4 DEF Ter!new_tty, Ter!Close, Ter!StacksHaveUsers
    <2>5. CASE Ter!Exit \/ UNCHANGED Ter!vars
        BY <2>5 DEF Ter!Exit, Ter!vars, Ter!StacksHaveUsers
    <2>6. QED
        BY <2>2, <2>3, <2>4, <2>5 DEF Ter!Next
<1>3. ASSUME NEW t \in Ter!TTYs, NEW f \in FDs, Ter!UsedAlone(t, f)'
      PROVE  Ter!LeadsBack(stacks[f], attr[t])'
    <2> DEFINE s == stacks[f]
    <2>0. /\ s \in Seq(Ter!Settings) /\ attr[t] \in SUBSET Ter!Flags /\ t # Closed
        BY DEF Ter!Types, Ter!TerminalAssumption
    <2>1. ASSUME UNCHANGED <<attr, stacks, bare, users>>, ~exited
          PROVE  Ter!LeadsBack(stacks[f], attr[t])'
        <3>1. Ter!UsedAlone(t, f)
            BY <1>3, <2>1 DEF Ter!UsedAlone
        <3>2. QED
            BY <2>1, <3>1
    <2>2. ASSUME NEW fd \in FDs, Ter!lookup(fd), bare \subseteq bare',
                 UNCHANGED exited
          PROVE  /\ Ter!LeadsBack(s, attr[t])
                 /\ fd = f <=> open[fd] = t
        <3>1. open[fd] \in Ter!TTYs /\ ~exited
            BY <2>2 DEF Ter!lookup, Ter!is_tty, Ter!Types
        <3>2. \A u \in Ter!TTYs : users'[u] = IF u = open[fd] THEN users[u] \cup {fd}
                                          ELSE users[u]
            BY <2>2 DEF Ter!lookup, Ter!Types
        <3>3. Ter!UsedAlone(t, f)
            BY <1>3, <2>2, <3>1, <3>2 DEF Ter!UsedAlone
        <3>4. fd = f <=> open[fd] = t
            BY <1>3, <3>1, <3>2 DEF Ter!UsedAlone
        <3>5. QED
            BY <3>3, <3>4
    <2>3. ASSUME NEW fd \in FDs, NEW restore \in BOOLEAN, Ter!push(fd, restore)
          PROVE  Ter!LeadsBack(stacks[f], attr[t])'
        <3>1. Ter!LeadsBack(s, attr[t]) /\ (fd = f <=> open[fd] = t)
            BY <2>2, <2>3 DEF Ter!push
        <3>2. CASE fd = f
            <4>1. stacks'[f] = <<[attr |-> attr[t], restore |-> restore]>> \o s
                BY <2>3, <3>1, <3>2 DEF Ter!push, Ter!Types
            <4>2. Ter!LeadsBack(<<[attr |-> attr[t], restore |-> restore]>> \o s, attr[t])
                BY <2>0, <3>1, PushLeadsBack
            <4>3. attr' = attr
                BY <2>3 DEF Ter!push
            <4>4. QED
                BY <4>1, <4>2, <4>3
        <3>3. CASE fd # f
            <4>1. stacks'[f] = s /\ attr'[t] = attr[t]
                BY <2>3, <3>3 DEF Ter!push, Ter!Types
            <4>2. QED
                BY <3>1, <4>1
        <3>4. QED
            BY <3>2, <3>3
    <2>4. ASSUME NEW fd \in FDs, Ter!pop(fd)
          PROVE  Ter!LeadsBack(stacks[f], attr[t])'
        <3>1. Ter!LeadsBack(s, attr[t]) /\ (fd = f <=> open[fd] = t)
            BY <2>2, <2>4 DEF Ter!pop
        <3>2. CASE fd = f
            <4>1. /\ stacks'[f] = Tail(s) /\ attr'[t] = Head(s).attr /\ s # <<>>
                BY <2>4, <3>1, <3>2 DEF Ter!pop, Ter!Types
            <4>2. QED
                BY <2>0, <3>1, <4>1, PopLeadsBack
        <3>3. CASE fd # f
            <4>1. stacks'[f] = s /\ attr'[t] = attr[t]
                BY <2>4, <3>1, <3>3 DEF Ter!pop, Ter!Types
            <4>2. QED
                BY <3>1, <4>1
        <3>4. QED
            BY <3>2, <3>3
    <2>5. ASSUME NEW fd \in FDs, Ter!setup_vt100(fd)
          PROVE  Ter!LeadsBack(stacks[f], attr[t])'
        <3>1. Ter!LeadsBack(s, attr[t]) /\ (fd = f <=> open[fd] = t)
            BY <2>2, <2>5 DEF Ter!setup_vt100
        <3>2. stacks' = stacks
            BY <2>5 DEF Ter!setup_vt100
        <3>3. CASE fd = f
            <4>1. Ter!Guarded(f)
                BY <1>3, <2>5, <3>1, <3>3 DEF Ter!setup_vt100, Ter!UsedAlone
            <4>2. \E j \in 1..Len(s) : s[j].restore
                BY <2>0, <4>1 DEF Ter!Guarded, Ter!ToSet
            <4>3. Ter!LeadsBack(s, attr'[t])
                BY <2>0, <3>1, <4>2 DEF Ter!LeadsBack
            <4>4. QED
                BY <3>2, <4>3
        <3>4. CASE fd # f
            <4>1. attr'[t] = attr[t]
                BY <2>5, <3>1, <3>4 DEF Ter!setup_vt100, Ter!Types
            <4>2. QED
                BY <3>1, <3>2, <4>1
        <3>5. QED
            BY <3>3, <3>4
    <2>6. ASSUME NEW fd \in FDs, Ter!Destroy(fd)
          PROVE  Ter!LeadsBack(stacks[f], attr[t])'
        <3>1. Ter!UsedAlone(t, f) /\ exited /\ open[f] = t
            BY <1>3, <2>6 DEF Ter!Destroy, Ter!UsedAlone
        <3>2. Ter!LeadsBack(s, attr[t])
            BY <3>1
        <3>3. CASE fd = f
            <4>1. /\ stacks'[f] = Tail(s) /\ s # <<>>
                  /\ attr'[t] = IF Head(s).restore THEN Head(s).attr ELSE attr[t]
                BY <2>0, <2>6, <3>1, <3>3 DEF Ter!Destroy, Ter!is_tty, Ter!Types
            <4>2. QED
                BY <2>0, <3>2, <4>1, PopLeadsBack
        <3>4. CASE fd # f
            <4>1. PICK u \in Ter!TTYs : fd \in users[u]
                BY <2>6 DEF Ter!Destroy, Ter!StacksHaveUsers
            <4>2. open[fd] # t
                BY <3>1, <3>4, <4>1 DEF Ter!UsedAlone
            <4>3. stacks'[f] = s /\ attr'[t] = attr[t]
                BY <2>6, <3>4, <4>2 DEF Ter!Destroy, Ter!Types
            <4>4. QED
                BY <3>2, <4>3
        <3>5. QED
            BY <3>3, <3>4
    <2>7. ASSUME NEW fd \in FDs, Ter!new_tty(fd) \/ Ter!Close(fd)
          PROVE  Ter!LeadsBack(stacks[f], attr[t])'
        BY <2>1, <2>7 DEF Ter!new_tty, Ter!Close
    <2>8. CASE Ter!Exit
        BY <2>1, <2>8 DEF Ter!Exit
    <2>9. CASE UNCHANGED Ter!vars
        BY <1>3, <2>9 DEF Ter!vars, Ter!UsedAlone
    <2>10. QED
        BY <2>3, <2>4, <2>5, <2>6, <2>7, <2>8, <2>9 DEF Ter!Next
<1>4. QED
    BY <1>1, <1>2, <1>3

LEMMA TerminalIsRestored ==
    ASSUME Ter!TerminalAssumption, Ter!Inductive
    PROVE  Ter!RestoredAtExit
<1> SUFFICES ASSUME NEW fd \in FDs,
                    exited, Ter!is_tty(fd), stacks[fd] = <<>>,
                    open[fd] \notin bare, users[open[fd]] \subseteq {fd},
                    \A d \in FDs, t \in Ter!TTYs \ {open[fd]} :
                        open[d] = open[fd] => d \notin users[t]
             PROVE  attr[open[fd]] = Ter!Cooked
    BY DEF Ter!RestoredAtExit
<1>1. open[fd] \in Ter!TTYs
    BY DEF Ter!is_tty, Ter!Inductive, Ter!Types
<1>2. Ter!UsedAlone(open[fd], fd)
    BY <1>1 DEF Ter!UsedAlone
<1>3. Ter!LeadsBack(<<>>, attr[open[fd]])
    BY <1>1, <1>2 DEF Ter!Inductive
<1>4. QED
    BY <1>3 DEF Ter!LeadsBack

HIDE DEF attr, open, stacks, exited, bare, users

TerminalOK == part = "Terminal" => Ter!Inductive

LEMMA TerminalHolds == Spec => []TerminalOK
<1>1. Init => TerminalOK
    BY SystemConstants, TerminalInit DEF Init, TerminalOK
<1>2. TerminalOK /\ [Next]_vars => TerminalOK'
    <2> SUFFICES ASSUME TerminalOK, [Next]_vars, part' = "Terminal"
                 PROVE  Ter!Inductive'
        BY DEF TerminalOK
    <2>1. part = "Terminal" /\ Ter!Inductive
        BY PartStays DEF TerminalOK
    <2>2. [Ter!Next]_(Ter!vars)
        BY <2>1 DEF Next, vars, Ter!vars
    <2>3. QED
        BY <2>1, <2>2, SystemConstants, TerminalStep
<1>3. QED
    BY <1>1, <1>2, PTL DEF Spec

\* However pushes and pops are nested, a terminal used through one descriptor
\* and changed under settings to be restored has its first settings at exit.
THEOREM SettingsAreRestored == Spec => []RestoredAtExit
<1>1. TerminalOK => RestoredAtExit
    BY SystemConstants, TerminalIsRestored DEF TerminalOK, RestoredAtExit
<1>2. QED
    BY <1>1, TerminalHolds, PTL

-----------------------------------------------------------------------------
(* Atomic operations.                                                      *)

AtomicsOK == part = "Atomics" => Ato!Inductive

LEMMA AtomicsStep ==
    ASSUME AtomicsOK, [Next]_vars
    PROVE  /\ AtomicsOK'
           /\ part = "Atomics" => Ato!Abstract!Next \/ UNCHANGED Ato!Abstract!vars
<1>1. CASE part = "Atomics"
    <2>1. Ato!Inductive /\ [Ato!Next]_(Ato!vars)
        BY <1>1 DEF AtomicsOK, Next, vars, Ato!vars
    <2>2. Ato!Inductive' /\ [Ato!Abstract!Next]_(Ato!Abstract!vars)
        BY <2>1, SystemConstants, Ato!StepKeepsInductive
    <2>3. QED
        BY <2>2 DEF AtomicsOK
<1>2. CASE part # "Atomics"
    BY <1>2, PartStays DEF AtomicsOK
<1>3. QED
    BY <1>1, <1>2

LEMMA AtomicsStart ==
    ASSUME Init
    PROVE  AtomicsOK /\ (part = "Atomics" => Ato!Abstract!Init)
BY SystemConstants, Ato!InitiallyInductive DEF Init, AtomicsOK

LEMMA AtomicsHolds == Spec => []AtomicsOK
<1>1. Init => AtomicsOK
    BY AtomicsStart
<1>2. AtomicsOK /\ [Next]_vars => AtomicsOK'
    BY AtomicsStep
<1>3. QED
    BY <1>1, <1>2, PTL DEF Spec

\* Whatever the other threads do between a load and the swap that follows it,
\* and however torn a wide load was, every atomic operation takes effect in one
\* step, on its own bytes, and returns what it replaced; for any set of calls,
\* any widths of bytes and longs, and any operands the machine can swap.
THEOREM AtomicsImplementMemory == Spec => ImplementsAtomicMemory
<1> DEFINE Step == part = "Atomics" => Ato!Abstract!Next \/ UNCHANGED Ato!Abstract!vars
           Start == part = "Atomics" => Ato!Abstract!Init
<1>1. Init => Start
    BY AtomicsStart
<1>2. AtomicsOK /\ [Next]_vars => [Step]_vars
    BY AtomicsStep
<1>3. Spec => Start /\ [][Step]_vars
    <2> HIDE DEF Start, Step
    <2>1. QED
        BY <1>1, <1>2, AtomicsHolds, PTL DEF Spec
<1>4. QED
    BY <1>3 DEF ImplementsAtomicMemory

-----------------------------------------------------------------------------
(* The types of the parts whose proofs above need only some of them.  Of   *)
(* the library loader and the mapped memory, the inductive invariants of   *)
(* the sections above and the types are inductive together.                *)

USE DEF alive, m_handle, m_copy, m_keep, copies, disk, cleanup_libs, cleaned, own

\* What close leaves has the types of what it was given.
LEMMA ClosedTypes ==
    ASSUME Lib!LibraryAssumption, Lib!TypeOK, NEW o \in Triple,
           NEW r, r \in {Lib!close(o), Lib!Reopened(o)}
    PROVE  /\ r.copy \in [Triple -> 0..MaxCopies]
           /\ r.handle \in [Triple -> Pair \cup Lib!Copies \cup {nullptr}]
           /\ r.disk \subseteq Lib!Copies /\ r.libs \subseteq Lib!Copies
<1>1. ASSUME NEW q, q = Lib!close(o)
      PROVE  /\ q.copy \in [Triple -> 0..MaxCopies]
             /\ q.handle \in [Triple -> Pair \cup Lib!Copies \cup {nullptr}]
             /\ q.disk \subseteq Lib!Copies /\ q.libs \subseteq Lib!Copies
    BY <1>1 DEF Lib!TypeOK, Lib!close, Lib!LibraryAssumption
<1> DEFINE same == [handle |-> m_handle, copy |-> m_copy, disk |-> disk,
                    libs |-> cleanup_libs]
<1>2. /\ same.copy \in [Triple -> 0..MaxCopies]
      /\ same.handle \in [Triple -> Pair \cup Lib!Copies \cup {nullptr}]
      /\ same.disk \subseteq Lib!Copies /\ same.libs \subseteq Lib!Copies
    BY DEF Lib!TypeOK
<1>3. r = Lib!close(o) \/ r = same
    BY DEF Lib!Reopened
<1> HIDE DEF same
<1>4. QED
    BY <1>1, <1>2, <1>3

\* Every operation of the library loader keeps the types of its variables.
LEMMA LibraryTypes ==
    ASSUME Lib!LibraryAssumption, LibraryOwned, Lib!TypeOK, [Lib!Next]_(Lib!vars)
    PROVE  Lib!TypeOK'
<1> DEFINE H == [Triple -> Pair \cup Lib!Copies \cup {nullptr}]
           C == [Triple -> 0..MaxCopies]
<1>0. /\ {alive, m_keep, own} \subseteq SUBSET Triple
      /\ m_copy \in C /\ m_handle \in H
      /\ copies \in 0..(MaxCopies + 1) /\ MaxCopies \in Nat
      /\ cleanup_libs \subseteq Lib!Copies /\ disk \subseteq Lib!Copies
      /\ cleaned \in BOOLEAN
    BY DEF Lib!TypeOK, Lib!LibraryAssumption
<1> DEFINE Typed == /\ {alive', m_keep', own'} \subseteq SUBSET Triple
                    /\ m_copy' \in C /\ m_handle' \in H
                    /\ copies' \in 0..(MaxCopies + 1)
                    /\ cleanup_libs' \subseteq Lib!Copies /\ disk' \subseteq Lib!Copies
                    /\ cleaned' \in BOOLEAN
<1>1. SUFFICES Typed
    BY DEF Lib!TypeOK, Lib!Copies
<1>2. ASSUME NEW o \in Triple, NEW r, r \in {Lib!close(o), Lib!Reopened(o)}
      PROVE  /\ r.copy \in C /\ r.handle \in H
             /\ r.disk \subseteq Lib!Copies /\ r.libs \subseteq Lib!Copies
    BY <1>2, ClosedTypes
<1>3. ASSUME copies \in Lib!Copies
      PROVE  copies \in 0..MaxCopies /\ copies + 1 \in 0..(MaxCopies + 1)
    BY <1>0, <1>3 DEF Lib!Copies
<1>4. ASSUME NEW o \in Triple, Lib!Construct(o) \/ Lib!copyFails(o) \/ Lib!Close(o)
      PROVE  Typed
    <2>1. CASE Lib!Construct(o)
        BY <1>0, <2>1 DEF Lib!Construct
    <2>2. CASE Lib!copyFails(o)
        <3>1. PICK r : r = Lib!Reopened(o)
            OBVIOUS
        <3>2. r.copy \in C /\ r.handle \in H
              /\ r.disk \subseteq Lib!Copies /\ r.libs \subseteq Lib!Copies
            BY <3>1, <1>2
        <3>3. QED
            BY <1>0, <1>3, <2>2, <3>1, <3>2 DEF Lib!copyFails
    <2>3. CASE Lib!Close(o)
        <3>1. PICK r : r = Lib!close(o)
            OBVIOUS
        <3>2. r.copy \in C /\ r.handle \in H
              /\ r.disk \subseteq Lib!Copies /\ r.libs \subseteq Lib!Copies
            BY <3>1, <1>2
        <3>3. QED
            BY <1>0, <2>3, <3>1, <3>2 DEF Lib!Close
    <2>4. QED
        BY <1>4, <2>1, <2>2, <2>3
<1>5. ASSUME NEW o \in Triple, NEW path \in Pair,
             Lib!open(o, path) \/ Lib!mopenFirst(o, path)
      PROVE  Typed
    <2>1. PICK r : r = Lib!Reopened(o)
        OBVIOUS
    <2>2. r.copy \in C /\ r.handle \in H
          /\ r.disk \subseteq Lib!Copies /\ r.libs \subseteq Lib!Copies
        BY <2>1, <1>2
    <2>3. CASE Lib!open(o, path)
        BY <1>0, <2>1, <2>2, <2>3 DEF Lib!open
    <2>4. CASE Lib!mopenFirst(o, path)
        BY <1>0, <2>1, <2>2, <2>4 DEF Lib!mopenFirst
    <2>5. QED
        BY <1>5, <2>3, <2>4
<1>6. ASSUME NEW o \in Triple, Lib!mopenCopy(o) PROVE Typed
    <2>1. PICK r : r = Lib!Reopened(o)
        OBVIOUS
    <2>2. r.copy \in C /\ r.handle \in H
          /\ r.disk \subseteq Lib!Copies /\ r.libs \subseteq Lib!Copies
        BY <2>1, <1>2
    <2>3. /\ copies \in Lib!Copies /\ copies' = copies + 1
          /\ m_copy' = [r.copy EXCEPT ![o] = copies]
          /\ disk' = r.disk \cup {copies} /\ cleanup_libs' = r.libs \cup {copies}
          /\ \/ m_handle' = [r.handle EXCEPT ![o] = copies] /\ own' = own \cup {o}
             \/ m_handle' = r.handle /\ own' = own \ {o}
          /\ UNCHANGED <<alive, m_keep, cleaned>>
        BY <1>6, <2>1 DEF Lib!mopenCopy
    <2>4. QED
        BY <1>0, <1>3, <2>2, <2>3
<1>7. ASSUME NEW o \in Triple, NEW other \in Triple, Lib!Move(o, other) PROVE Typed
    BY <1>0, <1>7 DEF Lib!Move
<1>8. ASSUME NEW o \in Triple, NEW keep \in BOOLEAN, Lib!keep_alive(o, keep)
      PROVE  Typed
    BY <1>0, <1>8 DEF Lib!keep_alive
<1>9. ASSUME NEW o \in Triple, Lib!Destroy(o) PROVE Typed
    <2>1. PICK r : r = Lib!close(o)
        OBVIOUS
    <2>2. r.copy \in C /\ r.handle \in H
          /\ r.disk \subseteq Lib!Copies /\ r.libs \subseteq Lib!Copies
        BY <2>1, <1>2
    <2>3. CASE o \in m_keep
        BY <1>0, <1>9, <2>3 DEF Lib!Destroy
    <2>4. CASE o \notin m_keep
        BY <1>0, <1>9, <2>1, <2>2, <2>4 DEF Lib!Destroy
    <2>5. QED
        BY <2>3, <2>4
<1>10. CASE Lib!exit_cleanup
    BY <1>0, <1>10 DEF Lib!exit_cleanup
<1>11. CASE UNCHANGED Lib!vars
    BY <1>0, <1>11 DEF Lib!vars
<1>12. QED
    BY <1>4, <1>5, <1>6, <1>7, <1>8, <1>9, <1>10, <1>11 DEF Lib!Next

HIDE DEF m_handle, m_copy, m_keep, copies, disk, cleanup_libs, cleaned, own
USE DEF alive, m_data, m_size, m_total_size, mapped

\* Whole pages are mapped.
LEMMA PagesAreWhole ==
    ASSUME Mem!MemoryAssumption, NEW size \in Nat
    PROVE  Mem!Pages(size) % page_size = 0
<1> DEFINE sum == size + page_size - 1
           q == sum \div page_size
           r == sum % page_size
<1>1. sum \in Int /\ page_size \in Nat \ {0}
    BY DEF Mem!MemoryAssumption
<1>2. q \in Int /\ r \in Int /\ sum = page_size * q + r
    BY <1>1, Ato!Division
<1>3. Mem!Pages(size) = sum - r
    BY DEF Mem!Pages
<1> HIDE DEF sum, q, r
<1> DEFINE n == sum - r
           zero == 0
<1>4. n = page_size * q + zero /\ n \in Int /\ zero \in Int /\ 0 <= zero /\ zero < page_size
    BY <1>1, <1>2
<1> HIDE DEF n, zero
<1>5. n % page_size = zero
    BY <1>1, <1>2, <1>4, Ato!QuotientAndRest
<1>6. QED
    BY <1>3, <1>5 DEF n, zero

\* Every operation of the mapped memory does, and maps whole pages.
LEMMA MemoryTypes ==
    ASSUME Mem!MemoryAssumption, MemoryFields, Mem!TypeOK, [Mem!Next]_(Mem!vars)
    PROVE  Mem!TypeOK'
<1> DEFINE Whole(n) == n % page_size = 0
           S == Sizes \cup {0}
           T == Triple \cup {nullptr, MAP_FAILED}
           Typed == /\ alive' \in SUBSET Triple
                    /\ m_data' \in [Triple -> T]
                    /\ m_size' \in [Triple -> S]
                    /\ \A o \in Triple : Whole(m_total_size'[o])
                    /\ DOMAIN mapped' \subseteq Triple
<1>0. /\ alive \in SUBSET Triple
      /\ m_data \in [Triple -> T] /\ m_size \in [Triple -> S]
      /\ m_total_size \in [Triple -> Nat] /\ \A o \in Triple : Whole(m_total_size[o])
      /\ DOMAIN mapped \subseteq Triple
    BY DEF Mem!TypeOK, MemoryFields
<1>1. \A size \in Sizes : Whole(Mem!Pages(size)) /\ size \in S
    BY PagesAreWhole DEF Mem!MemoryAssumption
<1>2. Whole(0) /\ 0 \in S
    BY Ato!QuotientAndRest DEF Mem!MemoryAssumption
<1>3. Typed => Mem!TypeOK'
    BY DEF Mem!TypeOK
<1> HIDE DEF Whole, S
<1>4. ASSUME NEW o \in Triple, NEW d \in T, NEW size \in S, NEW total, Whole(total),
             Mem!Set(o, d, size, total), alive' \in SUBSET Triple,
             DOMAIN mapped' \subseteq Triple
      PROVE  Typed
    BY <1>0, <1>4 DEF Mem!Set
<1>5. ASSUME NEW o \in Triple, Mem!Construct(o) PROVE Typed
    BY <1>0, <1>2, <1>4, <1>5 DEF Mem!Construct
<1>6. ASSUME NEW o \in Triple, NEW size \in Sizes,
             Mem!alloc(o, size) \/ Mem!ConstructSize(o, size)
      PROVE  Typed
    <2>1. PICK d \in T : Mem!Set(o, d, size, Mem!Pages(size))
        BY <1>6 DEF Mem!alloc, Mem!ConstructSize
    <2>2. alive' \in SUBSET Triple
        BY <1>0, <1>6 DEF Mem!alloc, Mem!ConstructSize
    <2>3. DOMAIN mapped' \subseteq Triple
        <3>1. ASSUME NEW a \in Triple, Mem!mmap(a, size)
              PROVE  DOMAIN mapped' \subseteq Triple
            BY <1>0, <3>1 DEF Mem!mmap
        <3>2. QED
            BY <1>0, <1>6, <3>1 DEF Mem!alloc, Mem!ConstructSize
    <2>4. QED
        BY <1>1, <1>4, <2>1, <2>2, <2>3
<1>7. ASSUME NEW o \in Triple, NEW other \in Triple, Mem!Move(o, other) PROVE Typed
    BY <1>0, <1>7 DEF Mem!Move
<1>8. ASSUME NEW o \in Triple, Mem!Free(o) \/ Mem!Destroy(o) PROVE Typed
    <2>1. Mem!free(o) /\ alive' \in SUBSET Triple
        BY <1>0, <1>8 DEF Mem!Free, Mem!Destroy
    <2>2. CASE m_data[o] = nullptr
        BY <1>0, <2>1, <2>2 DEF Mem!free
    <2>3. CASE m_data[o] # nullptr
        <3>1. Mem!Set(o, nullptr, 0, 0) /\ DOMAIN mapped' \subseteq Triple
            BY <1>0, <2>1, <2>3 DEF Mem!free
        <3>2. QED
            BY <1>2, <1>4, <2>1, <3>1
    <2>4. QED
        BY <2>2, <2>3
<1>9. ASSUME UNCHANGED Mem!vars PROVE Typed
    <2>1. /\ alive' = alive /\ m_data' = m_data /\ m_size' = m_size
          /\ m_total_size' = m_total_size /\ mapped' = mapped
        BY <1>9 DEF Mem!vars
    <2>2. QED
        BY <1>0, <2>1
<1>10. QED
    BY <1>3, <1>5, <1>6, <1>7, <1>8, <1>9 DEF Mem!Next

HIDE DEF alive, m_data, m_size, m_total_size, mapped
USE DEF content, flags, pos, pc, buflen, done, buffer, ret, acked

\* The inductive invariant of the files implies their types.
LEMMA FilesTyped ==
    ASSUME Fil!FileIoAssumption, Fil!Inductive
    PROVE  Fil!TypeOK
<1>1. ASSUME NEW p \in Pair
      PROVE  /\ flags[p] \subseteq {"RD", "WR", "CREAT", "TRUNC", "APPEND"}
             /\ done[p] <= buflen[p] /\ Len(buffer[p]) <= buflen[p]
             /\ acked[p] \in 0..MaxBytes
    <2>1. flags[p] = {} \/ \E mode \in {"r", "a", "a+"} : flags[p] = Fil!Flags(mode)
        BY DEF Fil!Inductive, Fil!Calls
    <2>2. flags[p] \subseteq {"RD", "WR", "CREAT", "TRUNC", "APPEND"}
        BY <2>1, FlagValues
    <2>3. acked[p] \in Nat /\ acked[p] <= MaxBytes /\ MaxBytes \in Nat
        BY DEF Fil!Inductive, Fil!Calls, Fil!FileIoAssumption
    <2>4. QED
        BY <2>2, <2>3 DEF Fil!Inductive, Fil!Calls, Fil!Filled
<1>2. QED
    BY <1>1 DEF Fil!TypeOK, Fil!Inductive, Fil!Calls

HIDE DEF content, flags, pos, pc, buflen, done, buffer, ret, acked
USE DEF attr, open, stacks, exited, bare, users

\* No more settings are pushed than the bound allows.
StacksAreBounded == \A fd \in FDs : Len(stacks[fd]) <= MaxStack

\* Only push lengthens a stack, and not beyond the bound.
LEMMA StacksStep ==
    ASSUME MaxStack \in Nat, Ter!Types, StacksAreBounded, [Ter!Next]_(Ter!vars)
    PROVE  StacksAreBounded'
<1>0. stacks \in [FDs -> Seq(Ter!Settings)]
    BY DEF Ter!Types
<1>1. ASSUME NEW fd \in FDs, NEW s \in Seq(Ter!Settings), Len(s) <= MaxStack,
             stacks' = [stacks EXCEPT ![fd] = s]
      PROVE  StacksAreBounded'
    BY <1>0, <1>1 DEF StacksAreBounded
<1>2. ASSUME NEW fd \in FDs, NEW restore \in BOOLEAN, Ter!push(fd, restore)
      PROVE  StacksAreBounded'
    <2> DEFINE top == [attr |-> attr[open[fd]], restore |-> restore]
    <2>1. top \in Ter!Settings
        BY <1>2 DEF Ter!push, Ter!lookup, Ter!is_tty, Ter!Types, Ter!Settings
    <2>2. stacks[fd] \in Seq(Ter!Settings) /\ Len(stacks[fd]) < MaxStack
        BY <1>0, <1>2 DEF Ter!push
    <2>3. stacks' = [stacks EXCEPT ![fd] = <<top>> \o stacks[fd]]
        BY <1>2 DEF Ter!push
    <2> HIDE DEF top
    <2>4. <<top>> \o stacks[fd] \in Seq(Ter!Settings)
          /\ Len(<<top>> \o stacks[fd]) <= MaxStack
        BY <2>1, <2>2
    <2>5. QED
        BY <1>1, <2>3, <2>4
<1>3. ASSUME NEW fd \in FDs, Ter!pop(fd) \/ Ter!Destroy(fd)
      PROVE  StacksAreBounded'
    <2>1. stacks[fd] \in Seq(Ter!Settings) /\ stacks[fd] # <<>>
        BY <1>0, <1>3 DEF Ter!pop, Ter!Destroy
    <2>2. Tail(stacks[fd]) \in Seq(Ter!Settings)
          /\ Len(Tail(stacks[fd])) <= MaxStack
        BY <2>1 DEF StacksAreBounded
    <2>3. stacks' = [stacks EXCEPT ![fd] = Tail(stacks[fd])]
        BY <1>3 DEF Ter!pop, Ter!Destroy
    <2>4. QED
        BY <1>1, <2>2, <2>3
<1>4. CASE UNCHANGED stacks
    BY <1>4 DEF StacksAreBounded
<1>5. QED
    BY <1>2, <1>3, <1>4
       DEF Ter!Next, Ter!vars, Ter!new_tty, Ter!Close, Ter!setup_vt100, Ter!Exit

\* The types the proofs of the terminal use imply the ones of the model.
LEMMA TerminalTyped == ASSUME Ter!Types, StacksAreBounded PROVE Ter!TypeOK
<1>1. ASSUME NEW fd \in FDs, NEW s \in Ter!ToSet(stacks[fd])
      PROVE  s \in [attr : SUBSET Ter!Flags, restore : BOOLEAN]
    <2>1. stacks[fd] \in Seq(Ter!Settings)
        BY DEF Ter!Types
    <2>2. \E k \in DOMAIN stacks[fd] : stacks[fd][k] = s
        BY DEF Ter!ToSet
    <2>3. s \in Ter!Settings
        BY <2>1, <2>2
    <2>4. QED
        BY <2>3 DEF Ter!Settings
<1>2. QED
    BY <1>1 DEF Ter!TypeOK, Ter!Types, StacksAreBounded

HIDE DEF attr, open, stacks, exited, bare, users

-----------------------------------------------------------------------------
(* Asynchronous I/O on Windows.                                            *)

M == MAXIMUM_WAIT_OBJECTS

\* What a thread waits for are different handles, and a wait returns an index
\* into a chunk of them.
PollsOK ==
    /\ s5 \in Seq(Triple)
    /\ \A a, b \in 1..Len(s5) : s5[a] = s5[b] => a = b
    /\ s6 \in Nat /\ s6 % M = 0
    /\ s7 \in 0..(M - 1) \cup {Win!WAIT_TIMEOUT, Win!WAIT_FAILED}
    /\ s2 \in BOOLEAN /\ s3 \in BOOLEAN

\* Zero is a multiple of anything, and so is the next multiple of a multiple.
LEMMA NothingLeft == ASSUME NEW n \in Nat \ {0} PROVE 0 % n = 0
OBVIOUS

LEMMA NextMultiple ==
    ASSUME NEW n \in Nat, M \in Nat \ {0}, n % M = 0
    PROVE  n + M \in Nat /\ (n + M) % M = 0
<1> DEFINE q == n \div M
           next == q + 1
           zero == 0
           sum == n + M
<1>1. q \in Int /\ n = M * q + (n % M)
    BY Ato!Division
<1> HIDE DEF q
<1>2. sum = M * next + zero /\ sum \in Nat /\ next \in Int /\ zero \in Int
      /\ 0 <= zero /\ zero < M
    BY <1>1
<1> HIDE DEF next, zero, sum
<1>3. sum % M = zero
    BY <1>2, Ato!QuotientAndRest
<1>4. QED
    BY <1>2, <1>3 DEF sum, zero

\* A wait returns an index into its chunk, or that it timed out or failed.
LEMMA WaitIsInChunk ==
    ASSUME M \in Nat \ {0}, PollsOK, NEW r \in Win!WaitForMultipleObjects
    PROVE  r \in 0..(M - 1) \cup {Win!WAIT_TIMEOUT, Win!WAIT_FAILED}
<1> DEFINE upper == IF Len(s5) - s6 < M THEN Len(s5) ELSE s6 + M
           chunk == s6..(upper - 1)
<1>1. Len(s5) \in Nat /\ s6 \in Nat /\ upper \in Int /\ upper - s6 <= M
    BY DEF PollsOK
<1>2. r = Win!WAIT_FAILED \/ r = Win!WAIT_TIMEOUT \/ \E k \in chunk : r = k - s6
    BY DEF Win!WaitForMultipleObjects, M
<1> HIDE DEF upper
<1>3. \A k \in chunk : k - s6 \in 0..(M - 1)
    BY <1>1
<1>4. QED
    BY <1>2, <1>3

\* The part counts with its own instance of the module on finite sets.
LEMMA SameCardinality ==
    ASSUME NEW S, Win!IsFiniteSet(S)
    PROVE  IsFiniteSet(S) /\ Win!Cardinality(S) = Cardinality(S)
<1>1. IsFiniteSet(S)
    BY DEF Win!IsFiniteSet, IsFiniteSet
<1>2. Win!Cardinality(S) = Cardinality(S)
    BY DEF Win!Cardinality, Cardinality
<1>3. QED
    BY <1>1, <1>2

\* The handles of a set in any order are a sequence without repetitions.
LEMMA OrderedSets ==
    ASSUME Win!IsFiniteSet(Triple), NEW S \in SUBSET Triple,
           NEW f \in Win!SetToSeqs(S)
    PROVE  /\ f \in Seq(Triple)
           /\ \A a, b \in 1..Len(f) : f[a] = f[b] => a = b
<1> DEFINE c == Win!Cardinality(S)
<1>1. Win!IsFiniteSet(S)
    <2>1. IsFiniteSet(S)
        BY SameCardinality, FS_Subset
    <2>2. QED
        BY <2>1 DEF Win!IsFiniteSet, IsFiniteSet
<1>2. c \in Nat
    BY <1>1, SameCardinality, FS_CardinalityType
<1>3. f \in [1..c -> S] /\ \A a, b \in 1..c : a # b => f[a] # f[b]
    BY DEF Win!SetToSeqs
<1> HIDE DEF c
<1>4. f \in Seq(Triple) /\ Len(f) = c
    BY <1>2, <1>3
<1>5. QED
    BY <1>3, <1>4

\* The thread walks what it polls chunk by chunk.
LEMMA PollsStep ==
    ASSUME Win!AioWin32Assumption, s1 \in SUBSET Triple, PollsOK,
           [Win!Next]_(Win!vars)
    PROVE  PollsOK'
<1>0. M \in Nat \ {0} /\ Win!IsFiniteSet(Triple)
    BY DEF Win!AioWin32Assumption, M
<1> DEFINE R == 0..(M - 1) \cup {Win!WAIT_TIMEOUT, Win!WAIT_FAILED}
<1>1. /\ s5 \in Seq(Triple)
      /\ \A a, b \in 1..Len(s5) : s5[a] = s5[b] => a = b
      /\ s6 \in Nat /\ s6 % M = 0 /\ s7 \in R
      /\ s2 \in BOOLEAN /\ s3 \in BOOLEAN
    BY DEF PollsOK
<1>2. CASE Win!Check
    <2>1. s5' = s5 \/ s5' \in Win!SetToSeqs(s1)
        BY <1>2 DEF Win!Check
    <2>2. /\ s5' \in Seq(Triple)
          /\ \A a, b \in 1..Len(s5') : s5'[a] = s5'[b] => a = b
        BY <1>0, <1>1, <2>1, OrderedSets
    <2>3. s6' = 0 /\ UNCHANGED <<s3, s7>> /\ s2' \in BOOLEAN
        BY <1>2 DEF Win!Check
    <2>5. 0 % M = 0
        BY <1>0, NothingLeft
    <2>4. QED
        BY <1>1, <2>2, <2>3, <2>5 DEF PollsOK
<1>3. CASE Win!Wait
    <2>1. s7' \in R
        BY <1>0, <1>3, WaitIsInChunk DEF Win!Wait
    <2>2. UNCHANGED <<s2, s3, s5, s6>>
        BY <1>3 DEF Win!Wait, Win!shared
    <2>3. QED
        BY <1>1, <2>1, <2>2 DEF PollsOK
<1>4. CASE Win!NextChunk
    <2>1. s6' = s6 + M /\ s7' = Win!WAIT_TIMEOUT /\ UNCHANGED <<s2, s3, s5>>
        BY <1>4 DEF Win!NextChunk, Win!shared, M
    <2>2. s6' \in Nat /\ s6' % M = 0
        BY <1>0, <1>1, <2>1, NextMultiple
    <2>3. QED
        BY <1>1, <2>1, <2>2 DEF PollsOK
<1>5. ASSUME UNCHANGED <<s5, s6, s7>>, s2' \in BOOLEAN, s3' \in BOOLEAN
      PROVE  PollsOK'
    BY <1>1, <1>5 DEF PollsOK
<1>6. ASSUME NEW h \in Triple, Win!notify(h) \/ Win!cancel(h) \/ Win!Arrive(h) \/ Win!Close(h)
      PROVE  PollsOK'
    BY <1>1, <1>5, <1>6 DEF Win!notify, Win!cancel, Win!Arrive, Win!Close, Win!shared
<1>7. CASE Win!Destroy \/ Win!Loop \/ Win!Signalled \/ Win!WaitFailed \/ Win!TimedOut
    BY <1>1, <1>5, <1>7
       DEF Win!Destroy, Win!Loop, Win!Signalled, Win!WaitFailed, Win!TimedOut, Win!shared
<1>8. ASSUME NEW c \in s8, Win!Call(c) PROVE PollsOK'
    BY <1>1, <1>5, <1>8 DEF Win!Call, Win!shared
<1>9. CASE UNCHANGED Win!vars
    BY <1>1, <1>5, <1>9 DEF Win!vars
<1>10. QED
    BY <1>2, <1>3, <1>4, <1>6, <1>7, <1>8, <1>9 DEF Win!Next

\* With the invariant that no handler is called for nothing, these are the types.
LEMMA AioWin32Typed ==
    ASSUME Win!Inductive, PollsOK
    PROVE  Win!TypeOK
<1>1. Win!IsInjective(s5) /\ Win!ToSet(s5) \subseteq Triple
    BY DEF PollsOK, Win!IsInjective, Win!ToSet
<1>2. QED
    BY <1>1 DEF Win!TypeOK, Win!Inductive, Win!CalledForAReason, PollsOK, M

-----------------------------------------------------------------------------
(* The types of all parts.                                                 *)

\* What each part needs besides its own inductive invariant.
TypesInv ==
    /\ part = "Library" => Lib!TypeOK
    /\ part = "Memory" => Mem!TypeOK
    /\ part = "Terminal" => StacksAreBounded
    /\ part = "AioWin32" => PollsOK

\* All of it holds in every initial state of the composition ...
LEMMA TypesInit ==
    ASSUME Init
    PROVE  TypesInv
<1>1. CASE part = "Library"
    <2>1. Lib!Init /\ MaxCopies \in Nat
        BY <1>1, SystemConstants DEF Init, Lib!LibraryAssumption
    <2>2. /\ s1 = {} /\ s4 = {} /\ s9 = {} /\ s6 = {} /\ s7 = {} /\ s8 = FALSE
          /\ s5 \in 0..(MaxCopies + 1) /\ s3 \in [Triple -> 0..MaxCopies]
        BY <2>1 DEF Lib!Init
    <2>3. s2 \in [Triple -> Pair \cup Lib!Copies \cup {nullptr}]
        BY <2>1 DEF Lib!Init
    <2>4. {s1, s4, s9} \subseteq SUBSET Triple
        BY <2>2
    <2>5. Lib!TypeOK
        BY <2>2, <2>3, <2>4 DEF Lib!TypeOK
    <2>6. QED
        BY <1>1, <2>5 DEF TypesInv
<1>2. CASE part = "Memory"
    <2>1. 0 % page_size = 0
        BY SystemConstants DEF Mem!MemoryAssumption
    <2>2. QED
        BY <1>2, <2>1 DEF Init, TypesInv, Mem!Init, Mem!TypeOK
<1>3. CASE part = "Terminal"
    BY <1>3, SystemConstants
       DEF Init, TypesInv, Ter!Init, StacksAreBounded, stacks, Ter!TerminalAssumption
<1>4. CASE part = "AioWin32"
    <2>0. M \in Nat \ {0}
        BY SystemConstants DEF Win!AioWin32Assumption, M
    <2>1. 0 % M = 0
        BY <2>0, NothingLeft
    <2>2. Win!Init
        BY <1>4 DEF Init
    <2>3. /\ s5 = <<>> /\ s6 = 0 /\ s7 = Win!WAIT_TIMEOUT /\ s2 = FALSE /\ s3 = TRUE
        BY <2>2 DEF Win!Init
    <2>4. PollsOK
        <3>1. s5 \in Seq(Triple) /\ Len(s5) = 0
            BY <2>3
        <3>2. \A a, b \in 1..Len(s5) : s5[a] = s5[b] => a = b
            BY <3>1
        <3>3. s6 \in Nat /\ s6 % M = 0
            BY <2>1, <2>3
        <3>4. QED
            BY <2>3, <3>1, <3>2, <3>3 DEF PollsOK
    <2>5. QED
        BY <1>4, <2>4 DEF TypesInv
<1>5. QED
    BY <1>1, <1>2, <1>3, <1>4 DEF TypesInv

\* ... and through every step, in whichever part it is taken.
LEMMA TypesStep ==
    ASSUME LibraryOK, MemoryOK, TerminalOK, AioWin32OK, TypesInv, [Next]_vars
    PROVE  TypesInv'
<1>0. part' = part
    BY PartStays
<1>1. CASE part = "Library"
    <2>1. LibraryOwned /\ Lib!TypeOK
        BY <1>1 DEF LibraryOK, TypesInv
    <2>2. [Lib!Next]_(Lib!vars)
        BY <1>1 DEF Next, vars, Lib!vars
    <2>3. QED
        BY <1>0, <1>1, <2>1, <2>2, SystemConstants, LibraryTypes DEF TypesInv
<1>2. CASE part = "Memory"
    <2>1. MemoryFields /\ Mem!TypeOK
        BY <1>2 DEF MemoryOK, MemoryOwned, TypesInv
    <2>2. [Mem!Next]_(Mem!vars)
        BY <1>2 DEF Next, vars, Mem!vars
    <2>3. QED
        BY <1>0, <1>2, <2>1, <2>2, SystemConstants, MemoryTypes DEF TypesInv
<1>3. CASE part = "Terminal"
    <2>1. Ter!Types /\ StacksAreBounded /\ MaxStack \in Nat
        BY <1>3, SystemConstants
           DEF TerminalOK, TypesInv, Ter!Inductive, Ter!TerminalAssumption
    <2>2. [Ter!Next]_(Ter!vars)
        BY <1>3 DEF Next, vars, Ter!vars
    <2>3. QED
        BY <1>0, <1>3, <2>1, <2>2, StacksStep DEF TypesInv
<1>4. CASE part = "AioWin32"
    <2>1. s1 \in SUBSET Triple /\ PollsOK
        BY <1>4 DEF AioWin32OK, TypesInv, Win!Inductive
    <2>2. [Win!Next]_(Win!vars)
        BY <1>4 DEF Next, vars, Win!vars
    <2>3. QED
        BY <1>0, <1>4, <2>1, <2>2, SystemConstants, PollsStep DEF TypesInv
<1>5. QED
    BY <1>0, <1>1, <1>2, <1>3, <1>4 DEF TypesInv

\* Every variable of every part keeps its type, through any calls and failures.
THEOREM AllPartsKeepTheirTypes == Spec => []TypesOK
<1>1. Init => TypesInv
    BY TypesInit
<1>2. LibraryOK /\ MemoryOK /\ TerminalOK /\ AioWin32OK /\ TypesInv /\ [Next]_vars
      => TypesInv'
    BY TypesStep
<1>3. Spec => []TypesInv
    BY <1>1, <1>2, LibraryHolds, MemoryHolds, TerminalHolds, AioWin32Holds,
       PTL DEF Spec
<1>4. ASSUME SocketOK, PublisherOK, SubprocessOK, TerminalOK, AioWin32OK,
             AtomicsOK, FilesOK, TypesInv
      PROVE  TypesOK
    <2>0. part = "Socket" => Soc!TypeOK
        BY <1>4 DEF SocketOK
    <2>1. part = "Publisher" => Pub!TypeOK
        BY <1>4 DEF PublisherOK, Pub!Inductive
    <2>2. part = "Subprocess" => Sub!TypeOK
        BY <1>4 DEF SubprocessOK
    <2>3. part = "Terminal" => Ter!TypeOK
        BY <1>4, TerminalTyped DEF TerminalOK, Ter!Inductive, TypesInv
    <2>4. part = "AioWin32" => Win!TypeOK
        BY <1>4, AioWin32Typed DEF AioWin32OK, TypesInv
    <2>5. part = "Atomics" => Ato!TypeOK
        BY <1>4 DEF AtomicsOK, Ato!Inductive
    <2>6. part = "FileIo" => Fil!TypeOK
        BY <1>4, SystemConstants, FilesTyped DEF FilesOK
    <2>7. (part = "Library" => Lib!TypeOK) /\ (part = "Memory" => Mem!TypeOK)
        BY <1>4 DEF TypesInv
    <2>8. QED
        BY <2>0, <2>1, <2>2, <2>3, <2>4, <2>5, <2>6, <2>7 DEF TypesOK
<1>5. QED
    BY <1>3, <1>4, SocketHolds, PublisherHolds, SubprocessHolds, TerminalHolds,
       AioWin32Holds, AtomicsHolds, FilesHold, PTL
=============================================================================
