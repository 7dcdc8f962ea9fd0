------------------------------ MODULE MCSystem ------------------------------
(***************************************************************************)
(* The parts of the library that share nothing, in one instance for TLC.   *)
(* A behaviour is one of a single part, whose state is in the first of the *)
(* variables s1, s2, ...; those it does not need are Unused.  The threads, *)
(* objects and so on of a part are model values: of Solo, Pair, Twins or   *)
(* Triple.  Parts with proofs are instances of the modules that hold them, *)
(* so that SystemProofs can use them.                                      *)
(***************************************************************************)
EXTENDS Integers, FiniteSets, TLC

CONSTANTS
    Solo, Pair, Twins, Triple, Unused,
    Nobody, NoMsg, Console, Pty, Closed, Idle, nullptr, MAP_FAILED,
    MaxAddrs, MaxSockets,
    NUM_LOG_LEVELS, MaxFilters,
    MaxChildren, MaxData, MaxRead,
    FDs, Stdin, MaxStack,
    MAXIMUM_WAIT_OBJECTS,
    ByteBits, NativeSizes, CasSizes, LongBits,
    MaxCopies,
    page_size, Sizes,
    Modes, MaxBuffer, MaxBytes

VARIABLES
    part,
    s1, s2, s3, s4, s5, s6, s7, s8, s9, s10, s11, s12, s13, s14, s15

vars == <<part, s1, s2, s3, s4, s5, s6, s7, s8, s9, s10, s11, s12, s13, s14, s15>>

\* The operations on a location of two bytes of two bits: those of one byte,
\* and those that exist for operands without an instruction.
AtomicCall(op, size, signed, val, cmp) ==
    LET Bits(n) == {k \in 0 .. 2 * size - 1 : (n \div 2^k) % 2 = 1}
    IN [op |-> op, size |-> size, signed |-> signed,
        val |-> Bits(val), cmp |-> Bits(cmp)]
AtomicCalls ==
    {AtomicCall("and", 1, TRUE, 2, 0), AtomicCall("or", 1, FALSE, 1, 0),
     AtomicCall("xor", 1, TRUE, 3, 0), AtomicCall("add", 1, TRUE, -1, 0),
     AtomicCall("add", 1, FALSE, 1, 0), AtomicCall("swap", 1, TRUE, 2, 0),
     AtomicCall("swap", 2, FALSE, 2, 0), AtomicCall("read", 1, TRUE, 0, 0),
     AtomicCall("read", 2, FALSE, 0, 0), AtomicCall("write", 2, FALSE, 6, 0),
     AtomicCall("write", 1, TRUE, 3, 0), AtomicCall("cas", 2, FALSE, 9, 6),
     AtomicCall("cas", 1, FALSE, 1, 2), AtomicCall("min", 1, TRUE, -1, 0),
     AtomicCall("max", 1, FALSE, 2, 0), AtomicCall("min", 2, TRUE, -3, 0),
     AtomicCall("max", 2, FALSE, 7, 0)}

Soc == INSTANCE SocketProofs WITH
    Threads <- Pair \cup Solo,
    m_mtx <- s1, m_conn <- s2, m_peer <- s3, m_port <- s4, pc <- s5, call <-
    s6, conn <- s7, left <- s8, sockets <- s9, open <- s10, clash <- s11

Pub == INSTANCE PublisherProofs WITH
    Threads <- Solo, Publishers <- Pair, Msgs <- Twins,
    publishers <- s1, alive <- s2, m_min <- s3, m_max <- s4, m_filters <- s5,
    print_source <- s6, setting <- s7, pc <- s8, level <- s9, msg <- s10,
    isReport <- s11, saved <- s12, pos <- s13, seen <- s14

Sub == INSTANCE SubprocessProofs WITH
    Objects <- Pair, Pids <- Twins,
    m_pid <- s1, m_fds <- s2, proc <- s3, pid <- s4, strangers <- s5, writers
    <- s6, data <- s7, pc <- s8, made <- s9, fd <- s10, want <- s11,
    toldGone <- s12, staleUse <- s13, stolen <- s14, during <- s15

Ter == INSTANCE Terminal WITH
    attr <- s1, open <- s2, stacks <- s3, exited <- s4, bare <- s5, users <-
    s6

Win == INSTANCE AioWin32 WITH
    Handles <- Triple,
    m_handlers <- s1, outdated <- s2, m_running <- s3, pc <- s4, polls <- s5,
    i <- s6, ret <- s7, scheduled <- s8, valid <- s9, readable <- s10, told <-
    s11, spurious <- s12

Ato == INSTANCE WordProofs WITH
    Threads <- Pair, Calls <- AtomicCalls,
    U64 <- LongBits, LongLong <- LongBits, Host <- "little",
    mem <- s1, call <- s2, ret <- s3, curr <- s4, left <- s5, pc <- s6

Lib == INSTANCE Library WITH
    Libraries <- Triple, Paths <- Pair,
    alive <- s1, m_handle <- s2, m_copy <- s3, m_keep <- s4, copies <- s5,
    disk <- s6, cleanup_libs <- s7, exited <- s8, own <- s9

Mem == INSTANCE Memory WITH
    Objects <- Triple, Addresses <- Triple,
    alive <- s1, m_data <- s2, m_size <- s3, m_total_size <- s4, mapped <- s5

Fil == INSTANCE FileIo WITH
    Processes <- Pair,
    content <- s1, flags <- s2, pos <- s3, pc <- s4, buflen <- s5, done <- s6,
    buffer <- s7, ret <- s8, acked <- s9

ASSUME SystemConstants ==
    /\ Soc!SocketAssumption
    /\ Pub!PublisherAssumption
    /\ Sub!SubprocessAssumption
    /\ Lib!LibraryAssumption
    /\ Mem!MemoryAssumption
    /\ Fil!FileIoAssumption
    /\ Ter!TerminalAssumption
    /\ Win!AioWin32Assumption
    /\ Ato!AtomicsAssumption

-----------------------------------------------------------------------------
(* Init and Next: one disjunct for each part.                              *)

Init ==
    \/ /\ part = "Socket" /\ Soc!Init
       /\ s12 = Unused /\ s13 = Unused /\ s14 = Unused /\ s15 = Unused
    \/ /\ part = "Publisher" /\ Pub!Init
       /\ s15 = Unused
    \/ /\ part = "Subprocess" /\ Sub!Init
    \/ /\ part = "Terminal" /\ Ter!Init
       /\ s7 = Unused /\ s8 = Unused /\ s9 = Unused /\ s10 = Unused /\
          s11 = Unused /\ s12 = Unused /\ s13 = Unused /\ s14 = Unused /\ s15 = Unused
    \/ /\ part = "AioWin32" /\ Win!Init
       /\ s13 = Unused /\ s14 = Unused /\ s15 = Unused
    \/ /\ part = "Atomics" /\ Ato!Init
       /\ s7 = Unused /\ s8 = Unused /\ s9 = Unused /\ s10 = Unused /\
          s11 = Unused /\ s12 = Unused /\ s13 = Unused /\ s14 = Unused /\ s15 = Unused
    \/ /\ part = "Library" /\ Lib!Init
       /\ s10 = Unused /\ s11 = Unused /\ s12 = Unused /\ s13 = Unused /\
          s14 = Unused /\ s15 = Unused
    \/ /\ part = "Memory" /\ Mem!Init
       /\ s6 = Unused /\ s7 = Unused /\ s8 = Unused /\ s9 = Unused /\
          s10 = Unused /\ s11 = Unused /\ s12 = Unused /\ s13 = Unused /\
          s14 = Unused /\ s15 = Unused
    \/ /\ part = "FileIo" /\ Fil!Init
       /\ s10 = Unused /\ s11 = Unused /\ s12 = Unused /\ s13 = Unused /\
          s14 = Unused /\ s15 = Unused

Next ==
    \/ part = "Socket" /\ Soc!Next /\ UNCHANGED <<part, s12, s13, s14, s15>>
    \/ part = "Publisher" /\ Pub!Next /\ UNCHANGED <<part, s15>>
    \/ part = "Subprocess" /\ Sub!Next /\ UNCHANGED part
    \/ part = "Terminal" /\ Ter!Next /\ UNCHANGED <<part, s7, s8, s9, s10, s11, s12, s13, s14, s15>>
    \/ part = "AioWin32" /\ Win!Next /\ UNCHANGED <<part, s13, s14, s15>>
    \/ part = "Atomics" /\ Ato!Next /\ UNCHANGED <<part, s7, s8, s9, s10, s11, s12, s13, s14, s15>>
    \/ part = "Library" /\ Lib!Next /\ UNCHANGED <<part, s10, s11, s12, s13, s14, s15>>
    \/ part = "Memory" /\ Mem!Next /\ UNCHANGED <<part, s6, s7, s8, s9, s10, s11, s12, s13, s14, s15>>
    \/ part = "FileIo" /\ Fil!Next /\ UNCHANGED <<part, s10, s11, s12, s13, s14, s15>>
    \/ \* these may end: the program exits, the object is destroyed
       part \in {"Subprocess", "Terminal", "AioWin32", "Library"} /\ UNCHANGED vars

Spec == Init /\ [][Next]_vars

Symmetry == Permutations(Pair) \cup Permutations(Twins)

\* For TLC: nothing is said of a socket after a clash, nor looked at.
UntilClash == part = "Socket" => ~s11

-----------------------------------------------------------------------------
(* Properties: those of the parts, under their names.                      *)

\* Every part: the variables have their types.
TypesOK ==
    /\ part = "Socket" => Soc!TypeOK
    /\ part = "Publisher" => Pub!TypeOK
    /\ part = "Subprocess" => Sub!TypeOK
    /\ part = "Terminal" => Ter!TypeOK
    /\ part = "AioWin32" => Win!TypeOK
    /\ part = "Atomics" => Ato!TypeOK
    /\ part = "Library" => Lib!TypeOK
    /\ part = "Memory" => Mem!TypeOK
    /\ part = "FileIo" => Fil!TypeOK
\* Sockets: between calls the fields of a connection agree, and no socket but
\* the connection is open, until a transfer has torn the connection down while
\* connect was running (socket_posix.cpp:251, 299).
ConsistentWhenQuiescent == part = "Socket" => Soc!ConsistentWhenQuiescent
\* Sockets: until the same, transfers never use an open connection that the
\* socket has forgotten, although it is replaced under them (socket_posix.cpp:374).
TransfersOnPresentConnection == part = "Socket" => Soc!TransfersOnPresentConnection
\* Logging: publishers are registered for the levels they want (publisher.cpp:115).
RegistryMatchesLevels == part = "Publisher" => Pub!RegistryMatchesLevels
\* Logging: every message is printed once by all who want it (publisher.cpp:139).
DeliveredOnce == part = "Publisher" => Pub!DeliveredOnce
\* Logging: reports come with their source, and print_source is restored
\* (publisher.cpp:154).
ReportsPrintSource ==
    part = "Publisher" => Pub!ReportsPrintSource /\ Pub!PrintSourceRestored
\* Subprocesses: an object's pid is that of its child until it is told that the
\* child is gone, or is robbed of it by one that was (subprocess_posix.cpp:100).
PidsMatchChildren == part = "Subprocess" => Sub!PidsMatchChildren
\* Subprocesses: who reads stdout waits for the own child, and for those that
\* were forked while its run() was in progress (subprocess_posix.cpp:90).
ReadOfStdoutEnds == part = "Subprocess" => Sub!ReadOfStdoutEnds
\* Terminals: settings are put back at exit (terminal.cpp:105).
RestoredAtExit == part = "Terminal" => Ter!RestoredAtExit
\* Asynchronous I/O: handlers are called for a reason (aio_win32.cpp:85).
CalledForAReason == part = "AioWin32" => Win!CalledForAReason
\* Atomics: every operation takes effect in one step (atomics.h:499).
ImplementsAtomicMemory ==
    /\ part = "Atomics" => Ato!Abstract!Init
    /\ [][part = "Atomics" => Ato!Abstract!Next \/ UNCHANGED Ato!Abstract!vars]_vars
\* Libraries: every mopen gets a file of its own (library_posix.cpp:119).
SeparateInstances == part = "Library" => Lib!SeparateInstances
\* Libraries: no copy stays on disk (library_posix.cpp:26).
NoCopyLeftBehind == part = "Library" => Lib!NoCopyLeftBehind
\* Memory: a mapping has one owner, which knows its length (memory_posix.cpp:25).
OneOwnerPerMapping == part = "Memory" => Mem!OneOwnerPerMapping
\* Files: whole buffers are moved through cut and failing calls (utils.cpp:444).
TransfersAreWhole == part = "FileIo" => Fil!TransfersAreWhole
=============================================================================
