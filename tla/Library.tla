------------------------------- MODULE Library -------------------------------
(***************************************************************************)
(* mwr::library on POSIX: shared libraries opened by dlopen.  mopen gives  *)
(* every caller an instance of its own, by opening a numbered copy of the  *)
(* file from the second call on; copies are removed by close, or at exit.  *)
(* All paths here have the same file name, which mopen counts copies of.   *)
(* A copy stands for its number.                                           *)
(***************************************************************************)
EXTENDS Naturals, FiniteSets

CONSTANTS
    Libraries, \* objects of the class
    Paths,     \* files with one name in several directories
    nullptr,
    MaxCopies  \* bound on the calls of mopen that copy

LibraryAssumption ==
    /\ MaxCopies \in Nat
    /\ nullptr \notin Paths \cup Nat
    /\ Paths \cap Nat = {}

VARIABLES
    alive,        \* the objects that are constructed
    m_handle,     \* object -> the file dlopen loaded for it
    m_copy,       \* object -> its copy, 0 for an empty string
    m_keep,       \* the objects that leave their library open
    copies,       \* the static count of mopen for the file name
    disk,         \* the copies in the directory of temporary files
    cleanup_libs, \* the copies to be removed at exit
    exited,
    own           \* history: the objects whose library was opened by mopen

vars == <<alive, m_handle, m_copy, m_keep, copies, disk, cleanup_libs, exited,
          own>>

Copies == 1..MaxCopies

Init ==
    /\ alive = {}
    /\ m_handle = [o \in Libraries |-> nullptr]
    /\ m_copy = [o \in Libraries |-> 0]
    /\ m_keep = {}
    /\ copies = 0
    /\ disk = {} /\ cleanup_libs = {} /\ exited = FALSE
    /\ own = {}

TypeOK ==
    /\ {alive, m_keep, own} \subseteq SUBSET Libraries
    /\ m_copy \in [Libraries -> 0..MaxCopies]
    /\ m_handle \in [Libraries -> Paths \cup Copies \cup {nullptr}]
    /\ copies \in 0..(MaxCopies + 1)
    /\ cleanup_libs \subseteq Copies /\ disk \subseteq Copies
    /\ exited \in BOOLEAN

is_open(o) == m_handle[o] # nullptr

\* A wrong close that forgets the copy without removing the file.
closeForgetting(o) ==
    LET gone == {m_copy[o]} \cap disk
    IN [handle |-> [m_handle EXCEPT ![o] = nullptr],
        copy   |-> IF gone = {} THEN m_copy ELSE [m_copy EXCEPT ![o] = 0],
        disk   |-> disk,
        libs   |-> cleanup_libs \ gone]

\* What close leaves: the handle, the copy, the disk and the list.
close(o) ==
    LET gone == {m_copy[o]} \cap disk
    IN [handle |-> [m_handle EXCEPT ![o] = nullptr],
        copy   |-> IF gone = {} THEN m_copy ELSE [m_copy EXCEPT ![o] = 0],
        disk   |-> disk \ gone,
        libs   |-> cleanup_libs \ gone]

\* open and mopen first close what is open, and only then.
Reopened(o) ==
    IF is_open(o) THEN close(o)
    ELSE [handle |-> m_handle, copy |-> m_copy, disk |-> disk,
          libs |-> cleanup_libs]

-----------------------------------------------------------------------------
Construct(o) ==
    /\ ~exited /\ o \notin alive
    /\ alive' = alive \cup {o}
    /\ UNCHANGED <<m_handle, m_copy, m_keep, copies, disk, cleanup_libs, exited,
                   own>>

\* The move constructor.
Move(o, other) ==
    /\ ~exited /\ o \notin alive /\ other \in alive
    /\ alive' = alive \cup {o}
    /\ m_handle' = [m_handle EXCEPT ![o] = m_handle[other], ![other] = nullptr]
    /\ m_copy' = [m_copy EXCEPT ![o] = m_copy[other], ![other] = 0]
    /\ m_keep' = IF other \in m_keep THEN m_keep \cup {o} ELSE m_keep \ {o}
    /\ own' = IF other \in own THEN (own \cup {o}) \ {other} ELSE own
    /\ UNCHANGED <<copies, disk, cleanup_libs, exited>>

keep_alive(o, keep) ==
    /\ ~exited /\ o \in alive
    /\ m_keep' = IF keep THEN m_keep \cup {o} ELSE m_keep \ {o}
    /\ UNCHANGED <<alive, m_handle, m_copy, copies, disk, cleanup_libs, exited,
                   own>>

\* dlopen loads the file or fails, and open throws.
open(o, path) ==
    /\ ~exited /\ o \in alive
    /\ LET r == Reopened(o)
       IN /\ m_handle' \in {r.handle, [r.handle EXCEPT ![o] = path]}
          /\ m_copy' = r.copy /\ disk' = r.disk /\ cleanup_libs' = r.libs
    /\ own' = own \ {o}
    /\ UNCHANGED <<alive, m_keep, copies, exited>>

\* The first instance is the file itself.
mopenFirst(o, path) ==
    /\ ~exited /\ o \in alive
    /\ copies = 0
    /\ LET r == Reopened(o)
       IN /\ m_copy' = r.copy /\ disk' = r.disk /\ cleanup_libs' = r.libs
          /\ \/ /\ m_handle' = [r.handle EXCEPT ![o] = path]
                /\ own' = own \cup {o}
                /\ copies' = 1
             \/ m_handle' = r.handle /\ own' = own \ {o} /\ UNCHANGED copies
    /\ UNCHANGED <<alive, m_keep, exited>>

\* A wrong mopen that counts an instance when it is open.
mopenCopyLate(o) ==
    /\ ~exited /\ o \in alive
    /\ copies \in Copies
    /\ LET r == Reopened(o)
       IN /\ m_copy' = [r.copy EXCEPT ![o] = copies]
          /\ disk' = r.disk \cup {copies}
          /\ cleanup_libs' = r.libs \cup {copies}
          /\ \/ /\ m_handle' = [r.handle EXCEPT ![o] = copies]
                /\ own' = own \cup {o}
                /\ copies' = copies + 1
             \/ m_handle' = r.handle /\ own' = own \ {o} /\ UNCHANGED copies
    /\ UNCHANGED <<alive, m_keep, exited>>

\* The others are copies, counted whether or not they can be loaded.
mopenCopy(o) ==
    /\ ~exited /\ o \in alive
    /\ copies \in Copies
    /\ copies' = copies + 1
    /\ LET r == Reopened(o)
       IN /\ m_copy' = [r.copy EXCEPT ![o] = copies]
          /\ disk' = r.disk \cup {copies}
          /\ cleanup_libs' = r.libs \cup {copies}
          /\ \/ /\ m_handle' = [r.handle EXCEPT ![o] = copies]
                /\ own' = own \cup {o}
             \/ m_handle' = r.handle /\ own' = own \ {o}
    /\ UNCHANGED <<alive, m_keep, exited>>

\* The file cannot be copied: its number is spent, and the object keeps the
\* name of a copy that could not be loaded before.
copyFails(o) ==
    /\ ~exited /\ o \in alive
    /\ copies \in Copies
    /\ copies' = copies + 1
    /\ LET r == Reopened(o)
       IN /\ m_handle' = r.handle /\ m_copy' = r.copy
          /\ disk' = r.disk /\ cleanup_libs' = r.libs
    /\ own' = own \ {o}
    /\ UNCHANGED <<alive, m_keep, exited>>

Close(o) ==
    /\ ~exited /\ o \in alive
    /\ LET r == close(o)
       IN /\ m_handle' = r.handle /\ m_copy' = r.copy
          /\ disk' = r.disk /\ cleanup_libs' = r.libs
    /\ own' = own \ {o}
    /\ UNCHANGED <<alive, m_keep, copies, exited>>

\* The destructor: of static objects also after exit_cleanup.
Destroy(o) ==
    /\ o \in alive
    /\ alive' = alive \ {o}
    /\ LET r == IF o \in m_keep
                THEN [handle |-> m_handle, disk |-> disk, libs |-> cleanup_libs]
                ELSE close(o)
       IN /\ m_handle' = [r.handle EXCEPT ![o] = nullptr]
          /\ disk' = r.disk /\ cleanup_libs' = r.libs
    /\ m_copy' = [m_copy EXCEPT ![o] = 0]
    /\ m_keep' = m_keep \ {o}
    /\ own' = own \ {o}
    /\ UNCHANGED <<copies, exited>>

exit_cleanup ==
    /\ ~exited
    /\ exited' = TRUE
    /\ disk' = disk \ cleanup_libs
    /\ UNCHANGED <<alive, m_handle, m_copy, m_keep, copies, cleanup_libs, own>>

Next ==
    \/ \E o \in Libraries :
        \/ Construct(o) \/ mopenCopy(o) \/ copyFails(o) \/ Close(o) \/ Destroy(o)
        \/ \E other \in Libraries : Move(o, other)
        \/ \E keep \in BOOLEAN : keep_alive(o, keep)
        \/ \E path \in Paths : open(o, path) \/ mopenFirst(o, path)
    \/ exit_cleanup

Spec == Init /\ [][Next]_vars

-----------------------------------------------------------------------------
(* Properties.                                                             *)

\* mopen gives an object a file that no other object opened by mopen has, and
\* that stays on disk as long as the object has it open, whatever was moved,
\* closed or failed to load before.
SeparateInstances ==
    /\ \A o, other \in own : m_handle[o] = m_handle[other] => o = other
    /\ ~exited => \A o \in own : m_handle[o] \in Paths \cup disk

\* No copy is left behind when the program has ended, not those of objects that
\* were kept alive, nor those that could not be loaded.
NoCopyLeftBehind == exited => disk = {}
=============================================================================
