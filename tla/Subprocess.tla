----------------------------- MODULE Subprocess -----------------------------
(***************************************************************************)
(* mwr::subprocess on POSIX: a child process, the pipes to its standard    *)
(* streams, and the pid by which the object knows it.                      *)
(*                                                                         *)
(* The n-th call of run() makes the n-th set of pipes, and its child is    *)
(* the n-th: a descriptor of the object is the number of the child it was  *)
(* made for.  An object is used by one thread, several objects by several  *)
(* threads; every fork hands the child all descriptors the parent has.     *)
(* What goes through a pipe is counted, not looked at, and the programs of *)
(* the children start no processes of their own.                           *)
(***************************************************************************)
EXTENDS Integers, FiniteSets

CONSTANTS
    Objects,
    MaxChildren, \* bound on calls of run()
    Pids,        \* the numbers the system gives to processes
    MaxData,     \* the capacity of a pipe
    MaxRead      \* the largest read

Children == 1..MaxChildren
Parent == 0
Processes == Children \cup {Parent}
Pipes == {"in", "out", "err"}

VARIABLES
    m_pid,     \* object -> pid, or -1
    m_fds,     \* object -> the child whose pipes it holds, or -1
    proc,      \* child -> "none", "pipes" while there are only its pipes,
               \* "forked", "running", "zombie" or "gone"
    pid,       \* child -> the pid it was given
    strangers, \* the pids of other processes of the system
    writers,   \* child, pipe -> the processes that have its write end open
    data,      \* child, pipe -> bytes in the pipe
    pc,        \* object -> where its thread is; in run(), what it makes next
    made,      \* object -> the child whose pipes its run() makes, or -1
    fd,        \* object -> the pipe that it reads ("out" when it reads none)
    want,      \* object -> bytes that are still to be read
    toldGone,  \* history: is_running() has said that the child is gone
    staleUse,  \* history: a pid was used again after that
    stolen,    \* history: children that another object's waitpid reaped
    during     \* history: child -> those, as long as they live, that other
               \* objects forked while the run() that started it was in progress

vars == <<m_pid, m_fds, proc, pid, strangers, writers, data, pc, made, fd,
          want, toldGone, staleUse, stolen, during>>
pipeVars == <<writers, data>>
readVars == <<fd, want>>
historyVars == <<toldGone, staleUse, stolen, during>>

TypeOK ==
    /\ m_pid \in [Objects -> Pids \cup {-1}]
    /\ m_fds \in [Objects -> Children \cup {-1}]
    /\ proc \in [Children -> {"none", "pipes", "forked", "running", "zombie",
                           "gone"}]
    /\ pid \in [Children -> Pids \cup {-1}]
    /\ strangers \in SUBSET Pids
    /\ writers \in [Children -> [Pipes -> SUBSET Processes]]
    /\ data \in [Children -> [Pipes -> 0..MaxData]]
    /\ pc \in [Objects -> {"idle", "out", "err", "fork", "forked", "read", "wait"}]
    /\ made \in [Objects -> Children \cup {-1}]
    /\ fd \in [Objects -> Pipes]
    /\ want \in [Objects -> 0..MaxRead]
    /\ toldGone \in [Objects -> BOOLEAN]
    /\ staleUse \in BOOLEAN
    /\ stolen \in SUBSET Children
    /\ during \in [Children -> SUBSET Children]

Init ==
    /\ m_pid = [o \in Objects |-> -1]
    /\ m_fds = [o \in Objects |-> -1]
    /\ proc = [c \in Children |-> "none"]
    /\ pid = [c \in Children |-> -1]
    /\ strangers = {}
    /\ writers = [c \in Children |-> [p \in Pipes |-> {}]]
    /\ data = [c \in Children |-> [p \in Pipes |-> 0]]
    /\ pc = [o \in Objects |-> "idle"]
    /\ made = [o \in Objects |-> -1]
    /\ fd = [o \in Objects |-> "out"]
    /\ want = [o \in Objects |-> 0]
    /\ toldGone = [o \in Objects |-> FALSE]
    /\ staleUse = FALSE
    /\ stolen = {}
    /\ during = [c \in Children |-> {}]

Exists(c) == proc[c] \in {"forked", "running", "zombie"}
UsedPids == {pid[c] : c \in {d \in Children : Exists(d)}} \cup strangers
ChildOf(p) == {c \in Children : Exists(c) /\ pid[c] = p}

-----------------------------------------------------------------------------
(* run().  It does not look whether the object has a child already.        *)

\* The first pipe, of three that are made one after the other.
run(o) ==
    /\ pc[o] = "idle"
    /\ \E c \in Children :
        /\ proc[c] = "none"
        /\ \A d \in 1..(c - 1) : proc[d] # "none"
        /\ proc' = [proc EXCEPT ![c] = "pipes"]
        /\ made' = [made EXCEPT ![o] = c]
        /\ writers' = [writers EXCEPT ![c] =
                        [p \in Pipes |-> IF p = "in" THEN {Parent} ELSE {}]]
    /\ pc' = [pc EXCEPT ![o] = "out"]
    /\ UNCHANGED <<m_pid, m_fds, pid, strangers, data, readVars, historyVars>>

MakePipe(o) ==
    /\ pc[o] \in {"out", "err"}
    /\ writers' = [writers EXCEPT ![made[o]][pc[o]] = {Parent}]
    /\ pc' = [pc EXCEPT ![o] = IF @ = "out" THEN "err" ELSE "fork"]
    /\ UNCHANGED <<m_pid, m_fds, proc, pid, strangers, data, made, readVars,
                   historyVars>>

\* A pipe cannot be made, or fork fails: what was opened stays open, and the
\* object as it is.
RunFails(o) ==
    /\ pc[o] \in {"out", "err", "fork"}
    /\ proc' = [proc EXCEPT ![made[o]] = "gone"]
    /\ pc' = [pc EXCEPT ![o] = "idle"]
    /\ made' = [made EXCEPT ![o] = -1]
    /\ UNCHANGED <<m_pid, m_fds, pid, strangers, pipeVars, readVars, historyVars>>

\* The child has every descriptor of the parent.
fork(o, p) ==
    /\ pc[o] = "fork"
    /\ p \notin UsedPids
    /\ LET c == made[o] IN
        /\ proc' = [proc EXCEPT ![c] = "forked"]
        /\ pid' = [pid EXCEPT ![c] = p]
        /\ writers' = [d \in Children |-> [q \in Pipes |->
                        writers[d][q] \cup IF Parent \in writers[d][q]
                                          THEN {c} ELSE {}]]
        /\ during' = [d \in Children |->
                        during[d] \cup IF \E u \in Objects \ {o} : made[u] = d
                                      THEN {c} ELSE {}]
    /\ pc' = [pc EXCEPT ![o] = "forked"]
    /\ UNCHANGED <<m_pid, m_fds, strangers, data, made, readVars, toldGone,
                   staleUse, stolen>>

\* The object is given the child and the pipes, whatever it had before.
Assign(o) ==
    /\ pc[o] = "forked"
    /\ m_fds' = [m_fds EXCEPT ![o] = made[o]]
    /\ m_pid' = [m_pid EXCEPT ![o] = pid[made[o]]]
    /\ toldGone' = [toldGone EXCEPT ![o] = FALSE]
    /\ made' = [made EXCEPT ![o] = -1]
    /\ pc' = [pc EXCEPT ![o] = "idle"]
    /\ UNCHANGED <<proc, pid, strangers, data, readVars, staleUse, stolen, during>>

\* A wrong parent that keeps the write end of stdout.
CloseStdinOnly(o) == Assign(o) /\ UNCHANGED writers

\* The parent closes the child's ends of stdin and stdout, not that of stderr.
CloseChildEnds(o) ==
    /\ Assign(o)
    /\ writers' = [writers EXCEPT ![made[o]]["out"] = @ \ {Parent}]

\* The child closes what it does not need of its own pipes, and starts the
\* program.
exec(c) ==
    /\ proc[c] = "forked"
    /\ proc' = [proc EXCEPT ![c] = "running"]
    /\ writers' = [writers EXCEPT ![c]["in"] = @ \ {c}]
    /\ UNCHANGED <<m_pid, m_fds, pid, strangers, data, pc, made, readVars, historyVars>>

\* The program ends, or chdir or exec has failed; its descriptors are closed.
Exit(c) ==
    /\ proc[c] \in {"forked", "running"}
    /\ proc' = [proc EXCEPT ![c] = "zombie"]
    /\ writers' = [d \in Children |-> [p \in Pipes |-> writers[d][p] \ {c}]]
    /\ during' = [d \in Children |-> during[d] \ {c}]
    /\ UNCHANGED <<m_pid, m_fds, pid, strangers, data, pc, made, readVars, toldGone,
                   staleUse, stolen>>

\* The child writes to stdout or stderr, or reads its stdin.
ChildWrites(c, p) ==
    /\ proc[c] = "running"
    /\ p # "in"
    /\ data[c][p] < MaxData
    /\ data' = [data EXCEPT ![c][p] = @ + 1]
    /\ UNCHANGED <<m_pid, m_fds, proc, pid, strangers, writers, pc, made,
                   readVars, historyVars>>

ChildReads(c) ==
    /\ proc[c] = "running"
    /\ data[c]["in"] > 0
    /\ data' = [data EXCEPT ![c]["in"] = @ - 1]
    /\ UNCHANGED <<m_pid, m_fds, proc, pid, strangers, writers, pc, made,
                   readVars, historyVars>>

\* Processes the objects know nothing of.
StrangerStarts(p) ==
    /\ p \notin UsedPids
    /\ strangers' = strangers \cup {p}
    /\ UNCHANGED <<m_pid, m_fds, proc, pid, pipeVars, pc, made, readVars, historyVars>>

StrangerEnds(p) ==
    /\ p \in strangers
    /\ strangers' = strangers \ {p}
    /\ UNCHANGED <<m_pid, m_fds, proc, pid, pipeVars, pc, made, readVars, historyVars>>

-----------------------------------------------------------------------------
(* is_running() and terminate().                                           *)

\* waitpid for the pid of an object takes the child that has it, whoever's it is.
reap(o) ==
    LET taken == {c \in ChildOf(m_pid[o]) : proc[c] = "zombie"} IN
    /\ proc' = [c \in Children |-> IF c \in taken THEN "gone" ELSE proc[c]]
    /\ stolen' = stolen \cup (taken \ {m_fds[o]})

\* waitpid with WNOHANG; the pid stays.
is_running(o) ==
    /\ pc[o] = "idle"
    /\ m_pid[o] # -1
    /\ reap(o)
    /\ toldGone' = [toldGone EXCEPT ![o] =
            @ \/ ~\E c \in ChildOf(m_pid[o]) : proc[c] \in {"forked", "running"}]
    /\ staleUse' = (staleUse \/ toldGone[o])
    /\ UNCHANGED <<m_pid, m_fds, pid, strangers, pipeVars, pc, made, readVars,
                   during>>

\* kill; it fails when there is no such process.  The signal ends the child
\* or is ignored by it, both of which it may do at any time.
kill(o) ==
    /\ pc[o] = "idle"
    /\ m_pid[o] \in UsedPids
    /\ pc' = [pc EXCEPT ![o] = "wait"]
    /\ staleUse' = (staleUse \/ toldGone[o])
    /\ UNCHANGED <<m_pid, m_fds, proc, pid, strangers, pipeVars, made, readVars,
                   toldGone, stolen, during>>

\* waitpid, which fails at once for a process that is not a child, and without
\* having waited when a signal interrupts it.
Wait(o) ==
    /\ pc[o] = "wait"
    /\ \/ /\ \A c \in ChildOf(m_pid[o]) : proc[c] = "zombie"
          /\ reap(o)
       \/ UNCHANGED <<proc, stolen>>
    /\ pc' = [pc EXCEPT ![o] = "idle"]

\* A wrong end that leaves the object its pid.
terminateKeepingPid(o) ==
    /\ Wait(o)
    /\ m_fds' = [m_fds EXCEPT ![o] = -1]
    /\ UNCHANGED <<m_pid, pid, strangers, pipeVars, made, readVars, toldGone,
                   staleUse, during>>

\* Whatever waitpid returned, the object forgets the child, and its descriptors
\* without closing them.
terminate(o) ==
    /\ Wait(o)
    /\ m_pid' = [m_pid EXCEPT ![o] = -1]
    /\ m_fds' = [m_fds EXCEPT ![o] = -1]
    /\ toldGone' = [toldGone EXCEPT ![o] = FALSE]
    /\ UNCHANGED <<pid, strangers, pipeVars, made, readVars, staleUse, during>>

-----------------------------------------------------------------------------
(* The streams.                                                            *)

\* As much as fits; without a reader the write fails.
write(o) ==
    /\ pc[o] = "idle"
    /\ m_fds[o] # -1
    /\ proc[m_fds[o]] \in {"forked", "running"}
    /\ data[m_fds[o]]["in"] < MaxData
    /\ data' = [data EXCEPT ![m_fds[o]]["in"] = @ + 1]
    /\ UNCHANGED <<m_pid, m_fds, proc, pid, strangers, writers, pc, made,
                   readVars, historyVars>>

read(o, p, n) ==
    /\ pc[o] = "idle"
    /\ m_fds[o] # -1
    /\ p # "in"
    /\ pc' = [pc EXCEPT ![o] = "read"]
    /\ fd' = [fd EXCEPT ![o] = p]
    /\ want' = [want EXCEPT ![o] = n]
    /\ UNCHANGED <<m_pid, m_fds, proc, pid, strangers, pipeVars, made,
                   historyVars>>

\* One round of the loop, which is left when enough was read.
ReadSome(o, n) ==
    /\ pc[o] = "read"
    /\ n <= want[o]
    /\ n <= data[m_fds[o]][fd[o]]
    /\ data' = [data EXCEPT ![m_fds[o]][fd[o]] = @ - n]
    /\ want' = [want EXCEPT ![o] = @ - n]
    /\ pc' = [pc EXCEPT ![o] = IF want'[o] = 0 THEN "idle" ELSE "read"]
    /\ fd' = [fd EXCEPT ![o] = IF want'[o] = 0 THEN "out" ELSE @]
    /\ UNCHANGED <<m_pid, m_fds, proc, pid, strangers, writers, made, historyVars>>

\* The end of the file: the pipe is empty and nobody has its write end.
ReadEof(o) ==
    /\ pc[o] = "read"
    /\ data[m_fds[o]][fd[o]] = 0
    /\ writers[m_fds[o]][fd[o]] = {}
    /\ want' = [want EXCEPT ![o] = 0]
    /\ pc' = [pc EXCEPT ![o] = "idle"]
    /\ fd' = [fd EXCEPT ![o] = "out"]
    /\ UNCHANGED <<m_pid, m_fds, proc, pid, strangers, pipeVars, made,
                   historyVars>>

\* Takes what is there, without waiting.
peek(o, p) ==
    /\ pc[o] = "idle"
    /\ m_fds[o] # -1
    /\ p # "in"
    /\ data' = [data EXCEPT ![m_fds[o]][p] = 0]
    /\ UNCHANGED <<m_pid, m_fds, proc, pid, strangers, writers, pc, made,
                   readVars, historyVars>>

-----------------------------------------------------------------------------
Next ==
    \/ \E o \in Objects :
        \/ run(o) \/ MakePipe(o) \/ RunFails(o)
        \/ \E p \in Pids : fork(o, p)
        \/ CloseChildEnds(o) \/ is_running(o) \/ kill(o) \/ terminate(o)
        \/ write(o) \/ ReadEof(o)
        \/ \E p \in Pipes, n \in 1..MaxRead : read(o, p, n)
        \/ \E n \in 1..MaxRead : ReadSome(o, n)
        \/ \E p \in Pipes : peek(o, p)
    \/ \E c \in Children : exec(c) \/ Exit(c) \/ ChildReads(c)
    \/ \E c \in Children, p \in Pipes : ChildWrites(c, p)
    \/ \E p \in Pids : StrangerStarts(p) \/ StrangerEnds(p)

Spec == Init /\ [][Next]_vars

-----------------------------------------------------------------------------
(* Properties.                                                             *)

\* An object that has a pid has that of its own child, which is there to be
\* signalled and waited for, unless is_running() has told it that the child is
\* gone or another object's waitpid has taken the child.  And no object takes
\* another one's child before some object has used its pid again after it was
\* told.  This is so although run() forgets a child the object still had, and
\* terminate() one that it could not wait for.
PidsMatchChildren ==
    /\ \A o \in Objects : m_pid[o] # -1 =>
        m_fds[o] \in ChildOf(m_pid[o]) \cup stolen \/ toldGone[o]
    /\ stolen # {} => staleUse

\* What a reader of stdout waits for lives, and is the object's own child or
\* one that another object forked while the run() that started this one was in
\* progress: such a child has inherited the write end of the pipe.  So read()
\* comes to the end of the file when the child ends, unless calls of run()
\* overlapped, and then when the other child has ended too.  (Of stderr this
\* is not true: the parent itself keeps the write end.)
ReadOfStdoutEnds ==
    \A o \in Objects : pc[o] = "read" /\ fd[o] = "out" =>
        \A w \in writers[m_fds[o]]["out"] :
            /\ w \in {m_fds[o]} \cup during[m_fds[o]]
            /\ proc[w] \in {"forked", "running"}

-----------------------------------------------------------------------------
(* What the two rest on.                                                   *)

\* Bounds are numbers, and -1 is no process.
SubprocessAssumption ==
    /\ MaxChildren \in Nat /\ MaxData \in Nat /\ MaxRead \in Nat
    /\ -1 \notin Pids

\* No two children that can be waited for have the same pid.
PidsAreUnique ==
    \A c \in Children : Exists(c) =>
        /\ pid[c] \in Pids
        /\ \A d \in Children : Exists(d) /\ pid[d] = pid[c] => d = c

\* The pipes of an object, and those it is making, were made for a child, and
\* are its alone.
PipesAreOwn ==
    \A o \in Objects :
        /\ pc[o] = "read" => m_fds[o] # -1
        /\ pc[o] = "wait" => m_pid[o] # -1
        /\ pc[o] \in {"out", "err", "fork"} =>
               made[o] # -1 /\ proc[made[o]] = "pipes"
        /\ pc[o] = "forked" =>
               /\ made[o] # -1 /\ proc[made[o]] \notin {"none", "pipes"}
               /\ Exists(made[o]) \/ made[o] \in stolen
        /\ pc[o] \in {"idle", "read", "wait"} => made[o] = -1
        /\ made[o] # -1 => proc[made[o]] # "none"
        /\ m_fds[o] # -1 => proc[m_fds[o]] \notin {"none", "pipes"}
        /\ \A u \in Objects :
               /\ m_fds[o] # -1 => m_fds[o] # made[u]
               /\ u # o /\ m_fds[o] # -1 => m_fds[u] # m_fds[o]
               /\ u # o /\ made[o] # -1 => made[u] # made[o]

\* terminate() waits with a pid that was not told to be gone before kill().
NotReapedTwice ==
    ~staleUse => \A o \in Objects : pc[o] = "wait" => ~toldGone[o]

\* Who has the write end of a pipe lives or is the parent, which has that of
\* an object's stdout only until run() returns; others have it only if they
\* were forked during that run().
WritersLive ==
    /\ \A c \in Children, p \in Pipes, w \in Children :
        w \in writers[c][p] => proc[w] \in {"forked", "running"}
    /\ \A o \in Objects :
        /\ m_fds[o] # -1 =>
            writers[m_fds[o]]["out"] \subseteq {m_fds[o]} \cup during[m_fds[o]]
        /\ made[o] # -1 =>
            writers[made[o]]["out"] \subseteq {Parent, made[o]} \cup during[made[o]]

Inductive ==
    /\ PidsAreUnique
    /\ PipesAreOwn
    /\ NotReapedTwice
    /\ WritersLive
    /\ PidsMatchChildren

=============================================================================
