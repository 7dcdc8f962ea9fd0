-------------------------- MODULE SubprocessProofs --------------------------
(***************************************************************************)
(* Proofs about Subprocess for any objects and pids and any bounds: the    *)
(* pid of an object is that of its child until the object is told that the *)
(* child is gone or is robbed of it, and a reader of stdout waits only for *)
(* processes that live and were forked in time to have inherited the pipe. *)
(***************************************************************************)
EXTENDS Subprocess, TLAPS

LEMMA InitialState ==
    ASSUME SubprocessAssumption, Init
    PROVE  TypeOK /\ Inductive
<1> USE DEF SubprocessAssumption, Init
<1>1. TypeOK
    <2>1. "out" \in Pipes /\ 0 \in 0..MaxData /\ 0 \in 0..MaxRead
        BY DEF Pipes
    <2>2. QED
        BY <2>1 DEF TypeOK
<1>2. Inductive
    BY DEF Inductive, PidsAreUnique, PipesAreOwn, NotReapedTwice, WritersLive,
           PidsMatchChildren, Exists, Pipes
<1>3. QED
    BY <1>1, <1>2

\* The parts of the type invariant that steps disturb.
LEMMA TypeStep ==
    ASSUME SubprocessAssumption, TypeOK, Inductive, [Next]_vars
    PROVE  TypeOK'
<1> USE DEF TypeOK, pipeVars, readVars, historyVars
<1>0. /\ MaxData \in Nat /\ MaxRead \in Nat /\ -1 \notin Pids
      /\ Children \subseteq Processes /\ Parent \in Processes
      /\ Pipes = {"in", "out", "err"}
      /\ -1 \notin Children
      /\ 0 \in 0..MaxData /\ 0 \in 0..MaxRead
    BY DEF SubprocessAssumption, Children, Processes, Parent, Pipes
<1>1. ASSUME NEW o \in Objects, run(o) PROVE TypeOK'
    BY <1>0, <1>1 DEF run
<1>2. ASSUME NEW o \in Objects, MakePipe(o) \/ RunFails(o) PROVE TypeOK'
    <2>1. made[o] \in Children
        BY <1>2 DEF MakePipe, RunFails, Inductive, PipesAreOwn
    <2>2. {Parent} \in SUBSET Processes
        BY <1>0
    <2>3. CASE MakePipe(o)
        <3>1. pc[o] \in Pipes /\ writers[made[o]] \in [Pipes -> SUBSET Processes]
            BY <1>0, <2>1, <2>3 DEF MakePipe
        <3>2. writers' \in [Children -> [Pipes -> SUBSET Processes]]
            BY <2>1, <2>2, <2>3, <3>1 DEF MakePipe
        <3>3. QED
            BY <2>3, <3>2 DEF MakePipe
    <2>4. CASE RunFails(o)
        BY <1>0, <2>1, <2>4 DEF RunFails
    <2>5. QED
        BY <1>2, <2>3, <2>4
<1>3. ASSUME NEW o \in Objects, NEW p \in Pids, fork(o, p) PROVE TypeOK'
    <2>1. made[o] \in Children
        BY <1>3 DEF fork, Inductive, PipesAreOwn
    <2>2. writers' \in [Children -> [Pipes -> SUBSET Processes]]
        BY <1>0, <1>3, <2>1 DEF fork
    <2>3. during' \in [Children -> SUBSET Children]
        BY <1>3, <2>1 DEF fork
    <2>4. QED
        BY <1>3, <2>1, <2>2, <2>3 DEF fork
<1>4. ASSUME NEW o \in Objects, CloseChildEnds(o) PROVE TypeOK'
    <2>1. /\ made[o] \in Children
          /\ pid[made[o]] \in Pids \cup {-1}
        BY <1>4 DEF CloseChildEnds, Assign, Inductive, PipesAreOwn
    <2>2. writers[made[o]]["out"] \ {Parent} \in SUBSET Processes
        BY <1>0, <2>1
    <2>3. QED
        BY <1>0, <1>4, <2>1, <2>2 DEF CloseChildEnds, Assign
<1>5. ASSUME NEW o \in Objects, is_running(o) \/ kill(o) \/ terminate(o)
      PROVE  TypeOK'
    <2>1. /\ reap(o) => /\ stolen' \in SUBSET Children
                        /\ proc' \in [Children -> {"none", "pipes", "forked",
                                       "running", "zombie", "gone"}]
        BY DEF reap, ChildOf
    <2>2. staleUse' \in BOOLEAN
        BY <1>5 DEF is_running, kill, terminate
    <2>3. CASE is_running(o)
        BY <2>1, <2>2, <2>3 DEF is_running
    <2>4. CASE kill(o)
        BY <2>2, <2>4 DEF kill
    <2>5. CASE terminate(o)
        BY <2>1, <2>2, <2>5 DEF terminate, Wait
    <2>6. QED
        BY <1>5, <2>3, <2>4, <2>5
<1>6. ASSUME NEW o \in Objects, write(o)
      PROVE  TypeOK'
    <2>1. data[m_fds[o]]["in"] + 1 \in 0..MaxData
        BY <1>0, <1>6 DEF write
    <2>2. QED
        BY <1>0, <1>6, <2>1 DEF write
<1>7. ASSUME NEW o \in Objects, NEW p \in Pipes, NEW n \in 1..MaxRead,
             read(o, p, n)
      PROVE  TypeOK'
    BY <1>0, <1>7 DEF read
<1>8. ASSUME NEW o \in Objects, NEW n \in 1..MaxRead, ReadSome(o, n)
      PROVE  TypeOK'
    <2>1. m_fds[o] \in Children
        BY <1>8 DEF ReadSome, Inductive, PipesAreOwn
    <2>2. /\ data[m_fds[o]][fd[o]] - n \in 0..MaxData
          /\ want[o] - n \in 0..MaxRead
        BY <1>0, <1>8, <2>1 DEF ReadSome
    <2>3. data' \in [Children -> [Pipes -> 0..MaxData]]
        BY <1>8, <2>1, <2>2 DEF ReadSome
    <2>4. want' \in [Objects -> 0..MaxRead] /\ fd' \in [Objects -> Pipes]
        BY <1>0, <1>8, <2>2 DEF ReadSome
    <2>5. pc' \in [Objects -> {"idle", "out", "err", "fork", "forked", "read", "wait"}]
        BY <1>8 DEF ReadSome
    <2>6. QED
        BY <1>8, <2>3, <2>4, <2>5 DEF ReadSome
<1>9. ASSUME NEW o \in Objects, ReadEof(o)
      PROVE  TypeOK'
    BY <1>0, <1>9 DEF ReadEof
<1>10. ASSUME NEW o \in Objects, NEW p \in Pipes, peek(o, p)
       PROVE  TypeOK'
    <2>1. data' \in [Children -> [Pipes -> 0..MaxData]]
        BY <1>0, <1>10 DEF peek
    <2>2. QED
        BY <1>10, <2>1 DEF peek
<1>11. ASSUME NEW c \in Children, exec(c)
       PROVE  TypeOK'
    <2>1. writers[c]["in"] \ {c} \in SUBSET Processes
        BY <1>0
    <2>2. QED
        BY <1>0, <1>11, <2>1 DEF exec
<1>12. ASSUME NEW c \in Children, Exit(c)
       PROVE  TypeOK'
    <2>1. writers' \in [Children -> [Pipes -> SUBSET Processes]]
        BY <1>12 DEF Exit
    <2>2. QED
        BY <1>12, <2>1 DEF Exit
<1>13. ASSUME NEW c \in Children, ChildReads(c)
       PROVE  TypeOK'
    <2>1. data[c]["in"] - 1 \in 0..MaxData
        BY <1>0, <1>13 DEF ChildReads
    <2>2. QED
        BY <1>0, <1>13, <2>1 DEF ChildReads
<1>14. ASSUME NEW c \in Children, NEW p \in Pipes, ChildWrites(c, p)
       PROVE  TypeOK'
    <2>1. data[c][p] + 1 \in 0..MaxData
        BY <1>0, <1>14 DEF ChildWrites
    <2>2. QED
        BY <1>0, <1>14, <2>1 DEF ChildWrites
<1>15. ASSUME NEW p \in Pids, StrangerStarts(p) \/ StrangerEnds(p)
       PROVE  TypeOK'
    BY <1>15 DEF StrangerStarts, StrangerEnds
<1>16. CASE UNCHANGED vars
    BY <1>16 DEF vars
<1>17. QED
    BY <1>1, <1>2, <1>3, <1>4, <1>5, <1>6, <1>7, <1>8, <1>9, <1>10, <1>11,
       <1>12, <1>13, <1>14, <1>15, <1>16 DEF Next

-----------------------------------------------------------------------------
(* Pids and children.                                                      *)

PidInv == PidsAreUnique /\ PipesAreOwn /\ NotReapedTwice /\ PidsMatchChildren

\* Steps that leave the pids alone and end no child for good keep them.
LEMMA PidsKept ==
    ASSUME TypeOK, PidInv,
           UNCHANGED <<m_pid, m_fds, pid, made, toldGone, staleUse, stolen>>,
           \A c \in Children : /\ Exists(c)' <=> Exists(c)
                               /\ proc[c] \in {"none", "pipes"} => proc'[c] = proc[c]
                               /\ proc'[c] \in {"none", "pipes"} => proc'[c] = proc[c],
           \A o \in Objects :
                /\ pc'[o] = "read" => m_fds[o] # -1
                /\ pc'[o] = "wait" => pc[o] = "wait"
                /\ pc'[o] = "forked" => pc[o] = "forked"
                /\ pc'[o] \in {"out", "err", "fork"} => pc[o] \in {"out", "err", "fork"}
                /\ pc'[o] \in {"idle", "read", "wait"} => pc[o] \in {"idle", "read", "wait"}
    PROVE  PidInv'
<1>1. PidsAreUnique'
    BY DEF PidInv, PidsAreUnique
<1>2. PipesAreOwn'
    BY DEF PidInv, PipesAreOwn, TypeOK
<1>3. NotReapedTwice'
    BY DEF PidInv, NotReapedTwice
<1>4. PidsMatchChildren'
    <2>1. \A p : ChildOf(p)' = ChildOf(p)
        BY DEF ChildOf
    <2>2. QED
        BY <2>1 DEF PidInv, PidsMatchChildren
<1>5. QED
    BY <1>1, <1>2, <1>3, <1>4 DEF PidInv

\* run() begins with a set of pipes that nobody has, and gives up its own.
LEMMA PidsRun ==
    ASSUME TypeOK, PidInv, NEW o \in Objects, run(o)
    PROVE  PidInv'
<1>1. PICK c \in Children : /\ proc[c] = "none"
                            /\ proc' = [proc EXCEPT ![c] = "pipes"]
                            /\ made' = [made EXCEPT ![o] = c]
    BY DEF run
<1>2. /\ UNCHANGED <<m_pid, m_fds, pid, toldGone, staleUse, stolen>>
      /\ pc' = [pc EXCEPT ![o] = "out"]
      /\ c # -1
    BY DEF run, historyVars, Children
<1>3. \A d \in Children : /\ Exists(d)' <=> Exists(d)
                          /\ d # c => proc'[d] = proc[d]
    BY <1>1 DEF TypeOK, Exists
<1>4. \A u \in Objects : m_fds[u] # c /\ made[u] # c
    BY <1>1, <1>2 DEF PidInv, PipesAreOwn
<1>5. PidsAreUnique'
    BY <1>2, <1>3 DEF PidInv, PidsAreUnique
<1>6. PipesAreOwn'
    <2>1. /\ pc'[o] = "out" /\ made'[o] = c /\ proc'[c] = "pipes"
          /\ \A u \in Objects \ {o} : pc'[u] = pc[u] /\ made'[u] = made[u]
        BY <1>1, <1>2 DEF TypeOK
    <2>2. QED
        BY <1>2, <1>3, <1>4, <2>1 DEF TypeOK, PidInv, PipesAreOwn
<1>7. NotReapedTwice'
    BY <1>2 DEF TypeOK, PidInv, NotReapedTwice
<1>8. PidsMatchChildren'
    BY <1>2, <1>3 DEF PidInv, PidsMatchChildren, ChildOf
<1>9. QED
    BY <1>5, <1>6, <1>7, <1>8 DEF PidInv

LEMMA PidsRunFails ==
    ASSUME TypeOK, PidInv, NEW o \in Objects, RunFails(o)
    PROVE  PidInv'
<1>1. /\ UNCHANGED <<m_pid, m_fds, pid, toldGone, staleUse, stolen>>
      /\ proc' = [proc EXCEPT ![made[o]] = "gone"]
      /\ pc' = [pc EXCEPT ![o] = "idle"]
      /\ made' = [made EXCEPT ![o] = -1]
      /\ made[o] # -1 /\ proc[made[o]] = "pipes"
    BY DEF RunFails, historyVars, PidInv, PipesAreOwn
<1>2. \A d \in Children : /\ Exists(d)' <=> Exists(d)
                          /\ d # made[o] => proc'[d] = proc[d]
    BY <1>1 DEF TypeOK, Exists
<1>3. PidsAreUnique'
    BY <1>1, <1>2 DEF PidInv, PidsAreUnique
<1>4. PipesAreOwn'
    <2>1. /\ pc'[o] = "idle" /\ made'[o] = -1
          /\ \A u \in Objects \ {o} : pc'[u] = pc[u] /\ made'[u] = made[u]
        BY <1>1 DEF TypeOK
    <2>2. \A u \in Objects : m_fds[u] # -1 => m_fds[u] # made[o]
        BY DEF PidInv, PipesAreOwn
    <2>3. QED
        BY <1>1, <1>2, <2>1, <2>2 DEF TypeOK, PidInv, PipesAreOwn
<1>5. NotReapedTwice'
    BY <1>1 DEF TypeOK, PidInv, NotReapedTwice
<1>6. PidsMatchChildren'
    BY <1>1, <1>2 DEF PidInv, PidsMatchChildren, ChildOf
<1>7. QED
    BY <1>3, <1>4, <1>5, <1>6 DEF PidInv

\* A new child has a pid that nobody else has.
LEMMA PidsFork ==
    ASSUME TypeOK, PidInv, NEW o \in Objects, NEW p \in Pids, fork(o, p)
    PROVE  PidInv'
<1> DEFINE c == made[o]
<1>1. /\ UNCHANGED <<m_pid, m_fds, made, toldGone, staleUse, stolen>>
      /\ proc' = [proc EXCEPT ![c] = "forked"]
      /\ pid' = [pid EXCEPT ![c] = p]
      /\ pc' = [pc EXCEPT ![o] = "forked"]
      /\ p \notin UsedPids
      /\ c \in Children /\ c # -1 /\ proc[c] = "pipes"
    BY DEF fork, PidInv, PipesAreOwn, TypeOK
<1>2. \A d \in Children : /\ Exists(d)' <=> Exists(d) \/ d = c
                          /\ d # c => pid'[d] = pid[d] /\ proc'[d] = proc[d]
                          /\ Exists(d) => d # c /\ pid[d] # p
    BY <1>1 DEF TypeOK, Exists, UsedPids
<1>3. pid'[c] = p /\ proc'[c] = "forked"
    BY <1>1 DEF TypeOK
<1>4. /\ pc'[o] = "forked"
      /\ \A u \in Objects \ {o} : pc'[u] = pc[u] /\ made[u] # c
    BY <1>1 DEF TypeOK, PidInv, PipesAreOwn
<1>5. \A u \in Objects : m_fds[u] # c
    BY <1>1 DEF PidInv, PipesAreOwn
<1> HIDE DEF c
<1>6. PidsAreUnique'
    BY <1>2, <1>3 DEF PidInv, PidsAreUnique
<1>7. PipesAreOwn'
    <2>1. made[o] = c
        BY DEF c
    <2>2. QED
        BY <1>1, <1>2, <1>3, <1>4, <1>5, <2>1 DEF TypeOK, PidInv, PipesAreOwn
<1>8. NotReapedTwice'
    BY <1>1, <1>4 DEF PidInv, NotReapedTwice
<1>9. PidsMatchChildren'
    BY <1>1, <1>2 DEF PidInv, PidsMatchChildren, ChildOf
<1>10. QED
    BY <1>6, <1>7, <1>8, <1>9 DEF PidInv

\* Nobody but a thief has ended the child that the object is given.
LEMMA PidsAssigned ==
    ASSUME TypeOK, PidInv, NEW o \in Objects, Assign(o)
    PROVE  PidInv'
<1>1. /\ pc[o] = "forked"
      /\ m_fds' = [m_fds EXCEPT ![o] = made[o]]
      /\ m_pid' = [m_pid EXCEPT ![o] = pid[made[o]]]
      /\ toldGone' = [toldGone EXCEPT ![o] = FALSE]
      /\ made' = [made EXCEPT ![o] = -1]
      /\ pc' = [pc EXCEPT ![o] = "idle"]
      /\ UNCHANGED <<proc, pid, staleUse, stolen>>
    BY DEF Assign
<1>2. /\ made[o] \in Children /\ made[o] # -1
      /\ proc[made[o]] \notin {"none", "pipes"}
      /\ Exists(made[o]) \/ made[o] \in stolen
      /\ \A u \in Objects : m_fds[u] # made[o]
    BY <1>1 DEF PidInv, PipesAreOwn, TypeOK
<1>3. /\ m_fds'[o] = made[o] /\ m_pid'[o] = pid[made[o]] /\ ~toldGone'[o]
      /\ made'[o] = -1 /\ pc'[o] = "idle"
      /\ \A u \in Objects \ {o} :
            /\ m_fds'[u] = m_fds[u] /\ m_pid'[u] = m_pid[u]
            /\ toldGone'[u] = toldGone[u] /\ made'[u] = made[u] /\ pc'[u] = pc[u]
    BY <1>1 DEF TypeOK
<1>4. \A d \in Children : Exists(d)' <=> Exists(d)
    BY <1>1 DEF Exists
<1>5. PidsAreUnique'
    BY <1>1, <1>4 DEF PidInv, PidsAreUnique
<1>6. PipesAreOwn'
    BY <1>1, <1>2, <1>3, <1>4 DEF TypeOK, PidInv, PipesAreOwn
<1>7. NotReapedTwice'
    BY <1>1, <1>3 DEF PidInv, NotReapedTwice
<1>8. PidsMatchChildren'
    BY <1>1, <1>2, <1>3, <1>4 DEF PidInv, PidsMatchChildren, ChildOf
<1>9. QED
    BY <1>5, <1>6, <1>7, <1>8 DEF PidInv

\* What waitpid for the pid of an object may change, also when it fails: it
\* takes a child that has ended and the pid, which is the object's own until
\* the object was told that it is gone, or robbed of it.
Takes(o) ==
    /\ \A c \in Children : proc'[c] # proc[c] =>
        /\ proc[c] = "zombie" /\ proc'[c] = "gone" /\ pid[c] = m_pid[o]
        /\ c \in stolen' \/ c = m_fds[o]
    /\ stolen \subseteq stolen'
    /\ stolen' # {} => staleUse \/ toldGone[o]

LEMMA ReapTakes ==
    ASSUME TypeOK, PidInv, NEW o \in Objects, m_pid[o] # -1,
           reap(o) \/ UNCHANGED <<proc, stolen>>
    PROVE  Takes(o)
<1>1. CASE UNCHANGED <<proc, stolen>>
    BY <1>1 DEF Takes, PidInv, PidsMatchChildren
<1>2. CASE reap(o)
    <2> DEFINE taken == {c \in ChildOf(m_pid[o]) : proc[c] = "zombie"}
    <2>1. /\ proc' = [c \in Children |-> IF c \in taken THEN "gone" ELSE proc[c]]
          /\ stolen' = stolen \cup (taken \ {m_fds[o]})
        BY <1>2 DEF reap
    <2>2. stolen' # {} => staleUse \/ toldGone[o]
        <3> SUFFICES ASSUME stolen = {}, ~toldGone[o], NEW c \in taken \ {m_fds[o]}
                     PROVE  FALSE
            BY <2>1 DEF PidInv, PidsMatchChildren
        <3>1. m_fds[o] \in ChildOf(m_pid[o]) /\ c \in ChildOf(m_pid[o])
            BY DEF PidInv, PidsMatchChildren
        <3>2. QED
            BY <3>1 DEF PidInv, PidsAreUnique, ChildOf
    <2>3. \A c \in Children : proc'[c] # proc[c] =>
            /\ proc[c] = "zombie" /\ proc'[c] = "gone" /\ pid[c] = m_pid[o]
            /\ c \in stolen' \/ c = m_fds[o]
        BY <2>1 DEF ChildOf
    <2>4. QED
        BY <2>1, <2>2, <2>3 DEF Takes
<1>3. QED
    BY <1>1, <1>2

\* What a waitpid leaves to the other objects.
LEMMA TakenFromOthers ==
    ASSUME TypeOK, PidInv, NEW o \in Objects, Takes(o), UNCHANGED <<pid, made>>
    PROVE  /\ PidsAreUnique'
           /\ \A c \in Children :
                /\ proc[c] \in {"none", "pipes"} => proc'[c] = proc[c]
                /\ proc'[c] \in {"none", "pipes"} => proc'[c] = proc[c]
           /\ \A u \in Objects : pc[u] = "forked" =>
                Exists(made[u])' \/ made[u] \in stolen'
           /\ \A u \in Objects \ {o} :
                /\ m_pid'[u] = m_pid[u] /\ m_pid[u] # -1
                /\ m_fds[u] \in ChildOf(m_pid[u]) \cup stolen
                => m_fds[u] \in ChildOf(m_pid[u])' \cup stolen'
<1>1. \A c \in Children : Exists(c)' => Exists(c)
    BY DEF Takes, Exists
<1>2. PidsAreUnique'
    BY <1>1 DEF PidInv, PidsAreUnique
<1>3. \A c \in Children : Exists(c) => Exists(c)' \/ c \in stolen' \/ c = m_fds[o]
    BY DEF Takes, Exists
<1>4. \A u \in Objects : pc[u] = "forked" => Exists(made[u])' \/ made[u] \in stolen'
    <2> SUFFICES ASSUME NEW u \in Objects, pc[u] = "forked", made[u] \notin stolen'
                 PROVE  Exists(made[u])'
        OBVIOUS
    <2>1. made[u] \in Children /\ Exists(made[u]) /\ made[u] # m_fds[o]
        BY DEF Takes, PidInv, PipesAreOwn, TypeOK
    <2>2. Exists(made[u])' <=> proc'[made[u]] \in {"forked", "running", "zombie"}
        BY DEF Exists
    <2>3. proc'[made[u]] = proc[made[u]]
        BY <2>1 DEF Takes
    <2>4. QED
        BY <2>1, <2>2, <2>3 DEF Exists
<1>5. ASSUME NEW u \in Objects \ {o}, m_pid[u] # -1, m_pid'[u] = m_pid[u],
             m_fds[u] \in ChildOf(m_pid[u]) \cup stolen
      PROVE  m_fds[u] \in ChildOf(m_pid[u])' \cup stolen'
    <2>1. CASE m_fds[u] \in stolen
        BY <2>1 DEF Takes
    <2>2. CASE m_fds[u] \in ChildOf(m_pid[u])
        <3>1. m_fds[u] \in Children /\ Exists(m_fds[u]) /\ pid[m_fds[u]] = m_pid[u]
            BY <2>2 DEF ChildOf
        <3>2. m_fds[u] # m_fds[o]
            BY <3>1 DEF PidInv, PipesAreOwn, Children
        <3>3. QED
            BY <1>3, <1>5, <3>1, <3>2 DEF ChildOf
    <2>3. QED
        BY <1>5, <2>1, <2>2
<1>6. \A c \in Children :
        /\ proc[c] \in {"none", "pipes"} => proc'[c] = proc[c]
        /\ proc'[c] \in {"none", "pipes"} => proc'[c] = proc[c]
    BY DEF Takes
<1>7. QED
    BY <1>2, <1>4, <1>5, <1>6

\* is_running() may reap the child: then the object is told that it is gone.
LEMMA PidsAsked ==
    ASSUME TypeOK, PidInv, NEW o \in Objects, is_running(o)
    PROVE  PidInv'
<1>1. /\ m_pid[o] # -1
      /\ reap(o)
      /\ staleUse' = (staleUse \/ toldGone[o])
      /\ toldGone' = [toldGone EXCEPT ![o] =
            @ \/ ~\E c \in ChildOf(m_pid[o]) : proc[c] \in {"forked", "running"}]
      /\ UNCHANGED <<m_pid, m_fds, pid, pc, made>>
      /\ pc[o] = "idle"
    BY DEF is_running
<1>2. Takes(o)
    BY <1>1, ReapTakes
<1>3. PidsAreUnique'
    BY <1>1, <1>2, TakenFromOthers
<1>4. PipesAreOwn'
    BY <1>1, <1>2, TakenFromOthers DEF PidInv, PipesAreOwn, TypeOK
<1>5. NotReapedTwice'
    BY <1>1 DEF PidInv, NotReapedTwice, TypeOK
<1>6. PidsMatchChildren'
    <2>1. stolen' # {} => staleUse'
        BY <1>1, <1>2 DEF Takes
    <2>2. ASSUME NEW u \in Objects \ {o}, m_pid[u] # -1, ~toldGone'[u]
          PROVE  m_fds[u] \in ChildOf(m_pid[u])' \cup stolen'
        <3>1. ~toldGone[u]
            BY <1>1, <2>2 DEF TypeOK
        <3>2. QED
            BY <1>1, <1>2, <2>2, <3>1, TakenFromOthers DEF PidInv, PidsMatchChildren
    <2>3. ASSUME ~toldGone'[o]
          PROVE  m_fds[o] \in ChildOf(m_pid[o])' \cup stolen'
        <3>1. ~toldGone[o]
            BY <1>1, <2>3 DEF TypeOK
        <3>2. PICK c \in ChildOf(m_pid[o]) : proc[c] \in {"forked", "running"}
            BY <1>1, <2>3 DEF TypeOK
        <3>3. CASE m_fds[o] \in stolen
            BY <1>2, <3>3 DEF Takes
        <3>4. CASE m_fds[o] \in ChildOf(m_pid[o])
            <4>1. m_fds[o] = c
                BY <3>2, <3>4 DEF PidInv, PidsAreUnique, ChildOf
            <4>2. proc'[c] = proc[c]
                BY <1>2, <3>2 DEF Takes, ChildOf
            <4>3. QED
                BY <1>1, <3>2, <4>1, <4>2 DEF ChildOf, Exists
        <3>5. QED
            BY <1>1, <3>1, <3>3, <3>4 DEF PidInv, PidsMatchChildren
    <2>4. QED
        BY <1>1, <2>1, <2>2, <2>3 DEF PidsMatchChildren
<1>7. QED
    BY <1>3, <1>4, <1>5, <1>6 DEF PidInv

\* kill() is sent to the object's own child, or to a pid known to be stale.
LEMMA PidsKilled ==
    ASSUME SubprocessAssumption, TypeOK, PidInv, NEW o \in Objects, kill(o)
    PROVE  PidInv'
<1>1. /\ m_pid[o] \in UsedPids
      /\ pc[o] = "idle"
      /\ pc' = [pc EXCEPT ![o] = "wait"]
      /\ staleUse' = (staleUse \/ toldGone[o])
      /\ UNCHANGED <<m_pid, m_fds, proc, pid, made, toldGone, stolen>>
    BY DEF kill
<1>2. m_pid[o] # -1
    BY <1>1 DEF UsedPids, PidInv, PidsAreUnique, TypeOK, SubprocessAssumption
<1>3. PidsAreUnique'
    BY <1>1 DEF PidInv, PidsAreUnique, Exists
<1>4. PipesAreOwn'
    BY <1>1, <1>2 DEF PidInv, PipesAreOwn, TypeOK, Exists
<1>5. NotReapedTwice'
    BY <1>1 DEF PidInv, NotReapedTwice, TypeOK
<1>6. PidsMatchChildren'
    BY <1>1 DEF PidInv, PidsMatchChildren, ChildOf, Exists
<1>7. QED
    BY <1>3, <1>4, <1>5, <1>6 DEF PidInv

\* terminate() forgets the child, waited for or not.
LEMMA PidsTerminated ==
    ASSUME TypeOK, PidInv, NEW o \in Objects, terminate(o)
    PROVE  PidInv'
<1>1. /\ pc[o] = "wait"
      /\ reap(o) \/ UNCHANGED <<proc, stolen>>
      /\ pc' = [pc EXCEPT ![o] = "idle"]
      /\ m_pid' = [m_pid EXCEPT ![o] = -1]
      /\ m_fds' = [m_fds EXCEPT ![o] = -1]
      /\ toldGone' = [toldGone EXCEPT ![o] = FALSE]
      /\ UNCHANGED <<pid, made, staleUse>>
    BY DEF terminate, Wait
<1>2. m_pid[o] # -1
    BY <1>1 DEF PidInv, PipesAreOwn
<1>3. Takes(o)
    BY <1>1, <1>2, ReapTakes
<1>4. PidsAreUnique'
    BY <1>1, <1>3, TakenFromOthers
<1>5. /\ m_fds'[o] = -1 /\ m_pid'[o] = -1 /\ pc'[o] = "idle"
      /\ \A u \in Objects \ {o} : /\ m_fds'[u] = m_fds[u] /\ m_pid'[u] = m_pid[u]
                                  /\ toldGone'[u] = toldGone[u] /\ pc'[u] = pc[u]
    BY <1>1 DEF TypeOK
<1>6. PipesAreOwn'
    BY <1>1, <1>3, <1>5, TakenFromOthers DEF PidInv, PipesAreOwn, TypeOK
<1>7. NotReapedTwice'
    BY <1>1, <1>5 DEF PidInv, NotReapedTwice
<1>8. PidsMatchChildren'
    <2>1. stolen' # {} => staleUse'
        BY <1>1, <1>3 DEF Takes, PidInv, NotReapedTwice
    <2>2. ASSUME NEW u \in Objects \ {o}, m_pid[u] # -1, ~toldGone[u]
          PROVE  m_fds[u] \in ChildOf(m_pid[u])' \cup stolen'
        BY <1>1, <1>3, <1>5, <2>2, TakenFromOthers DEF PidInv, PidsMatchChildren
    <2>3. QED
        BY <1>5, <2>1, <2>2 DEF PidsMatchChildren
<1>9. QED
    BY <1>4, <1>6, <1>7, <1>8 DEF PidInv

\* Every step keeps what is known of pids and children.
LEMMA PidsStep ==
    ASSUME SubprocessAssumption, TypeOK, PidInv, [Next]_vars
    PROVE  PidInv'
<1>1. ASSUME UNCHANGED <<m_pid, m_fds, pid, made, toldGone, staleUse, stolen, proc>>,
             \A o \in Objects :
                \/ pc'[o] = pc[o]
                \/ /\ pc[o] \in {"idle", "read"} /\ pc'[o] \in {"idle", "read"}
                   /\ m_fds[o] # -1
                \/ pc[o] \in {"out", "err"} /\ pc'[o] \in {"err", "fork"}
      PROVE  PidInv'
    <2>1. \A c \in Children : Exists(c)' <=> Exists(c)
        BY <1>1 DEF Exists
    <2>2. \A o \in Objects : pc[o] = "read" => m_fds[o] # -1
        BY DEF PidInv, PipesAreOwn
    <2>3. QED
        BY <1>1, <2>1, <2>2, PidsKept
<1>2. ASSUME NEW c \in Children, exec(c) \/ Exit(c)
      PROVE  PidInv'
    <2>1. UNCHANGED <<m_pid, m_fds, pid, made, toldGone, staleUse, stolen, pc>>
        BY <1>2 DEF exec, Exit, historyVars
    <2>2. \A d \in Children :
            /\ Exists(d)' <=> Exists(d)
            /\ proc[d] \in {"none", "pipes"} => proc'[d] = proc[d]
            /\ proc'[d] \in {"none", "pipes"} => proc'[d] = proc[d]
        BY <1>2 DEF TypeOK, exec, Exit, Exists
    <2>3. \A o \in Objects : pc[o] = "read" => m_fds[o] # -1
        BY DEF PidInv, PipesAreOwn
    <2>4. QED
        BY <2>1, <2>2, <2>3, PidsKept
<1>3. ASSUME NEW o \in Objects, MakePipe(o) \/ write(o) \/ ReadEof(o)
      PROVE  PidInv'
    <2>1. pc[o] = "read" => m_fds[o] # -1
        BY DEF PidInv, PipesAreOwn
    <2>2. QED
        BY <1>1, <1>3, <2>1 DEF TypeOK, MakePipe, write, ReadEof, historyVars
<1>4. ASSUME NEW o \in Objects, NEW p \in Pipes, NEW n \in 1..MaxRead,
             read(o, p, n)
      PROVE  PidInv'
    BY <1>1, <1>4 DEF TypeOK, read, historyVars
<1>5. ASSUME NEW o \in Objects, NEW n \in 1..MaxRead, ReadSome(o, n)
      PROVE  PidInv'
    <2>1. /\ pc[o] = "read"
          /\ pc' = [pc EXCEPT ![o] = IF want'[o] = 0 THEN "idle" ELSE "read"]
          /\ UNCHANGED <<m_pid, m_fds, pid, made, historyVars, proc>>
          /\ m_fds[o] # -1
        BY <1>5 DEF ReadSome, PidInv, PipesAreOwn
    <2>2. QED
        BY <1>1, <2>1 DEF TypeOK, historyVars
<1>6. ASSUME NEW o \in Objects, NEW p \in Pipes, peek(o, p)
      PROVE  PidInv'
    BY <1>1, <1>6 DEF peek, historyVars
<1>7. ASSUME NEW c \in Children, ChildReads(c)
      PROVE  PidInv'
    BY <1>1, <1>7 DEF ChildReads, historyVars
<1>8. ASSUME NEW c \in Children, NEW p \in Pipes, ChildWrites(c, p)
      PROVE  PidInv'
    BY <1>1, <1>8 DEF ChildWrites, historyVars
<1>9. ASSUME NEW p \in Pids, StrangerStarts(p) \/ StrangerEnds(p)
      PROVE  PidInv'
    BY <1>1, <1>9 DEF StrangerStarts, StrangerEnds, historyVars
<1>10. CASE UNCHANGED vars
    BY <1>1, <1>10 DEF vars
<1>11. ASSUME NEW o \in Objects, CloseChildEnds(o)
       PROVE  PidInv'
    BY <1>11, PidsAssigned DEF CloseChildEnds
<1>12. QED
    BY <1>2, <1>3, <1>4, <1>5, <1>6, <1>7, <1>8, <1>9, <1>10, <1>11, PidsRun,
       PidsRunFails, PidsFork, PidsAsked, PidsKilled, PidsTerminated DEF Next

-----------------------------------------------------------------------------
(* Pipes and those who can write to them.                                  *)

\* Steps after which nobody can write who could not before keep them.
LEMMA WritersKept ==
    ASSUME WritersLive,
           \A c \in Children, p \in Pipes : writers'[c][p] \subseteq writers[c][p],
           \A c \in Children : proc[c] \in {"forked", "running"} =>
                \/ proc'[c] \in {"forked", "running"}
                \/ \A d \in Children, p \in Pipes : c \notin writers'[d][p],
           \A o \in Objects :
                /\ m_fds'[o] \in {-1, m_fds[o]} /\ made'[o] \in {-1, made[o]}
                /\ m_fds'[o] # -1 => m_fds'[o] \in Children
                /\ made'[o] # -1 => made'[o] \in Children,
           UNCHANGED during
    PROVE  WritersLive'
<1>1. "out" \in Pipes
    BY DEF Pipes
<1>2. QED
    BY <1>1 DEF WritersLive

LEMMA WritersStep ==
    ASSUME SubprocessAssumption, TypeOK, PidInv, WritersLive, [Next]_vars
    PROVE  WritersLive'
<1> USE DEF pipeVars, readVars, historyVars
<1>0. /\ \A c \in Children : c # -1 /\ c # Parent
      /\ "out" \in Pipes /\ Pipes = {"in", "out", "err"}
      /\ \A o \in Objects : /\ m_fds[o] # -1 => m_fds[o] \in Children
                            /\ made[o] # -1 => made[o] \in Children
    BY DEF Children, Parent, Pipes, TypeOK
<1>1. ASSUME NEW o \in Objects, run(o)
      PROVE  WritersLive'
    <2>1. PICK c \in Children :
            /\ proc[c] = "none"
            /\ proc' = [proc EXCEPT ![c] = "pipes"]
            /\ made' = [made EXCEPT ![o] = c]
            /\ writers' = [writers EXCEPT ![c] =
                        [p \in Pipes |-> IF p = "in" THEN {Parent} ELSE {}]]
            /\ UNCHANGED <<m_fds, during>>
        BY <1>1 DEF run
    <2>2. \A u \in Objects : m_fds[u] # c /\ made[u] # c
        BY <1>0, <2>1 DEF PidInv, PipesAreOwn
    <2>3. ASSUME NEW d \in Children, NEW p \in Pipes, NEW w \in Children,
                 w \in writers'[d][p]
          PROVE  proc'[w] \in {"forked", "running"}
        <3>1. w \in writers[d][p]
            BY <1>0, <2>1, <2>3 DEF TypeOK
        <3>2. QED
            BY <2>1, <3>1 DEF TypeOK, WritersLive
    <2>4. /\ writers'[c]["out"] = {} /\ made'[o] = c
          /\ \A d \in Children \ {c} : writers'[d] = writers[d]
          /\ \A u \in Objects \ {o} : made'[u] = made[u]
        BY <1>0, <2>1 DEF TypeOK
    <2>5. QED
        BY <1>0, <2>1, <2>2, <2>3, <2>4 DEF WritersLive
<1>2. ASSUME NEW o \in Objects, MakePipe(o)
      PROVE  WritersLive'
    <2>1. /\ pc[o] \in Pipes
          /\ made[o] \in Children
          /\ writers' = [writers EXCEPT ![made[o]][pc[o]] = {Parent}]
          /\ UNCHANGED <<m_fds, made, proc, during>>
        BY <1>0, <1>2 DEF MakePipe, PidInv, PipesAreOwn
    <2>2. /\ \A d \in Children, p \in Pipes :
                \/ writers'[d][p] = writers[d][p]
                \/ d = made[o] /\ writers'[d][p] = {Parent}
        BY <2>1 DEF TypeOK
    <2>3. \A u \in Objects : m_fds[u] # made[o]
        BY <1>0, <2>1 DEF PidInv, PipesAreOwn
    <2>4. ASSUME NEW d \in Children, NEW q \in Pipes, NEW w \in Children,
                 w \in writers'[d][q]
          PROVE  proc'[w] \in {"forked", "running"}
        BY <1>0, <2>1, <2>2, <2>4 DEF WritersLive
    <2>5. ASSUME NEW u \in Objects, m_fds[u] # -1
          PROVE  writers'[m_fds[u]]["out"] \subseteq {m_fds[u]} \cup during[m_fds[u]]
        BY <1>0, <2>2, <2>3, <2>5 DEF WritersLive
    <2>6. ASSUME NEW u \in Objects, made[u] # -1
          PROVE  writers'[made[u]]["out"] \subseteq {Parent, made[u]} \cup during[made[u]]
        BY <1>0, <2>2, <2>6 DEF WritersLive
    <2>7. QED
        BY <2>1, <2>4, <2>5, <2>6 DEF WritersLive
<1>3. ASSUME NEW o \in Objects, RunFails(o)
      PROVE  WritersLive'
    <2>1. /\ made[o] \in Children /\ proc[made[o]] = "pipes"
          /\ proc' = [proc EXCEPT ![made[o]] = "gone"]
          /\ made' = [made EXCEPT ![o] = -1]
          /\ UNCHANGED <<writers, m_fds, during>>
        BY <1>0, <1>3 DEF RunFails, PidInv, PipesAreOwn
    <2>2. \A d \in Children : proc[d] \in {"forked", "running"} =>
            proc'[d] \in {"forked", "running"}
        BY <2>1 DEF TypeOK
    <2>3. \A u \in Objects : made'[u] \in {-1, made[u]}
        BY <2>1 DEF TypeOK
    <2>4. QED
        BY <1>0, <2>1, <2>2, <2>3, WritersKept
<1>4. ASSUME NEW o \in Objects, NEW p \in Pids, fork(o, p)
      PROVE  WritersLive'
    <2> DEFINE c == made[o]
    <2>1. /\ c \in Children
          /\ proc' = [proc EXCEPT ![c] = "forked"]
          /\ \A d \in Children, q \in Pipes :
                /\ Parent \in writers[d][q] => writers'[d][q] = writers[d][q] \cup {c}
                /\ Parent \notin writers[d][q] => writers'[d][q] = writers[d][q]
          /\ \A d \in Children :
                /\ during[d] \subseteq during'[d]
                /\ (\E u \in Objects \ {o} : made[u] = d) => c \in during'[d]
          /\ UNCHANGED <<m_fds, made>>
        BY <1>0, <1>4 DEF fork, PidInv, PipesAreOwn
    <2>2. /\ proc'[c] = "forked"
          /\ \A d \in Children \ {c} : proc'[d] = proc[d]
          /\ c = made[o]
        BY <2>1 DEF TypeOK
    <2> HIDE DEF c
    <2>3. ASSUME NEW d \in Children, NEW q \in Pipes, NEW w \in Children,
                 w \in writers'[d][q]
          PROVE  proc'[w] \in {"forked", "running"}
        BY <2>1, <2>2, <2>3 DEF WritersLive
    <2>4. ASSUME NEW u \in Objects, m_fds[u] # -1
          PROVE  writers'[m_fds[u]]["out"] \subseteq {m_fds[u]} \cup during'[m_fds[u]]
        <3>1. /\ m_fds[u] \in Children
              /\ writers[m_fds[u]]["out"] \subseteq {m_fds[u]} \cup during[m_fds[u]]
            BY <1>0, <2>4 DEF WritersLive
        <3>2. during[m_fds[u]] \in SUBSET Children
            BY <3>1 DEF TypeOK
        <3>3. Parent \notin writers[m_fds[u]]["out"]
            BY <1>0, <3>1, <3>2
        <3>4. QED
            BY <1>0, <2>1, <3>1, <3>3
    <2>5. ASSUME NEW u \in Objects, made[u] # -1
          PROVE  writers'[made[u]]["out"] \subseteq {Parent, made[u]} \cup during'[made[u]]
        <3>1. /\ made[u] \in Children
              /\ writers[made[u]]["out"] \subseteq {Parent, made[u]} \cup during[made[u]]
            BY <1>0, <2>5 DEF WritersLive
        <3>2. u = o \/ c \in during'[made[u]]
            BY <2>1, <3>1
        <3>3. QED
            BY <1>0, <2>1, <2>2, <3>1, <3>2
    <2>6. QED
        BY <2>1, <2>3, <2>4, <2>5 DEF WritersLive
<1>5. ASSUME NEW o \in Objects, CloseChildEnds(o)
      PROVE  WritersLive'
    <2>1. /\ made[o] \in Children
          /\ m_fds' = [m_fds EXCEPT ![o] = made[o]]
          /\ made' = [made EXCEPT ![o] = -1]
          /\ writers' = [writers EXCEPT ![made[o]]["out"] = @ \ {Parent}]
          /\ UNCHANGED <<proc, during>>
        BY <1>0, <1>5 DEF CloseChildEnds, Assign, PidInv, PipesAreOwn
    <2>2. /\ \A d \in Children, p \in Pipes : writers'[d][p] \subseteq writers[d][p]
          /\ writers'[made[o]]["out"] = writers[made[o]]["out"] \ {Parent}
        BY <1>0, <2>1 DEF TypeOK
    <2>3. /\ m_fds'[o] = made[o] /\ made'[o] = -1
          /\ \A u \in Objects \ {o} : m_fds'[u] = m_fds[u] /\ made'[u] = made[u]
        BY <2>1 DEF TypeOK
    <2>4. writers[made[o]]["out"] \subseteq {Parent, made[o]} \cup during[made[o]]
        BY <1>0, <2>1 DEF WritersLive
    <2>5. ASSUME NEW u \in Objects, m_fds'[u] # -1
          PROVE  writers'[m_fds'[u]]["out"] \subseteq {m_fds'[u]} \cup during[m_fds'[u]]
        <3>1. CASE u = o
            BY <2>2, <2>3, <2>4, <3>1
        <3>2. CASE u # o
            BY <1>0, <2>2, <2>3, <2>5, <3>2 DEF WritersLive
        <3>3. QED
            BY <3>1, <3>2
    <2>6. ASSUME NEW u \in Objects, made'[u] # -1
          PROVE  writers'[made'[u]]["out"] \subseteq
                    {Parent, made'[u]} \cup during[made'[u]]
        BY <1>0, <2>2, <2>3, <2>6 DEF WritersLive
    <2>7. QED
        BY <2>1, <2>2, <2>5, <2>6 DEF WritersLive
<1>6. ASSUME NEW c \in Children, exec(c)
      PROVE  WritersLive'
    <2>1. \A d \in Children, p \in Pipes : writers'[d][p] \subseteq writers[d][p]
        BY <1>6 DEF exec, TypeOK
    <2>2. \A d \in Children : proc[d] \in {"forked", "running"} =>
            proc'[d] \in {"forked", "running"}
        BY <1>6 DEF exec, TypeOK
    <2>3. UNCHANGED <<m_fds, made, during>>
        BY <1>6 DEF exec
    <2>4. QED
        BY <1>0, <2>1, <2>2, <2>3, WritersKept
<1>7. ASSUME NEW c \in Children, Exit(c)
      PROVE  WritersLive'
    <2>1. \A d \in Children, p \in Pipes : writers'[d][p] = writers[d][p] \ {c}
        BY <1>7 DEF Exit
    <2>2. \A d \in Children \ {c} : proc'[d] = proc[d]
        BY <1>7 DEF Exit, TypeOK
    <2>3. UNCHANGED <<m_fds, made>> /\ \A d \in Children : during'[d] = during[d] \ {c}
        BY <1>7 DEF Exit
    <2>4. ASSUME NEW d \in Children, NEW p \in Pipes, NEW w \in Children,
                 w \in writers'[d][p]
          PROVE  proc'[w] \in {"forked", "running"}
        BY <2>1, <2>2, <2>4 DEF WritersLive
    <2>5. ASSUME NEW o \in Objects
          PROVE  /\ m_fds[o] # -1 =>
                    writers'[m_fds[o]]["out"] \subseteq {m_fds[o]} \cup during'[m_fds[o]]
                 /\ made[o] # -1 =>
                    writers'[made[o]]["out"]
                        \subseteq {Parent, made[o]} \cup during'[made[o]]
        BY <1>0, <2>1, <2>3 DEF WritersLive
    <2>6. QED
        BY <2>3, <2>4, <2>5 DEF WritersLive
<1>8. ASSUME NEW o \in Objects, is_running(o) \/ terminate(o)
      PROVE  WritersLive'
    <2>1. /\ reap(o) \/ UNCHANGED proc
          /\ UNCHANGED <<writers, made, during>>
          /\ \A u \in Objects : m_fds'[u] \in {-1, m_fds[u]}
        BY <1>8 DEF is_running, terminate, Wait, TypeOK
    <2>2. \A c \in Children : proc[c] \in {"forked", "running"} => proc'[c] = proc[c]
        BY <2>1 DEF reap
    <2>3. QED
        BY <1>0, <2>1, <2>2, WritersKept
<1>9. ASSUME UNCHANGED <<writers, proc, m_fds, made, during>>
      PROVE  WritersLive'
    BY <1>0, <1>9, WritersKept
<1>10. ASSUME NEW o \in Objects, kill(o) \/ write(o) \/ ReadEof(o)
       PROVE  WritersLive'
    BY <1>9, <1>10 DEF kill, write, ReadEof
<1>11. ASSUME NEW o \in Objects, NEW p \in Pipes, NEW n \in 1..MaxRead,
             read(o, p, n)
       PROVE  WritersLive'
    BY <1>9, <1>11 DEF read
<1>12. ASSUME NEW o \in Objects, NEW n \in 1..MaxRead, ReadSome(o, n)
       PROVE  WritersLive'
    BY <1>9, <1>12 DEF ReadSome
<1>13. ASSUME NEW o \in Objects, NEW p \in Pipes, peek(o, p)
       PROVE  WritersLive'
    BY <1>9, <1>13 DEF peek
<1>14. ASSUME NEW c \in Children, ChildReads(c)
       PROVE  WritersLive'
    BY <1>9, <1>14 DEF ChildReads
<1>15. ASSUME NEW c \in Children, NEW p \in Pipes, ChildWrites(c, p)
       PROVE  WritersLive'
    BY <1>9, <1>15 DEF ChildWrites
<1>16. ASSUME NEW p \in Pids, StrangerStarts(p) \/ StrangerEnds(p)
       PROVE  WritersLive'
    BY <1>9, <1>16 DEF StrangerStarts, StrangerEnds
<1>17. CASE UNCHANGED vars
    BY <1>9, <1>17 DEF vars
<1>18. QED
    BY <1>1, <1>2, <1>3, <1>6, <1>7, <1>8, <1>10, <1>11, <1>12, <1>13, <1>14,
       <1>15, <1>16, <1>17, <1>4, <1>5 DEF Next

LEMMA StepKeepsInductive ==
    ASSUME SubprocessAssumption, TypeOK, Inductive, [Next]_vars
    PROVE  TypeOK' /\ Inductive'
<1>1. PidInv /\ WritersLive
    BY DEF Inductive, PidInv
<1>2. TypeOK'
    BY TypeStep
<1>3. PidInv'
    BY <1>1, PidsStep
<1>4. WritersLive'
    BY <1>1, WritersStep
<1>5. QED
    BY <1>2, <1>3, <1>4 DEF Inductive, PidInv

\* Who can still write to the stdout that an object reads is a process that
\* lives: the parent has closed its copy of the write end.
LEMMA ReadersHaveWriters ==
    ASSUME TypeOK, Inductive
    PROVE  ReadOfStdoutEnds
<1> SUFFICES ASSUME NEW o \in Objects, pc[o] = "read",
                    NEW w \in writers[m_fds[o]]["out"]
             PROVE  /\ w \in {m_fds[o]} \cup during[m_fds[o]]
                    /\ proc[w] \in {"forked", "running"}
    BY DEF ReadOfStdoutEnds
<1>1. m_fds[o] \in Children /\ m_fds[o] # -1 /\ "out" \in Pipes
    BY DEF Inductive, PipesAreOwn, TypeOK, Pipes
<1>2. w \in {m_fds[o]} \cup during[m_fds[o]]
    BY <1>1 DEF Inductive, WritersLive
<1>3. w \in Children
    BY <1>1, <1>2 DEF TypeOK
<1>4. QED
    BY <1>1, <1>2, <1>3 DEF Inductive, WritersLive

\* Whatever children come and go: pids are told apart, no pipes are shared,
\* and who can write to a pipe lives or is the parent that just made it.
THEOREM InductiveHolds ==
    ASSUME SubprocessAssumption
    PROVE  Spec => [](TypeOK /\ Inductive)
<1>1. Init => TypeOK /\ Inductive
    BY InitialState
<1>2. TypeOK /\ Inductive /\ [Next]_vars => (TypeOK /\ Inductive)'
    BY StepKeepsInductive
<1>3. QED
    BY <1>1, <1>2, PTL DEF Spec

=============================================================================
