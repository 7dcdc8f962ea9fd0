----------------------------- MODULE AioProofs -----------------------------
(***************************************************************************)
(* Proofs about Aio, for any set of descriptors, any number of calls to    *)
(* notify and cancel, and descriptor numbers reused or not.                *)
(***************************************************************************)
EXTENDS Aio, TLAPS

USE DEF sharedVars, Goto, BumpGen, MayCall

\* Every step keeps every variable in its range; the thread schedules only
\* pairs of a descriptor and a handler that notify has handed out.
THEOREM TypeCorrect == Spec => []TypeOK
<1>1. Init => TypeOK
    <2>1. 0 \in 0..MaxGen
        BY AioAssumption
    <2>2. QED
        BY <2>1 DEF Init, TypeOK, PCs, Events, Quiet
<1>2. TypeOK /\ [Next]_vars => TypeOK'
    <2> SUFFICES ASSUME TypeOK, [Next]_vars PROVE TypeOK'
        OBVIOUS
    <2> USE DEF TypeOK, PCs, Events
    <2>0. m_gen < MaxGen => m_gen + 1 \in 0..MaxGen
        BY AioAssumption
    <2>1. ASSUME NEW fd \in FDs, notify(fd) PROVE TypeOK'
        BY <2>0, <2>1 DEF notify
    <2>2. ASSUME NEW fd \in FDs, cancel(fd) PROVE TypeOK'
        BY <2>0, <2>2, AioAssumption DEF cancel
    <2>3. CASE Destroy
        BY <2>3 DEF Destroy
    <2>4. CASE Loop \/ CheckGen \/ Rebuild
        BY <2>4 DEF Loop, CheckGen, Rebuild, Registered
    <2>5. CASE Idle \/ PollFails \/ PollReturns \/ SkipEvents \/ CallsDone
        BY <2>5 DEF Idle, PollFails, PollReturns, SkipEvents, CallsDone, Quiet
    <2>6. CASE Schedule
        <3>1. \A fd \in Registered : <<fd, m_handlers[fd]>> \in FDs \X Handlers
            BY AioAssumption DEF Registered, Handlers
        <3>2. scheduled' \in SUBSET (FDs \X Handlers)
            BY <2>6, <3>1 DEF Schedule
        <3>3. m_handlers' \in [FDs -> 0..MaxGen]
            BY <2>6, AioAssumption DEF Schedule
        <3>4. QED
            BY <2>6, <3>2, <3>3 DEF Schedule, Quiet
    <2>7. ASSUME NEW c \in scheduled, Call(c) PROVE TypeOK'
        BY <2>7 DEF Call
    <2>8. CASE Return
        BY <2>8 DEF Return
    <2>9. ASSUME NEW fd \in FDs, Arrive(fd) \/ CloseFD(fd) \/ ReopenFD(fd)
          PROVE  TypeOK'
        BY <2>9 DEF Arrive, CloseFD, ReopenFD
    <2>10. CASE UNCHANGED vars
        BY <2>10 DEF vars
    <2>11. QED
        BY <2>1, <2>2, <2>3, <2>4, <2>5, <2>6, <2>7, <2>8, <2>9, <2>10
        DEF Next, Thread
<1>3. QED
    BY <1>1, <1>2, PTL DEF Spec

-----------------------------------------------------------------------------
(* PollSetInSync needs that the thread's generation is never ahead of the  *)
(* shared one.  AtMostOneLateCall needs that a handler has used up its     *)
(* late call only when it is neither stored nor scheduled any more, which  *)
(* in turn needs that no two descriptors share a registration.             *)

\* The part of the state that Inductive speaks of.
watched == <<m_handlers, m_gen, curgen, polls, scheduled, user, late>>

\* Inductive depends on the watched variables only.
LEMMA InductiveStutter == Inductive /\ UNCHANGED watched => Inductive'
BY DEF Inductive, PollSetInSync, OneOwner, Registered, watched

\* notify and cancel preserve Inductive: a new generation puts the thread out
\* of sync, and the new registration has never been called.
LEMMA InductiveUser ==
    ASSUME TypeOK, Inductive, NEW fd \in FDs, notify(fd) \/ cancel(fd)
    PROVE  Inductive'
<1> USE DEF TypeOK, Handlers
<1>0. /\ m_gen' = m_gen + 1 /\ m_gen' \in Handlers
      /\ m_gen' \in Int /\ 0 <= m_gen'
      /\ curgen' = curgen /\ scheduled' = scheduled /\ late' = late
      /\ m_handlers' = [m_handlers EXCEPT ![fd] = m_handlers'[fd]]
      /\ m_handlers'[fd] \in {0, m_gen'}
      /\ user' = [user EXCEPT ![fd] = m_handlers'[fd]]
    BY AioAssumption DEF notify, cancel
<1>1. curgen' < m_gen'
    BY <1>0, AioAssumption DEF Inductive
<1>2. PollSetInSync'
    BY <1>0, <1>1, AioAssumption DEF PollSetInSync
<1>3. \A f \in FDs : m_handlers'[f] # 0 => user'[f] # 0
    BY <1>0 DEF Inductive
<1>4. OneOwner'
    <2>1. OneOwner
        BY DEF Inductive
    <2>2. \A f \in FDs : m_handlers[f] \in Int /\ m_handlers[f] < m_gen'
        BY <1>0, <2>1, AioAssumption DEF OneOwner
    <2>3. \A c \in scheduled : c[2] \in Int /\ c[2] < m_gen' /\ c[2] # 0
        BY <1>0, <2>1, AioAssumption DEF OneOwner
    <2>4. \A f \in FDs : m_handlers'[f] = IF f = fd THEN m_handlers'[fd]
                                                   ELSE m_handlers[f]
        BY <1>0
    <2>5. \A f \in FDs : m_handlers'[f] <= m_gen'
        <3>1. m_handlers'[fd] <= m_gen'
            BY <1>0
        <3>2. SUFFICES ASSUME NEW f \in FDs, f # fd PROVE m_handlers'[f] <= m_gen'
            BY <3>1
        <3>3. m_handlers'[f] = m_handlers[f]
            BY <2>4, <3>2
        <3>4. m_handlers[f] \in Int /\ m_handlers[f] < m_gen' /\ m_gen' \in Int
            BY <1>0, <2>2
        <3>5. QED
            BY <3>3, <3>4
    <2>6. \A f, g \in FDs :
            m_handlers'[f] = m_handlers'[g] /\ m_handlers'[f] # 0 => f = g
        BY <1>0, <2>1, <2>2, <2>4 DEF OneOwner
    <2>7. \A f \in FDs, c \in scheduled : m_handlers'[f] = c[2] => f = c[1]
        BY <1>0, <2>1, <2>3, <2>4 DEF OneOwner
    <2>8. QED
        BY <1>0, <2>1, <2>3, <2>5, <2>6, <2>7 DEF OneOwner
<1>5. \A f \in FDs : m_handlers'[f] # 0 => late'[m_handlers'[f]] = 0
    <2>1. late[m_gen'] = 0
        BY <1>0, AioAssumption DEF Inductive
    <2>2. QED
        BY <1>0, <2>1 DEF Inductive
<1>6. \A h \in Handlers : h > m_gen' => late'[h] = 0
    BY <1>0, AioAssumption DEF Inductive
<1>7. QED
    BY <1>0, <1>1, <1>2, <1>3, <1>4, <1>5, <1>6, AioAssumption DEF Inductive

\* The thread's own steps preserve Inductive.
LEMMA InductiveThread ==
    ASSUME TypeOK, Inductive, Thread PROVE Inductive'
<1> USE DEF TypeOK
<1>1. CASE Loop \/ Idle \/ PollReturns \/ SkipEvents \/ Return \/ CallsDone
    BY <1>1, InductiveStutter
    DEF Loop, Idle, PollReturns, SkipEvents, Return, CallsDone, watched
<1>2. CASE CheckGen
    BY <1>2 DEF CheckGen, Inductive, PollSetInSync, OneOwner, Registered
<1>3. CASE Rebuild
    BY <1>3, AioAssumption
    DEF Rebuild, Inductive, PollSetInSync, OneOwner, Registered
<1>4. CASE Schedule
    <2>1. \A f \in FDs : m_handlers'[f] # 0 => m_handlers'[f] = m_handlers[f]
        BY <1>4 DEF Schedule
    <2>2. \A c \in scheduled' :
             /\ c[1] \in FDs
             /\ m_handlers[c[1]] # 0
             /\ c = <<c[1], m_handlers[c[1]]>>
        BY <1>4 DEF Schedule, Registered
    <2>3. Registered' \subseteq Registered
        BY <2>1 DEF Registered
    <2>4. PollSetInSync'
        BY <1>4, <2>3 DEF Schedule, Inductive, PollSetInSync
    <2>5. OneOwner'
        <3>1. m_gen' = m_gen /\ 0 <= m_gen
            BY <1>4, AioAssumption DEF Schedule
        <3>2. OneOwner
            BY DEF Inductive
        <3>3. \A f \in FDs : m_handlers'[f] = 0 \/ m_handlers'[f] = m_handlers[f]
            BY <2>1
        <3>4. \A f \in FDs : m_handlers'[f] <= m_gen
            BY <3>1, <3>2, <3>3 DEF OneOwner
        <3>5. \A c \in scheduled' : c[2] <= m_gen
            BY <2>2, <3>2 DEF OneOwner
        <3>6. \A f, g \in FDs :
                m_handlers'[f] = m_handlers'[g] /\ m_handlers'[f] # 0 => f = g
            BY <3>2, <3>3 DEF OneOwner
        <3>7. \A c, d \in scheduled' : c[2] = d[2] => c = d
            <4>1. SUFFICES ASSUME NEW c \in scheduled', NEW d \in scheduled',
                                  c[2] = d[2]
                           PROVE  c = d
                OBVIOUS
            <4>2. /\ c[1] \in FDs
                  /\ m_handlers[c[1]] # 0
                  /\ c = <<c[1], m_handlers[c[1]]>>
                BY <2>2
            <4>3. d[1] \in FDs /\ d = <<d[1], m_handlers[d[1]]>>
                BY <2>2
            <4>4. m_handlers[c[1]] = m_handlers[d[1]]
                BY <4>1, <4>2, <4>3
            <4>5. c[1] = d[1]
                BY <3>2, <4>2, <4>3, <4>4 DEF OneOwner
            <4>6. QED
                BY <4>2, <4>3, <4>5
        <3>8. \A f \in FDs, c \in scheduled' : m_handlers'[f] = c[2] => f = c[1]
            <4>1. SUFFICES ASSUME NEW f \in FDs, NEW c \in scheduled',
                                  m_handlers'[f] = c[2]
                           PROVE  f = c[1]
                OBVIOUS
            <4>2. c[1] \in FDs /\ m_handlers[c[1]] # 0 /\ c[2] = m_handlers[c[1]]
                BY <2>2
            <4>3. m_handlers[f] = m_handlers[c[1]]
                BY <2>1, <4>1, <4>2
            <4>4. QED
                BY <3>2, <4>2, <4>3 DEF OneOwner
        <3>9. QED
            BY <3>1, <3>4, <3>5, <3>6, <3>7, <3>8 DEF OneOwner
    <2>6. \A c \in scheduled' : late'[c[2]] = 0
        BY <1>4, <2>2 DEF Schedule, Inductive
    <2>7. QED
        BY <1>4, <2>1, <2>4, <2>5, <2>6 DEF Schedule, Inductive
<1>5. ASSUME NEW c \in scheduled, Call(c) PROVE Inductive'
    <2>1. c \in FDs \X Handlers /\ late[c[2]] = 0
        BY DEF Inductive
    <2>2. late' = [late EXCEPT ![c[2]] = late'[c[2]]] /\ late'[c[2]] \in {0, 1}
        BY <1>5, <2>1 DEF Call
    <2>3. \A f \in FDs : m_handlers[f] # 0 => late'[m_handlers[f]] = 0
        <3>1. SUFFICES ASSUME NEW f \in FDs, m_handlers[f] # 0
                       PROVE  late'[m_handlers[f]] = 0
            OBVIOUS
        <3>2. CASE m_handlers[f] = c[2]
            <4>1. f = c[1]
                BY <3>2 DEF Inductive, OneOwner
            <4>2. QED
                BY <1>5, <2>1, <3>2, <4>1 DEF Call
        <3>3. CASE m_handlers[f] # c[2]
            <4>1. m_handlers[f] \in Handlers /\ late[m_handlers[f]] = 0
                BY <3>1, AioAssumption DEF Inductive, Handlers
            <4>2. QED
                BY <2>2, <3>3, <4>1
        <3>4. QED
            BY <3>2, <3>3
    <2>4. \A d \in scheduled' : late'[d[2]] = 0
        <3>1. \A d \in scheduled' : d \in scheduled /\ d # c
            BY <1>5 DEF Call
        <3>2. \A d \in scheduled' : d[2] \in Handlers /\ d[2] # c[2]
            BY <3>1 DEF Inductive, OneOwner
        <3>3. QED
            BY <2>1, <2>2, <3>1, <3>2 DEF Inductive
    <2>5. \A h \in Handlers : h > m_gen => late'[h] = 0
        <3>1. \A h \in Handlers : h > m_gen => h # c[2]
            BY <2>1, AioAssumption DEF Inductive, OneOwner, Handlers
        <3>2. QED
            BY <2>2, <3>1 DEF Inductive
    <2>6. \A h \in Handlers : late'[h] <= 1
        <3>1. \A h \in Handlers : late[h] <= 1
            BY DEF Inductive
        <3>2. \A h \in Handlers : h # c[2] => late'[h] = late[h]
            BY <2>2
        <3>3. late'[c[2]] <= 1
            BY <2>2
        <3>4. QED
            BY <3>1, <3>2, <3>3
    <2>7. OneOwner' /\ PollSetInSync'
        BY <1>5 DEF Call, Inductive, OneOwner, PollSetInSync, Registered
    <2>8. QED
        BY <1>5, <2>3, <2>4, <2>5, <2>6, <2>7 DEF Call, Inductive
<1>6. QED
    BY <1>1, <1>2, <1>3, <1>4, <1>5 DEF Thread

\* Inductive is an invariant of the specification.
THEOREM InductiveHolds == Spec => []Inductive
<1>1. Init => Inductive
    BY AioAssumption
    DEF Init, Inductive, PollSetInSync, OneOwner, Registered, Handlers
<1>2. TypeOK /\ Inductive /\ [Next]_vars => Inductive'
    <2> SUFFICES ASSUME TypeOK, Inductive, [Next]_vars PROVE Inductive'
        OBVIOUS
    <2>1. ASSUME NEW fd \in FDs, notify(fd) \/ cancel(fd) PROVE Inductive'
        BY <2>1, InductiveUser
    <2>2. CASE Thread
        BY <2>2, InductiveThread
    <2>3. CASE Destroy \/ PollFails \/ UNCHANGED vars
        BY <2>3, InductiveStutter DEF Destroy, PollFails, watched, vars
    <2>4. ASSUME NEW fd \in FDs, Arrive(fd) \/ CloseFD(fd) \/ ReopenFD(fd)
          PROVE  Inductive'
        BY <2>4, InductiveStutter DEF Arrive, CloseFD, ReopenFD, watched
    <2>5. QED
        BY <2>1, <2>2, <2>3, <2>4 DEF Next
<1>3. QED
    BY <1>1, <1>2, TypeCorrect, PTL DEF Spec

\* The unlocked comparison of curgen and m_gen at line 41 is enough: a thread
\* that skips the rebuild polls every descriptor with a stored handler.
THEOREM NoRegistrationIsMissed == Spec => []PollSetInSync
<1>1. Inductive => PollSetInSync
    BY DEF Inductive
<1>2. QED
    BY <1>1, InductiveHolds, PTL

\* A handler is called at most once after cancel, a second notify or POLLNVAL
\* has removed it, however the calls interleave with the thread.
THEOREM CancelledHandlersStop == Spec => []AtMostOneLateCall
<1>1. Inductive => AtMostOneLateCall
    BY DEF Inductive, AtMostOneLateCall
<1>2. QED
    BY <1>1, InductiveHolds, PTL
=============================================================================
