--------------------------- MODULE WatchdogProofs ---------------------------
(***************************************************************************)
(* Proofs about Watchdog, for any set of tasks, any delays, any spin       *)
(* threshold and any bound on the clock.                                   *)
(***************************************************************************)
EXTENDS Watchdog, TLAPS

\* The actions, for steps that treat all of them alike.
USE DEF timeVars, userVars, workerVars, sharedVars, Goto, NotifyOne, Waiting, MayCall

\* Every step keeps every variable in its range: the clock and the deadlines
\* stay below MaxTime, the worker at one of its program points.
THEOREM TypeCorrect == Spec => []TypeOK
<1>1. Init => TypeOK
    <2>1. 0 \in 0..MaxTime
        BY WatchdogAssumption
    <2>2. QED
        BY <2>1 DEF Init, TypeOK, PCs
<1>2. TypeOK /\ [Next]_vars => TypeOK'
    <2> SUFFICES ASSUME TypeOK, [Next]_vars PROVE TypeOK'
        OBVIOUS
    <2> USE DEF TypeOK, PCs
    <2>1. ASSUME NEW t \in Tasks, NEW delta \in Deltas, schedule(t, delta)
          PROVE  TypeOK'
        <3>1. now + delta \in 0..MaxTime
            BY <2>1, WatchdogAssumption DEF schedule
        <3>2. QED
            BY <2>1, <3>1 DEF schedule
    <2>2. CASE cancel_all
        BY <2>2 DEF cancel_all
    <2>3. CASE Destroy
        BY <2>3 DEF Destroy
    <2>4. CASE Joined
        BY <2>4 DEF Joined
    <2>5. CASE LoopTerminate \/ LoopWait \/ LoopTimed
        BY <2>5 DEF LoopTerminate, LoopWait, LoopTimed
    <2>6. CASE WakeWait \/ SpinDone \/ WakeWaitUntil \/ TimeoutWaitUntil
        BY <2>6 DEF WakeWait, SpinDone, WakeWaitUntil, TimeoutWaitUntil
    <2>7. CASE Pop
        BY <2>7 DEF Pop
    <2>8. CASE TaskStart \/ TaskEnd \/ Drained
        BY <2>8 DEF TaskStart, TaskEnd, Drained
    <2>9. CASE SpuriousWakeup
        BY <2>9 DEF SpuriousWakeup
    <2>10. CASE Tick
        <3>1. now + 1 \in 0..MaxTime
            BY <2>10, WatchdogAssumption DEF Tick
        <3>2. QED
            BY <2>10, <3>1 DEF Tick
    <2>11. CASE UNCHANGED vars
        BY <2>11 DEF vars
    <2>12. QED
        BY <2>1, <2>2, <2>3, <2>4, <2>5, <2>6, <2>7, <2>8, <2>9, <2>10,
           <2>11
        DEF Next, Worker
<1>3. QED
    BY <1>1, <1>2, PTL DEF Spec

-----------------------------------------------------------------------------
(* NoLostWakeup and DueTasksRunBeforeDestroyed rest on Inductive: by itself *)
(* neither survives a step, because neither says why the worker cannot end  *)
(* before the destructor has been entered.                                  *)

\* A new watchdog, with an empty queue and a worker at the top of its loop,
\* satisfies the invariant.
LEMMA InductiveInit == Init => Inductive
BY WatchdogAssumption DEF Init, Inductive, NoLostWakeup, InFinalLoop

\* Every step of users, worker and clock preserves it.
LEMMA InductiveStep == TypeOK /\ Inductive /\ [Next]_vars => Inductive'
<1> SUFFICES ASSUME TypeOK, Inductive, [Next]_vars PROVE Inductive'
    OBVIOUS
<1> USE DEF Inductive, NoLostWakeup, InFinalLoop
<1>0. now \in Int /\ closed_at \in Int /\ \A t \in Tasks : timeout[t] \in Int
    BY WatchdogAssumption DEF TypeOK
<1>1. ASSUME NEW t \in Tasks, NEW delta \in Deltas, schedule(t, delta)
      PROVE  Inductive'
    BY <1>1 DEF schedule, TypeOK
<1>2. CASE cancel_all
    BY <1>2 DEF cancel_all, TypeOK
<1>3. CASE Destroy
    <2>1. closed_at' <= now'
        BY <1>0, <1>3 DEF Destroy
    <2>2. pc # "done" /\ pc' = pc
        BY <1>3 DEF Destroy
    <2>3. NoLostWakeup'
        BY <1>3 DEF Destroy, TypeOK
    <2>4. QED
        BY <1>3, <2>1, <2>2, <2>3 DEF Destroy
<1>4. CASE Joined
    BY <1>4 DEF Joined
<1>5. CASE LoopTerminate \/ LoopWait \/ LoopTimed
    BY <1>5 DEF LoopTerminate, LoopWait, LoopTimed, TypeOK
<1>6. CASE WakeWait \/ SpinDone \/ WakeWaitUntil \/ TimeoutWaitUntil
    BY <1>6 DEF WakeWait, SpinDone, WakeWaitUntil, TimeoutWaitUntil,
                WaitPredicate, TypeOK
<1>7. CASE Pop
    BY <1>7 DEF Pop
<1>8. CASE TaskStart \/ TaskEnd
    BY <1>8 DEF TaskStart, TaskEnd, TypeOK
<1>9. CASE Drained
    <2>1. \A t \in m_tasks : timeout[t] > closed_at
        BY <1>0, <1>9 DEF Drained, TypeOK
    <2>2. QED
        BY <1>9, <2>1 DEF Drained
<1>10. CASE SpuriousWakeup
    BY <1>10 DEF SpuriousWakeup
<1>11. CASE Tick
    BY <1>0, <1>11 DEF Tick
<1>12. CASE UNCHANGED vars
    BY <1>12 DEF vars
<1>13. QED
    BY <1>1, <1>2, <1>3, <1>4, <1>5, <1>6, <1>7, <1>8, <1>9, <1>10, <1>11,
       <1>12
    DEF Next, Worker

\* Inductive holds throughout, with the types it is stated over.
THEOREM InductiveHolds == Spec => []Inductive
<1>1. TypeOK /\ Inductive /\ [Next]_vars => Inductive'
    BY InductiveStep
<1>2. QED
    BY <1>1, TypeCorrect, InductiveInit, PTL DEF Spec

\* No notification is lost: a worker asleep with none on its way has nothing
\* to do (line 88) and has not been asked to stop (lines 88 and 103).
THEOREM WakeupsAreNotLost == Spec => []NoLostWakeup
<1>1. Inductive => NoLostWakeup
    BY DEF Inductive
<1>2. QED
    BY <1>1, InductiveHolds, PTL

\* When the destructor returns, every task that was due when it was entered
\* has been run (line 121).
THEOREM DueTasksAreDrained == Spec => []DueTasksRunBeforeDestroyed
<1>1. Inductive => DueTasksRunBeforeDestroyed
    BY DEF Inductive, DueTasksRunBeforeDestroyed
<1>2. QED
    BY <1>1, InductiveHolds, PTL

-----------------------------------------------------------------------------
(* LateOnlyBehindSleep alone is not inductive: it does not say that the      *)
(* worker has seen the whole queue when it reads the head for its sleep.     *)

LEMMA OnTimeStep ==
    TypeOK /\ NoLostWakeup /\ OnTimeOutsideSleep /\ [Next]_vars
        => OnTimeOutsideSleep'
<1> SUFFICES ASSUME TypeOK, NoLostWakeup, OnTimeOutsideSleep, [Next]_vars
             PROVE  OnTimeOutsideSleep'
    OBVIOUS
<1> USE DEF OnTimeOutsideSleep, LateOnlyBehindSleep
<1>0. /\ now \in Int /\ next_timeout \in Int
      /\ m_tasks \subseteq Tasks /\ timeout \in [Tasks -> Int]
      /\ \A t \in Tasks : timeout[t] \in Int
    BY WatchdogAssumption DEF TypeOK
<1>1. ASSUME NEW t \in Tasks, NEW delta \in Deltas, schedule(t, delta)
      PROVE  OnTimeOutsideSleep'
    <2>1. now <= now + delta
        BY <1>0, WatchdogAssumption
    <2>2. timeout'[t] = now + delta /\ \A u \in m_tasks : timeout'[u] = timeout[u]
        BY <1>0, <1>1 DEF schedule
    <2>3. QED
        BY <1>1, <2>1, <2>2 DEF schedule
<1>2. CASE cancel_all \/ Destroy \/ Joined
    BY <1>2 DEF cancel_all, Destroy, Joined
<1>3. CASE LoopTerminate \/ LoopWait
    BY <1>3 DEF LoopTerminate, LoopWait
<1>4. CASE LoopTimed
    BY <1>0, <1>4 DEF LoopTimed, IsTop
<1>5. CASE WakeWait \/ SpinDone \/ WakeWaitUntil \/ TimeoutWaitUntil
    BY <1>5 DEF WakeWait, SpinDone, WakeWaitUntil, TimeoutWaitUntil
<1>6. CASE Pop
    BY <1>6 DEF Pop
<1>7. CASE TaskStart \/ TaskEnd
    <2>1. pc' \notin {"loop", "wait"} /\ pc # "done"
        BY <1>7 DEF TaskStart, TaskEnd, TypeOK
    <2>2. QED
        BY <1>7, <2>1 DEF TaskStart, TaskEnd
<1>8. CASE Drained
    <2>1. \A t \in m_tasks : now <= timeout[t]
        BY <1>0, <1>8 DEF Drained
    <2>2. QED
        BY <1>8, <2>1 DEF Drained
<1>9. CASE SpuriousWakeup
    BY <1>9 DEF SpuriousWakeup
<1>10. CASE Tick
    <2> SUFFICES ASSUME ~slow', pc # "done"
                 PROVE  /\ \A t \in m_tasks : now' <= timeout[t] \/ now' <= next_timeout
                        /\ pc \in {"loop", "wait"} => m_tasks = {}
        BY <1>10 DEF Tick
    <2>1. WorkerParked /\ now' = now + 1
        BY <1>10 DEF Tick
    <2>2. CASE pc = "wait"
        BY <2>1, <2>2 DEF WorkerParked, NoLostWakeup
    <2>3. CASE pc # "wait"
        <3>1. now < next_timeout /\ pc \in {"wait_until", "spin"}
            BY <2>1, <2>3 DEF WorkerParked
        <3>2. now' <= next_timeout
            BY <1>0, <2>1, <3>1
        <3>3. QED
            BY <3>1, <3>2
    <2>4. QED
        BY <2>2, <2>3
<1>11. CASE UNCHANGED vars
    BY <1>11 DEF vars
<1>12. QED
    BY <1>1, <1>2, <1>3, <1>4, <1>5, <1>6, <1>7, <1>8, <1>9, <1>10, <1>11
    DEF Next, Worker

\* While the worker gets to run, a task is late only behind the sleep for an
\* older head of the queue (line 103), for any delays and any spin threshold.
THEOREM OnlyTheSleepDelays == Spec => []LateOnlyBehindSleep
<1>1. Init => OnTimeOutsideSleep
    BY DEF Init, OnTimeOutsideSleep, LateOnlyBehindSleep
<1>2. Inductive => NoLostWakeup
    BY DEF Inductive
<1>3. OnTimeOutsideSleep => LateOnlyBehindSleep
    BY DEF OnTimeOutsideSleep
<1>4. QED
    BY <1>1, <1>2, <1>3, TypeCorrect, InductiveHolds, OnTimeStep, PTL DEF Spec

-----------------------------------------------------------------------------
(* Refinement: every step of the watchdog is a step of DeferredCalls or     *)
(* leaves its state alone.                                                  *)

\* A new watchdog is a new service.
LEMMA RefinementInit == Init => Calls!Init
BY DEF Init, Calls!Init

\* schedule, cancel_all, Pop, the last Drained and Tick are steps of the
\* service; everything else it does not see.
LEMMA RefinementStep ==
    TypeOK /\ Inductive /\ [Next]_vars => [Calls!Next]_(Calls!vars)
<1> SUFFICES ASSUME TypeOK, Inductive, [Next]_vars
             PROVE  [Calls!Next]_(Calls!vars)
    OBVIOUS
<1> USE DEF Calls!vars
<1>0. ASSUME MayCall PROVE pc # "done"
    BY <1>0 DEF Inductive
<1>1. ASSUME NEW t \in Tasks, NEW delta \in Deltas, schedule(t, delta)
      PROVE  Calls!Submit(t, delta)
    BY <1>0, <1>1 DEF schedule, Calls!Submit
<1>2. ASSUME cancel_all PROVE Calls!CancelAll
    BY <1>0, <1>2 DEF cancel_all, Calls!CancelAll
<1>3. ASSUME Destroy \/ Joined \/ SpuriousWakeup PROVE UNCHANGED Calls!vars
    BY <1>3 DEF Destroy, Joined, SpuriousWakeup
<1>4. ASSUME LoopTerminate \/ LoopWait \/ LoopTimed
      PROVE  UNCHANGED Calls!vars
    BY <1>4 DEF LoopTerminate, LoopWait, LoopTimed
<1>5. ASSUME WakeWait \/ SpinDone \/ WakeWaitUntil \/ TimeoutWaitUntil
      PROVE  UNCHANGED Calls!vars
    BY <1>5 DEF WakeWait, SpinDone, WakeWaitUntil, TimeoutWaitUntil
<1>6. ASSUME Pop PROVE \E t \in Tasks : Calls!Fire(t)
    BY <1>6 DEF Pop, IsTop, Calls!Fire, TypeOK
<1>7. ASSUME TaskStart \/ TaskEnd PROVE UNCHANGED Calls!vars
    BY <1>7 DEF TaskStart, TaskEnd, TypeOK
<1>8. ASSUME Drained PROVE UNCHANGED Calls!vars \/ Calls!ShutDown
    BY <1>8 DEF Drained, Calls!ShutDown
<1>9. ASSUME Tick PROVE Calls!Advance
    BY <1>9 DEF Tick, Calls!Advance
<1>10. ASSUME UNCHANGED vars PROVE UNCHANGED Calls!vars
    BY <1>10 DEF vars
<1>11. QED
    BY <1>1, <1>2, <1>3, <1>4, <1>5, <1>6, <1>7, <1>8, <1>9, <1>10
    DEF Next, Worker, Calls!Next

\* The watchdog implements the service of DeferredCalls.
THEOREM WatchdogImplementsDeferredCalls == Spec => ImplementsDeferredCalls
<1>1. TypeOK /\ Inductive /\ [Next]_vars => [Calls!Next]_(Calls!vars)
    BY RefinementStep
<1>2. QED
    BY <1>1, TypeCorrect, InductiveHolds, RefinementInit, PTL
    DEF Spec, ImplementsDeferredCalls, Calls!Spec
=============================================================================
