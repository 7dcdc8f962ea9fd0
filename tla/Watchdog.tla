------------------------------ MODULE Watchdog ------------------------------
(***************************************************************************)
(* mwr::watchdog: a worker thread that runs tasks at or after a deadline.  *)
(* Users (and tasks, from the worker itself) call schedule and cancel_all; *)
(* the destructor sets m_terminate and joins the worker.                   *)
(*                                                                         *)
(* Every shared variable is accessed under m_mtx, so one action is one     *)
(* critical section: it starts where the lock is taken (or where the       *)
(* condition variable hands it back) and ends where the lock is released   *)
(* (unlock, or the start of a wait).  The places where the worker runs     *)
(* without the lock are program points of their own: "wait", "wait_until", *)
(* "spin", "popped" and "task".                                            *)
(***************************************************************************)
EXTENDS Integers

CONSTANTS
    Tasks,      \* the std::function objects users may schedule
    Deltas,     \* the delays passed to schedule
    Threshold,  \* deltas up to this long are spun, longer ones are slept
    MaxTime,    \* bound on the clock
    NoTask

ASSUME WatchdogAssumption ==
    /\ Deltas \subseteq Nat
    /\ Threshold \in Nat
    /\ MaxTime \in Nat
    /\ NoTask \notin Tasks

VARIABLES
    now,          \* clock_t::now()
    slow,         \* history: has time passed while the worker could run?
    m_tasks,      \* the tasks in the priority queue
    timeout,      \* task::timeout, of every task ever scheduled
    m_terminate,
    pc,           \* where the worker is
    next_timeout, \* the worker's local copy of top().timeout
    woken,        \* a notification the waiting worker has not yet acted on
    cur,          \* the task the worker popped
    loop,         \* the loop that popped it: "run" (line 110) or "final" (121)
    life,         \* "alive", "joining" (in the destructor) or "destroyed"
    fired,        \* history: tasks popped so far
    cancelled,    \* history: tasks removed by cancel_all
    closed_at     \* history: the time the destructor was entered

vars == <<now, slow, m_tasks, timeout, m_terminate, pc, next_timeout, woken, cur,
          loop, life, fired, cancelled, closed_at>>

timeVars == <<now, slow>>
workerVars == <<pc, next_timeout, cur, loop>>
userVars == <<life, closed_at, m_terminate>>

Waiting == {"wait", "wait_until"}
PCs == Waiting \cup {"loop", "spin", "run", "popped", "task", "final", "done"}

TypeOK ==
    /\ now \in 0..MaxTime
    /\ slow \in BOOLEAN
    /\ m_tasks \in SUBSET Tasks
    /\ timeout \in [Tasks -> 0..MaxTime]
    /\ m_terminate \in BOOLEAN
    /\ pc \in PCs
    /\ next_timeout \in 0..MaxTime
    /\ woken \in BOOLEAN
    /\ cur \in Tasks \cup {NoTask}
    /\ loop \in {"run", "final"}
    /\ life \in {"alive", "joining", "destroyed"}
    /\ fired \in SUBSET Tasks
    /\ cancelled \in SUBSET Tasks
    /\ closed_at \in 0..MaxTime

Init ==
    /\ now = 0
    /\ slow = FALSE
    /\ m_tasks = {}
    /\ timeout = [t \in Tasks |-> 0]
    /\ m_terminate = FALSE
    /\ pc = "loop"
    /\ next_timeout = 0
    /\ woken = FALSE
    /\ cur = NoTask
    /\ loop = "run"
    /\ life = "alive"
    /\ fired = {}
    /\ cancelled = {}
    /\ closed_at = 0

-----------------------------------------------------------------------------
(* The interface.                                                          *)

\* A wrong schedule that forgets to notify the worker.
NotifyNobody == UNCHANGED woken

\* m_cv.notify_one(): heard only if the worker is waiting.
NotifyOne == woken' = (woken \/ pc \in Waiting)

\* Users call in while the object lives; a running task may do so until it ends.
MayCall == life = "alive" \/ pc = "task"

schedule(t, delta) ==
    /\ MayCall
    /\ t \notin m_tasks \cup fired \cup cancelled
    /\ now + delta <= MaxTime
    /\ m_tasks' = m_tasks \cup {t}
    /\ timeout' = [timeout EXCEPT ![t] = now + delta]
    /\ NotifyOne
    /\ UNCHANGED <<timeVars, workerVars, userVars, fired, cancelled>>

cancel_all ==
    /\ MayCall
    /\ m_tasks' = {}
    /\ cancelled' = cancelled \cup m_tasks
    /\ NotifyOne
    /\ UNCHANGED <<timeVars, timeout, workerVars, userVars, fired>>

\* The destructor up to the join.
Destroy ==
    /\ life = "alive"
    /\ life' = "joining"
    /\ m_terminate' = TRUE
    /\ closed_at' = now
    /\ NotifyOne
    /\ UNCHANGED <<timeVars, m_tasks, timeout, workerVars, fired, cancelled>>

\* m_worker.join() returns.
Joined ==
    /\ life = "joining"
    /\ pc = "done"
    /\ life' = "destroyed"
    /\ UNCHANGED <<timeVars, m_tasks, timeout, m_terminate, workerVars, woken,
                   fired, cancelled, closed_at>>

-----------------------------------------------------------------------------
(* The worker.                                                             *)

\* A wrong heap order, with the latest deadline on top.
IsBottom(t) == t \in m_tasks /\ \A u \in m_tasks : timeout[t] >= timeout[u]

\* m_tasks.top() may be t: a heap does not order tasks with equal timeouts.
IsTop(t) == t \in m_tasks /\ \A u \in m_tasks : timeout[t] <= timeout[u]

Goto(p) == pc' = p /\ UNCHANGED <<next_timeout, cur, loop>>

sharedVars == <<timeVars, m_tasks, timeout, userVars, fired, cancelled>>

\* The wake-up condition of wait_until.
WaitPredicate ==
    \/ m_terminate
    \/ \E t \in m_tasks : IsTop(t) /\ timeout[t] < now

\* A wrong worker that leaves without draining the queue.
LoopTerminateNoDrain ==
    /\ pc = "loop"
    /\ m_terminate
    /\ Goto("done")
    /\ UNCHANGED <<sharedVars, woken>>

LoopTerminate ==
    /\ pc = "loop"
    /\ m_terminate
    /\ Goto("final")
    /\ UNCHANGED <<sharedVars, woken>>

\* A wrong worker that checks m_terminate only once it has been woken.
LoopWaitBlind ==
    /\ pc = "loop"
    /\ m_tasks = {}
    /\ Goto("wait")
    /\ woken' = FALSE
    /\ UNCHANGED sharedVars

LoopWait ==
    /\ pc = "loop"
    /\ ~m_terminate
    /\ m_tasks = {}
    /\ Goto("wait")
    /\ woken' = FALSE
    /\ UNCHANGED sharedVars

\* The head of the queue is read, and the worker spins or sleeps until then.
\* The predicate of wait_until is false here: the head is still in the future.
LoopTimed ==
    /\ pc = "loop"
    /\ ~m_terminate
    /\ \E t \in m_tasks :
        /\ IsTop(t)
        /\ next_timeout' = timeout[t]
        /\ pc' = IF timeout[t] - now <= Threshold THEN "spin" ELSE "wait_until"
    /\ woken' = FALSE
    /\ UNCHANGED <<sharedVars, cur, loop>>

WakeWait ==
    /\ pc = "wait"
    /\ woken
    /\ Goto("loop")
    /\ woken' = FALSE
    /\ UNCHANGED sharedVars

SpinDone ==
    /\ pc = "spin"
    /\ now >= next_timeout
    /\ Goto("run")
    /\ UNCHANGED <<sharedVars, woken>>

\* Woken inside wait_until: leave if the predicate holds or the time is up,
\* else sleep on until the same next_timeout.
WakeWaitUntil ==
    /\ pc = "wait_until"
    /\ woken
    /\ Goto(IF WaitPredicate \/ now >= next_timeout THEN "run" ELSE "wait_until")
    /\ woken' = FALSE
    /\ UNCHANGED sharedVars

TimeoutWaitUntil ==
    /\ pc = "wait_until"
    /\ now >= next_timeout
    /\ Goto("run")
    /\ woken' = FALSE
    /\ UNCHANGED sharedVars

\* A wrong drain loop that trusts next_timeout and does not look at the clock.
PopUnchecked ==
    /\ pc \in {"run", "final"}
    /\ \E t \in m_tasks :
        /\ IsTop(t)
        /\ m_tasks' = m_tasks \ {t}
        /\ fired' = fired \cup {t}
        /\ cur' = t
    /\ loop' = pc
    /\ pc' = "popped"
    /\ UNCHANGED <<timeVars, timeout, userVars, cancelled, next_timeout, woken>>

\* Either drain loop takes the head of the queue if it is due...
Pop ==
    /\ pc \in {"run", "final"}
    /\ \E t \in m_tasks :
        /\ IsTop(t)
        /\ timeout[t] <= now
        /\ m_tasks' = m_tasks \ {t}
        /\ fired' = fired \cup {t}
        /\ cur' = t
    /\ loop' = pc
    /\ pc' = "popped"
    /\ UNCHANGED <<timeVars, timeout, userVars, cancelled, next_timeout, woken>>

\* ... calls it without the lock ...
TaskStart ==
    /\ pc = "popped"
    /\ Goto("task")
    /\ UNCHANGED <<sharedVars, woken>>

TaskEnd ==
    /\ pc = "task"
    /\ pc' = loop
    /\ cur' = NoTask
    /\ UNCHANGED <<sharedVars, woken, next_timeout, loop>>

\* ... and ends when the head is not due.
Drained ==
    /\ pc \in {"run", "final"}
    /\ \A t \in m_tasks : timeout[t] > now
    /\ Goto(IF pc = "run" THEN "loop" ELSE "done")
    /\ UNCHANGED <<sharedVars, woken>>

Worker ==
    \/ LoopTerminate \/ LoopWait \/ LoopTimed
    \/ WakeWait \/ SpinDone \/ WakeWaitUntil \/ TimeoutWaitUntil
    \/ Pop \/ TaskStart \/ TaskEnd \/ Drained

-----------------------------------------------------------------------------
(* The environment.                                                        *)

\* Condition variables may wake up for no reason.
SpuriousWakeup ==
    /\ pc \in Waiting
    /\ woken' = TRUE
    /\ UNCHANGED <<sharedVars, workerVars>>

\* The worker has nothing to do before the clock moves or somebody calls in.
WorkerParked ==
    \/ pc = "wait" /\ ~woken
    \/ pc = "wait_until" /\ ~woken /\ now < next_timeout
    \/ pc = "spin" /\ now < next_timeout
    \/ pc = "done"

Tick ==
    /\ now < MaxTime
    /\ now' = now + 1
    /\ slow' = (slow \/ ~WorkerParked)
    /\ UNCHANGED <<m_tasks, timeout, userVars, workerVars, woken, fired,
                   cancelled>>

Next ==
    \/ \E t \in Tasks, delta \in Deltas : schedule(t, delta)
    \/ cancel_all
    \/ Destroy
    \/ Joined
    \/ Worker
    \/ SpuriousWakeup
    \/ Tick

Spec == Init /\ [][Next]_vars

\* The worker thread is scheduled, tasks return, the clock runs, and join
\* returns once the worker has; users and spurious wake-ups owe nothing.
Fairness == WF_vars(Worker) /\ WF_vars(Tick) /\ WF_vars(Joined)

FairSpec == Spec /\ Fairness

-----------------------------------------------------------------------------
(* Properties.                                                             *)

\* A worker that sleeps with no wake-up on its way misses nothing: with an
\* untimed wait (line 88) the queue is empty and nobody has asked it to stop;
\* with a timed one (line 103) nobody has asked it to stop.
NoLostWakeup ==
    /\ pc = "wait" /\ ~woken => m_tasks = {} /\ ~m_terminate
    /\ pc = "wait_until" /\ ~woken => ~m_terminate

InFinalLoop == pc = "final" \/ (pc \in {"popped", "task"} /\ loop = "final")

\* The drain loop at line 121: when the destructor returns, no task that was
\* already due when the destructor was entered is left behind.
DueTasksRunBeforeDestroyed ==
    life = "destroyed" => \A t \in m_tasks : timeout[t] > closed_at

\* The inductive strengthening of the two invariants above: the worker leaves
\* its main loop, and the destructor its join, only in the order of lines
\* 56-60 and 85-128, and what the worker leaves in the queue was not due yet.
Inductive ==
    /\ NoLostWakeup
    /\ m_terminate <=> life # "alive"
    /\ InFinalLoop \/ pc = "done" => m_terminate
    /\ life = "destroyed" => pc = "done"
    /\ closed_at <= now
    /\ pc = "done" => \A t \in m_tasks : timeout[t] > closed_at

\* The worker, its condition variable and its two drain loops implement the
\* service of DeferredCalls: no task is popped early, twice, out of order or
\* after cancel_all, and the worker leaves only when nothing due is queued.
Calls == INSTANCE DeferredCalls WITH
    clock <- now, pending <- m_tasks, deadline <- timeout, open <- pc # "done"

ImplementsDeferredCalls == Calls!Spec

\* As long as the worker was never kept from running, which would be the
\* operating system's doing, a task is late for one reason only: the worker
\* sleeps until the deadline of a task that was the head of the queue when it
\* last looked (line 103 waits for the old next_timeout even if schedule has
\* put an earlier task in front).
LateOnlyBehindSleep ==
    ~slow /\ pc # "done" =>
        \A t \in m_tasks : now <= timeout[t] \/ now <= next_timeout

\* Its inductive strengthening: where the worker is about to look at the queue
\* again, or sleeps until it is called, no task is late at all.
OnTimeOutsideSleep ==
    /\ LateOnlyBehindSleep
    /\ ~slow /\ pc \in {"loop", "wait"} => \A t \in m_tasks : now <= timeout[t]

\* What test/utils/watchdog.cpp (watchdog, execution) expects of schedule: a
\* task with a short delay has run long after its deadline passed.  Grace is
\* how long after the deadline the test looks.
Grace == 9
RunsWithinGrace ==
    ~slow /\ pc # "done" => \A t \in m_tasks : now < timeout[t] + Grace

\* A scheduled task is eventually popped or cancelled, unless the watchdog is
\* destroyed first.
EveryTaskIsServed ==
    \A t \in Tasks : t \in m_tasks ~> (t \notin m_tasks \/ life = "destroyed")

\* The destructor does not hang in join: the worker sees m_terminate whatever
\* it was waiting for.
DestructorReturns == life = "joining" ~> life = "destroyed"
=============================================================================
