--------------------------- MODULE DeferredCalls ---------------------------
(***************************************************************************)
(* What mwr::watchdog promises its users, with no worker thread, no        *)
(* condition variable and no priority queue: a set of calls, each with a   *)
(* deadline, that are fired in deadline order, never early, at most once,  *)
(* and never once they have been cancelled.  Shutting the service down     *)
(* first fires every call that is due.                                     *)
(***************************************************************************)
EXTENDS Naturals

CONSTANTS
    Tasks,      \* the calls that users may submit
    Deltas      \* the delays users may ask for

VARIABLES
    clock,      \* the current time
    pending,    \* calls submitted and neither fired nor cancelled
    deadline,   \* the time from which a submitted call may fire
    fired,      \* calls that have been handed to the worker
    cancelled,  \* calls withdrawn before they fired
    open        \* FALSE once the service is shut down

vars == <<clock, pending, deadline, fired, cancelled, open>>

Init ==
    /\ clock = 0
    /\ pending = {}
    /\ deadline = [t \in Tasks |-> 0]
    /\ fired = {}
    /\ cancelled = {}
    /\ open = TRUE

\* A new call is due delta after it is submitted.
Submit(t, delta) ==
    /\ open
    /\ t \notin pending \cup fired \cup cancelled
    /\ pending' = pending \cup {t}
    /\ deadline' = [deadline EXCEPT ![t] = clock + delta]
    /\ UNCHANGED <<clock, fired, cancelled, open>>

\* A call fires when it is due and no pending call is due before it.
Fire(t) ==
    /\ open
    /\ t \in pending
    /\ deadline[t] <= clock
    /\ \A u \in pending : deadline[t] <= deadline[u]
    /\ pending' = pending \ {t}
    /\ fired' = fired \cup {t}
    /\ UNCHANGED <<clock, deadline, cancelled, open>>

CancelAll ==
    /\ open
    /\ pending' = {}
    /\ cancelled' = cancelled \cup pending
    /\ UNCHANGED <<clock, deadline, fired, open>>

\* The service may only shut down when nothing that is due is left.
ShutDown ==
    /\ open
    /\ \A t \in pending : deadline[t] > clock
    /\ open' = FALSE
    /\ UNCHANGED <<clock, pending, deadline, fired, cancelled>>

Advance ==
    /\ clock' = clock + 1
    /\ UNCHANGED <<pending, deadline, fired, cancelled, open>>

Next ==
    \/ \E t \in Tasks, delta \in Deltas : Submit(t, delta)
    \/ \E t \in Tasks : Fire(t)
    \/ CancelAll
    \/ ShutDown
    \/ Advance

Spec == Init /\ [][Next]_vars
=============================================================================
