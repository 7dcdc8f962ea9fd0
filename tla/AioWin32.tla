------------------------------ MODULE AioWin32 ------------------------------
(***************************************************************************)
(* mwr::aio on Windows: the thread waits for the handles of the registered *)
(* descriptors, MAXIMUM_WAIT_OBJECTS at a time.  A descriptor and its      *)
(* handle are one value here, which is not reused once it is closed.  The  *)
(* generation counts only matter by being equal or not: outdated.          *)
(***************************************************************************)
EXTENDS Naturals, Sequences, FiniteSets, SequencesExt

CONSTANTS
    Handles,
    MAXIMUM_WAIT_OBJECTS

AioWin32Assumption ==
    /\ IsFiniteSet(Handles)
    /\ MAXIMUM_WAIT_OBJECTS \in Nat \ {0}

\* Results of a wait that are no index; of WAIT_FAILED only that it is large.
WAIT_TIMEOUT == 258
WAIT_FAILED == WAIT_TIMEOUT + 1

VARIABLES
    m_handlers, \* the handles that have a handler
    outdated,   \* curgen # m_gen
    m_running,
    pc, polls, i, ret, scheduled, \* the thread
    valid, readable,              \* the descriptors that are open, have data
    told,       \* history: handles whose handler learned that they are closed
    spurious    \* history: handles whose handler was called for no reason

vars == <<m_handlers, outdated, m_running, pc, polls, i, ret, scheduled, valid,
          readable, told, spurious>>
shared == <<m_handlers, outdated, m_running>>
world == <<valid, readable, told, spurious>>

TypeOK ==
    /\ {m_handlers, valid, readable, told, spurious} \subseteq SUBSET Handles
    /\ scheduled \subseteq Handles \X {"data", "closed"}
    /\ outdated \in BOOLEAN /\ m_running \in BOOLEAN
    /\ ToSet(polls) \subseteq Handles /\ IsInjective(polls)
    /\ i \in Nat /\ i % MAXIMUM_WAIT_OBJECTS = 0
    /\ ret \in 0..(MAXIMUM_WAIT_OBJECTS - 1) \cup {WAIT_TIMEOUT, WAIT_FAILED}

Init ==
    /\ m_handlers = {} /\ outdated = FALSE /\ m_running = TRUE
    /\ pc = "loop" /\ polls = <<>> /\ i = 0 /\ ret = WAIT_TIMEOUT /\ scheduled = {}
    /\ valid = Handles /\ readable = {} /\ told = {} /\ spurious = {}

-----------------------------------------------------------------------------
(* Users: until the singleton is destroyed.  Both refuse a closed one.     *)

notify(h) ==
    /\ m_running /\ h \in valid
    /\ m_handlers' = m_handlers \cup {h}
    /\ outdated' = TRUE
    /\ UNCHANGED <<m_running, pc, polls, i, ret, scheduled, world>>

cancel(h) ==
    /\ m_running /\ h \in valid
    /\ m_handlers' = m_handlers \ {h}
    /\ outdated' = TRUE
    /\ UNCHANGED <<m_running, pc, polls, i, ret, scheduled, world>>

\* The destructor, up to the join.
Destroy ==
    /\ m_running
    /\ m_running' = FALSE
    /\ UNCHANGED <<m_handlers, outdated, pc, polls, i, ret, scheduled, world>>

-----------------------------------------------------------------------------
(* The thread.                                                             *)

Loop ==
    /\ pc = "loop"
    /\ pc' = IF m_running THEN "check" ELSE "done"
    /\ UNCHANGED <<shared, polls, i, ret, scheduled, world>>

\* The handles in the order of a hash map, collected under the lock.
Check ==
    /\ pc = "check"
    /\ IF outdated THEN polls' \in SetToSeqs(m_handlers) ELSE UNCHANGED polls
    /\ outdated' = FALSE
    /\ i' = 0
    /\ pc' = IF polls' = <<>> THEN "loop" ELSE "wait"
    /\ UNCHANGED <<m_handlers, m_running, ret, scheduled, world>>

\* What WaitForMultipleObjects can return for the chunk that starts at i: it
\* fails if a handle is closed, and any other handle may be signalled.
WaitForMultipleObjects ==
    LET chunk == i .. (IF Len(polls) - i < MAXIMUM_WAIT_OBJECTS
                       THEN Len(polls) ELSE i + MAXIMUM_WAIT_OBJECTS) - 1
    IN IF \E k \in chunk : polls[k + 1] \notin valid THEN {WAIT_FAILED}
       ELSE {k - i : k \in chunk} \cup {WAIT_TIMEOUT}

Wait ==
    /\ pc = "wait"
    /\ ret' \in WaitForMultipleObjects
    /\ pc' = IF m_running THEN "woken" ELSE "done"
    /\ UNCHANGED <<shared, polls, i, scheduled, world>>

\* A wrong thread that does not look whether there is something to read.
SignalledBlindly ==
    /\ pc = "woken" /\ ret < Len(polls)
    /\ scheduled' = {<<polls[ret + 1], "data">>} \cap (m_handlers \X {"data"})
    /\ pc' = "call"
    /\ UNCHANGED <<shared, polls, i, ret, world>>

\* Under the lock.  The index counts from the start of the chunk, but the code
\* looks it up from the start of polls.
Signalled ==
    /\ pc = "woken" /\ ret < Len(polls)
    /\ LET handle == polls[ret + 1]
       IN scheduled' = IF handle \in m_handlers \cap readable \cap valid
                       THEN {<<handle, "data">>} ELSE {}
    /\ pc' = "call"
    /\ UNCHANGED <<shared, polls, i, ret, world>>

\* Every closed handle is dropped, under the lock; m_gen stays as it is, so
\* that polls keeps them.  (On MinGW the same is done after a timeout.)
WaitFailed ==
    /\ pc = "woken" /\ ret = WAIT_FAILED
    /\ LET closed == (ToSet(polls) \cap m_handlers) \ valid
       IN /\ scheduled' = closed \X {"closed"}
          /\ m_handlers' = m_handlers \ closed
    /\ pc' = "call"
    /\ UNCHANGED <<outdated, m_running, polls, i, ret, world>>

TimedOut ==
    /\ pc = "woken" /\ ret = WAIT_TIMEOUT
    /\ pc' = "call"
    /\ UNCHANGED <<shared, polls, i, ret, scheduled, world>>

\* A handler is called without the lock, and may or may not read what is there.
Call(c) ==
    /\ pc = "call"
    /\ scheduled' = scheduled \ {c}
    /\ spurious' = IF IF c[2] = "data" THEN c[1] \in valid \ readable
                      ELSE c[1] \in valid \cup told
                   THEN spurious \cup {c[1]} ELSE spurious
    /\ told' = IF c[2] = "closed" THEN told \cup {c[1]} ELSE told
    /\ readable' \in {readable, readable \ {c[1]}}
    /\ UNCHANGED <<shared, pc, polls, i, ret, valid>>

NextChunk ==
    /\ pc = "call" /\ scheduled = {}
    /\ i' = i + MAXIMUM_WAIT_OBJECTS
    /\ pc' = IF i' < Len(polls) THEN "wait" ELSE "loop"
    /\ ret' = WAIT_TIMEOUT
    /\ UNCHANGED <<shared, polls, scheduled, world>>

-----------------------------------------------------------------------------
(* The other ends of the descriptors, and those who close them.            *)

Arrive(h) ==
    /\ h \in valid
    /\ readable' = readable \cup {h}
    /\ UNCHANGED <<shared, pc, polls, i, ret, scheduled, valid, told, spurious>>

Close(h) ==
    /\ valid' = valid \ {h}
    /\ readable' = readable \ {h}
    /\ UNCHANGED <<shared, pc, polls, i, ret, scheduled, told, spurious>>

Next ==
    \/ \E h \in Handles : notify(h) \/ cancel(h) \/ Arrive(h) \/ Close(h)
    \/ Destroy \/ Loop \/ Check \/ Wait \/ Signalled \/ WaitFailed \/ TimedOut
    \/ (\E c \in scheduled : Call(c)) \/ NextChunk

Spec == Init /\ [][Next]_vars

-----------------------------------------------------------------------------
(* Properties.                                                             *)

\* A handler is called when its descriptor has data, although the wait may be
\* about another one or long ago, and once when its descriptor was closed,
\* although the closed handle stays among those the thread waits for.
CalledForAReason == spurious = {}

\* What that rests on: data is only reported while it is there or the handle
\* is closed, and a closed handle that was dropped is not notified again.
Inductive ==
    /\ {m_handlers, valid, readable, told} \subseteq SUBSET Handles
    /\ readable \subseteq valid
    /\ told \cap (valid \cup m_handlers) = {}
    /\ scheduled \subseteq Handles \X {"data", "closed"}
    /\ pc # "call" => scheduled = {}
    /\ \A h \in Handles :
         /\ <<h, "data">> \in scheduled =>
                scheduled = {<<h, "data">>} /\ (h \in valid => h \in readable)
         /\ <<h, "closed">> \in scheduled =>
                h \notin valid \cup told \cup m_handlers
    /\ CalledForAReason
=============================================================================
