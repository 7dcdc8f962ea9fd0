-------------------------------- MODULE Aio --------------------------------
(***************************************************************************)
(* mwr::aio: one thread polls the file descriptors users registered with   *)
(* aio_notify and calls their handlers when there is something to read.    *)
(*                                                                         *)
(* m_handlers is shared under m_mtx; m_gen and m_running are atomics that  *)
(* the thread also reads without the lock.  The thread works on private    *)
(* copies (polls, revents, scheduled) that users can outdate at any point  *)
(* between its critical sections.                                          *)
(*                                                                         *)
(* A handler is the value m_gen has after the notify that stored it, which *)
(* makes every registration distinct.  What poll would report of a file    *)
(* descriptor is part of the state: nothing, POLLIN, or POLLNVAL once the  *)
(* descriptor is closed.                                                   *)
(***************************************************************************)
EXTENDS Integers

CONSTANTS
    FDs,        \* file descriptor numbers
    MaxGen,     \* bound on the number of calls to notify and cancel
    ReusedFDs,  \* the numbers that may be opened again once they are closed
    Polite      \* do users cancel a closed descriptor before it is reopened?

ASSUME AioAssumption ==
    MaxGen \in Nat /\ ReusedFDs \subseteq FDs /\ Polite \in BOOLEAN

VARIABLES
    m_handlers, \* fd -> handler, 0 if none is stored
    m_gen,
    m_running,
    pc,         \* where the thread is
    curgen, polls, revents, scheduled, \* the thread's locals
    cur,        \* the <<fd, handler>> the thread calls, or <<>>
    ready,      \* what poll would report of each fd right now
    user,       \* history: the handler each fd's user believes registered
    late        \* history: calls of a handler that is no longer stored

vars == <<m_handlers, m_gen, m_running, pc, curgen, polls, revents, scheduled,
          cur, ready, user, late>>

sharedVars == <<m_handlers, m_gen, m_running, user>>

Handlers == 1..MaxGen
Events == {"none", "POLLIN", "POLLNVAL"}
PCs == {"loop", "check", "rebuild", "poll", "lock", "call", "handler",
        "aborted", "done"}

Registered == {fd \in FDs : m_handlers[fd] # 0}

TypeOK ==
    /\ m_handlers \in [FDs -> 0..MaxGen]
    /\ m_gen \in 0..MaxGen
    /\ m_running \in BOOLEAN
    /\ pc \in PCs
    /\ curgen \in 0..MaxGen
    /\ polls \in SUBSET FDs
    /\ revents \in [FDs -> Events]
    /\ scheduled \in SUBSET (FDs \X Handlers)
    /\ cur \in (FDs \X Handlers) \cup {<<>>}
    /\ ready \in [FDs -> Events]
    /\ user \in [FDs -> 0..MaxGen]
    /\ late \in [Handlers -> Nat]

Quiet == [fd \in FDs |-> "none"]

Init ==
    /\ m_handlers = [fd \in FDs |-> 0]
    /\ m_gen = 0
    /\ m_running = TRUE
    /\ pc = "loop"
    /\ curgen = 0
    /\ polls = {}
    /\ revents = Quiet
    /\ scheduled = {}
    /\ cur = <<>>
    /\ ready = Quiet
    /\ user = [fd \in FDs |-> 0]
    /\ late = [h \in Handlers |-> 0]

-----------------------------------------------------------------------------
(* The interface.                                                          *)

\* Users call in until the singleton is destroyed; a handler until it ends.
MayCall == m_running \/ pc = "handler"

\* m_gen++, the thread's cue to rebuild its poll set.
BumpGen == m_gen < MaxGen /\ m_gen' = m_gen + 1

notify(fd) ==
    /\ MayCall
    /\ BumpGen
    /\ m_handlers' = [m_handlers EXCEPT ![fd] = m_gen']
    /\ user' = [user EXCEPT ![fd] = m_gen']
    /\ UNCHANGED <<m_running, pc, curgen, polls, revents, scheduled, cur,
                   ready, late>>

\* A wrong cancel that does not tell the thread.
cancelSilently(fd) ==
    /\ MayCall
    /\ m_handlers' = [m_handlers EXCEPT ![fd] = 0]
    /\ user' = [user EXCEPT ![fd] = 0]
    /\ UNCHANGED <<m_gen, m_running, pc, curgen, polls, revents, scheduled,
                   cur, ready, late>>

cancel(fd) ==
    /\ MayCall
    /\ BumpGen
    /\ m_handlers' = [m_handlers EXCEPT ![fd] = 0]
    /\ user' = [user EXCEPT ![fd] = 0]
    /\ UNCHANGED <<m_running, pc, curgen, polls, revents, scheduled, cur,
                   ready, late>>

\* The destructor up to the join.
Destroy ==
    /\ m_running
    /\ m_running' = FALSE
    /\ UNCHANGED <<m_handlers, m_gen, user, pc, curgen, polls, revents,
                   scheduled, cur, ready, late>>

-----------------------------------------------------------------------------
(* The thread.                                                             *)

Goto(p) == pc' = p

\* A wrong thread that never looks at m_running.
LoopForever ==
    /\ pc = "loop"
    /\ Goto("check")
    /\ UNCHANGED <<sharedVars, curgen, polls, revents, scheduled, cur, ready,
                   late>>

Loop ==
    /\ pc = "loop"
    /\ Goto(IF m_running THEN "check" ELSE "done")
    /\ UNCHANGED <<sharedVars, curgen, polls, revents, scheduled, cur, ready,
                   late>>

\* A wrong thread that only ever fills an empty poll set.
CheckGenIfEmpty ==
    /\ pc = "check"
    /\ Goto(IF curgen # m_gen /\ polls = {} THEN "rebuild" ELSE "poll")
    /\ UNCHANGED <<sharedVars, curgen, polls, revents, scheduled, cur, ready,
                   late>>

\* m_gen is compared without the lock; the poll set is emptied before it.
CheckGen ==
    /\ pc = "check"
    /\ IF curgen # m_gen THEN Goto("rebuild") /\ polls' = {}
                         ELSE Goto("poll") /\ UNCHANGED polls
    /\ UNCHANGED <<sharedVars, curgen, revents, scheduled, cur, ready, late>>

\* Under the lock: the poll set and the generation it belongs to.
Rebuild ==
    /\ pc = "rebuild"
    /\ polls' = Registered
    /\ curgen' = m_gen
    /\ Goto("poll")
    /\ UNCHANGED <<sharedVars, revents, scheduled, cur, ready, late>>

\* Nothing to poll (sleep_for), or poll times out.
Idle ==
    /\ pc = "poll"
    /\ \A fd \in polls : ready[fd] = "none"
    /\ Goto("loop")
    /\ UNCHANGED <<sharedVars, curgen, polls, revents, scheduled, cur, ready,
                   late>>

PollReturns ==
    /\ pc = "poll"
    /\ \E fd \in polls : ready[fd] # "none"
    /\ revents' = [fd \in FDs |-> IF fd \in polls THEN ready[fd] ELSE "none"]
    /\ Goto("lock")
    /\ UNCHANGED <<sharedVars, curgen, polls, scheduled, cur, ready, late>>

\* poll fails with something else than EINTR: MWR_ERROR_ON ends the program.
PollFails ==
    /\ pc = "poll"
    /\ polls # {}
    /\ Goto("aborted")
    /\ UNCHANGED <<sharedVars, curgen, polls, revents, scheduled, cur, ready,
                   late>>

\* ret > 0 but the destructor has been entered meanwhile.
SkipEvents ==
    /\ pc = "lock"
    /\ ~m_running
    /\ revents' = Quiet
    /\ Goto("call")
    /\ UNCHANGED <<sharedVars, curgen, polls, scheduled, cur, ready, late>>

\* A wrong thread that does not forget closed descriptors.
ScheduleKeepInvalid ==
    /\ pc = "lock"
    /\ m_running
    /\ scheduled' = {<<fd, m_handlers[fd]>> :
                        fd \in {f \in Registered : revents[f] # "none"}}
    /\ revents' = Quiet
    /\ Goto("call")
    /\ UNCHANGED <<m_handlers, m_gen, m_running, user, curgen, polls, cur,
                   ready, late>>

\* A wrong thread that calls the handlers users believe registered.
ScheduleUser ==
    /\ pc = "lock"
    /\ m_running
    /\ scheduled' = {<<fd, user[fd]>> :
                        fd \in {f \in FDs : user[f] # 0 /\ revents[f] # "none"}}
    /\ m_handlers' = [fd \in FDs |->
                        IF revents[fd] = "POLLNVAL" THEN 0 ELSE m_handlers[fd]]
    /\ revents' = Quiet
    /\ Goto("call")
    /\ UNCHANGED <<m_gen, m_running, user, curgen, polls, cur, ready, late>>

\* Under the lock: the events of the earlier poll meet the present handlers.
Schedule ==
    /\ pc = "lock"
    /\ m_running
    /\ scheduled' = {<<fd, m_handlers[fd]>> :
                        fd \in {f \in Registered : revents[f] # "none"}}
    /\ m_handlers' = [fd \in FDs |->
                        IF revents[fd] = "POLLNVAL" THEN 0 ELSE m_handlers[fd]]
    /\ revents' = Quiet
    /\ Goto("call")
    /\ UNCHANGED <<m_gen, m_running, user, curgen, polls, cur, ready, late>>

\* The scheduled handlers are called one after the other, without the lock.
Call(c) ==
    /\ pc = "call"
    /\ scheduled' = scheduled \ {c}
    /\ cur' = c
    /\ late' = [late EXCEPT ![c[2]] =
                    IF m_handlers[c[1]] = c[2] THEN @ ELSE @ + 1]
    /\ Goto("handler")
    /\ UNCHANGED <<sharedVars, curgen, polls, revents, ready>>

\* The handler returns, having consumed what there was to read or not.
Return ==
    /\ pc = "handler"
    /\ \/ UNCHANGED ready
       \/ /\ ready[cur[1]] = "POLLIN"
          /\ ready' = [ready EXCEPT ![cur[1]] = "none"]
    /\ cur' = <<>>
    /\ Goto("call")
    /\ UNCHANGED <<sharedVars, curgen, polls, revents, scheduled, late>>

CallsDone ==
    /\ pc = "call"
    /\ scheduled = {}
    /\ Goto("loop")
    /\ UNCHANGED <<sharedVars, curgen, polls, revents, scheduled, cur, ready,
                   late>>

Thread ==
    \/ Loop \/ CheckGen \/ Rebuild
    \/ Idle \/ PollReturns
    \/ SkipEvents \/ Schedule
    \/ \E c \in scheduled : Call(c)
    \/ Return \/ CallsDone

-----------------------------------------------------------------------------
(* The environment: data arrives, descriptors are closed and reopened.     *)

Arrive(fd) ==
    /\ ready[fd] = "none"
    /\ ready' = [ready EXCEPT ![fd] = "POLLIN"]
    /\ UNCHANGED <<sharedVars, pc, curgen, polls, revents, scheduled, cur,
                   late>>

CloseFD(fd) ==
    /\ ready[fd] # "POLLNVAL"
    /\ ready' = [ready EXCEPT ![fd] = "POLLNVAL"]
    /\ UNCHANGED <<sharedVars, pc, curgen, polls, revents, scheduled, cur,
                   late>>

ReopenFD(fd) ==
    /\ fd \in ReusedFDs
    /\ Polite => user[fd] = 0
    /\ ready[fd] = "POLLNVAL"
    /\ ready' = [ready EXCEPT ![fd] = "none"]
    /\ UNCHANGED <<sharedVars, pc, curgen, polls, revents, scheduled, cur,
                   late>>

Next ==
    \/ \E fd \in FDs : notify(fd)
    \/ \E fd \in FDs : cancel(fd)
    \/ Destroy
    \/ Thread
    \/ PollFails
    \/ \E fd \in FDs : Arrive(fd)
    \/ \E fd \in FDs : CloseFD(fd)
    \/ \E fd \in FDs : ReopenFD(fd)

Spec == Init /\ [][Next]_vars

\* The thread is scheduled and the handlers it calls return.
FairSpec == Spec /\ WF_vars(Thread)

-----------------------------------------------------------------------------
(* Properties.                                                             *)

\* m_gen is compared without the lock, but a thread that finds it unchanged
\* polls every descriptor with a stored handler (no registration is missed),
\* and besides those at most ones whose handler it dropped itself.
PollSetInSync ==
    curgen = m_gen =>
        /\ Registered \subseteq polls
        /\ polls \subseteq {fd \in FDs : user[fd] # 0}

\* cancel does not wait for the thread, so a handler may still be called after
\* it was cancelled, replaced or dropped; but once at most.
AtMostOneLateCall == \A h \in Handlers : late[h] <= 1

\* A registration belongs to one descriptor, in m_handlers and in scheduled,
\* and is one that notify has handed out.
OneOwner ==
    /\ \A fd \in FDs : m_handlers[fd] <= m_gen
    /\ \A c \in scheduled : c[2] <= m_gen
    /\ \A f, g \in FDs : m_handlers[f] = m_handlers[g] /\ m_handlers[f] # 0
                         => f = g
    /\ \A c, d \in scheduled : c[2] = d[2] => c = d
    /\ \A fd \in FDs, c \in scheduled : m_handlers[fd] = c[2] => fd = c[1]

\* The inductive strengthening of the two invariants above: a handler that is
\* stored, scheduled or not yet handed out still has its late call to come,
\* and the thread never is ahead of m_gen.
Inductive ==
    /\ PollSetInSync
    /\ curgen <= m_gen
    /\ \A fd \in FDs : m_handlers[fd] # 0 => user[fd] # 0
    /\ OneOwner
    /\ \A fd \in FDs : m_handlers[fd] # 0 => late[m_handlers[fd]] = 0
    /\ \A c \in scheduled : late[c[2]] = 0
    /\ \A h \in Handlers : h > m_gen => late[h] = 0
    /\ \A h \in Handlers : late[h] <= 1

\* A handler whose descriptor has something to read is called, unless its user
\* cancels or replaces it, the data goes away, or the program ends.
Served(fd) ==
    \A h \in Handlers :
        (user[fd] = h /\ ready[fd] = "POLLIN")
            ~> \/ cur = <<fd, h>>
               \/ user[fd] # h
               \/ ready[fd] # "POLLIN"
               \/ ~m_running
               \/ pc = "aborted"

\* Every readable descriptor is served, as long as its number is not reused,
\* whatever happens to the other descriptors.
ReadableIsCalled == \A fd \in FDs \ ReusedFDs : Served(fd)

\* What test/utils/aio.cpp (notify) takes for granted of descriptors in
\* general, those with the number of an earlier one included.
ReadableIsCalledAfterReuse == \A fd \in ReusedFDs : Served(fd)

\* The handler of a descriptor that is closed under it learns of that, and is
\* then no longer stored (the POLLNVAL branch at line 72).
ClosedIsReported ==
    \A fd \in FDs \ ReusedFDs, h \in Handlers :
        (user[fd] = h /\ m_handlers[fd] = h /\ ready[fd] = "POLLNVAL")
            ~> \/ m_handlers[fd] = 0 /\ cur = <<fd, h>>
               \/ user[fd] # h
               \/ ~m_running
               \/ pc = "aborted"

\* The destructor's join returns: the thread notices m_running within one
\* round, whatever it is polling.
DestructorReturns == ~m_running ~> pc \in {"done", "aborted"}
=============================================================================
