------------------------------ MODULE Publisher ------------------------------
(***************************************************************************)
(* mwr::publisher and mwr::logger: log messages go to every publisher that *)
(* is registered for their level and whose filters let them pass.          *)
(*                                                                         *)
(* The registry (one vector of publishers per level) and the flag          *)
(* print_source are static and not protected by a lock.  Threads walk the  *)
(* registry while they log; publishers are created, reconfigured and       *)
(* destroyed while no thread is logging, which is all the code supports.   *)
(* A filter is the set of messages it accepts.                             *)
(***************************************************************************)
EXTENDS Naturals, Sequences, FiniteSets

CONSTANTS
    Threads,
    Publishers,
    NUM_LOG_LEVELS,
    Msgs,       \* what a filter can tell messages apart by
    MaxFilters, \* bound on the filters of a publisher
    NoMsg

Levels == 0..(NUM_LOG_LEVELS - 1)

VARIABLES
    publishers,   \* level -> the publishers registered for it, in order
    alive,        \* the publishers that exist
    m_min, m_max, \* the levels each publisher wants
    m_filters,    \* the filters of each publisher
    print_source,
    setting,      \* history: what the user last set print_source to
    pc,           \* where each thread is
    level, msg,   \* of each thread that logs: what it logs
    isReport,     \* ... whether that is a report
    saved,        \* ... the value of print_source it will restore
    pos,          \* ... how far it is in the registry
    seen          \* history: <<publisher, print_source>> that printed it

vars == <<publishers, alive, m_min, m_max, m_filters, print_source, setting,
          pc, level, msg, isReport, saved, pos, seen>>

registryVars == <<publishers, alive, m_min, m_max, m_filters>>
localVars == <<level, msg, isReport, saved, pos, seen>>

TypeOK ==
    /\ publishers \in [Levels -> Seq(Publishers)]
    /\ alive \in SUBSET Publishers
    /\ m_min \in [Publishers -> Levels]
    /\ m_max \in [Publishers -> Levels]
    /\ m_filters \in [Publishers -> SUBSET (SUBSET Msgs)]
    /\ print_source \in BOOLEAN
    /\ setting \in BOOLEAN
    /\ pc \in [Threads -> {"idle", "force", "walk"}]
    /\ level \in [Threads -> Levels]
    /\ msg \in [Threads -> Msgs \cup {NoMsg}]
    /\ isReport \in [Threads -> BOOLEAN]
    /\ saved \in [Threads -> BOOLEAN]
    /\ pos \in [Threads -> Nat]
    /\ seen \in [Threads -> Seq(Publishers \X BOOLEAN)]

Init ==
    /\ publishers = [l \in Levels |-> <<>>]
    /\ alive = {}
    /\ m_min = [p \in Publishers |-> 0]
    /\ m_max = [p \in Publishers |-> 0]
    /\ m_filters = [p \in Publishers |-> {}]
    /\ print_source = FALSE
    /\ setting = FALSE
    /\ pc = [t \in Threads |-> "idle"]
    /\ level = [t \in Threads |-> 0]
    /\ msg = [t \in Threads |-> NoMsg]
    /\ isReport = [t \in Threads |-> FALSE]
    /\ saved = [t \in Threads |-> FALSE]
    /\ pos = [t \in Threads |-> 1]
    /\ seen = [t \in Threads |-> <<>>]

-----------------------------------------------------------------------------
(* The registry.                                                           *)

stl_add_unique(s, p) ==
    IF \E i \in DOMAIN s : s[i] = p THEN s ELSE Append(s, p)

\* kept[i] is what stays of the first i elements.
stl_remove(s, p) ==
    LET kept[i \in 0..Len(s)] ==
            IF i = 0 THEN <<>>
            ELSE IF s[i] = p THEN kept[i - 1]
            ELSE Append(kept[i - 1], s[i])
    IN kept[Len(s)]

\* The registry with p added to, or removed from, the levels min to max.
register_publisher(reg, p, min, max) ==
    [l \in Levels |->
        IF l \in min..max THEN stl_add_unique(reg[l], p) ELSE reg[l]]

unregister_publisher(reg, p, min, max) ==
    [l \in Levels |-> IF l \in min..max THEN stl_remove(reg[l], p) ELSE reg[l]]

Quiet == \A t \in Threads : pc[t] = "idle"

Create(p, min, max) ==
    /\ Quiet
    /\ p \notin alive
    /\ alive' = alive \cup {p}
    /\ m_min' = [m_min EXCEPT ![p] = min]
    /\ m_max' = [m_max EXCEPT ![p] = max]
    /\ m_filters' = [m_filters EXCEPT ![p] = {}]
    /\ publishers' = register_publisher(publishers, p, min, max)
    /\ UNCHANGED <<print_source, setting, pc, localVars>>

Destroy(p) ==
    /\ Quiet
    /\ p \in alive
    /\ alive' = alive \ {p}
    /\ publishers' = unregister_publisher(publishers, p, m_min[p], m_max[p])
    /\ UNCHANGED <<m_min, m_max, m_filters, print_source, setting, pc,
                   localVars>>

\* A wrong set_level that unregisters with the new levels.
set_levelTooEarly(p, min, max) ==
    /\ Quiet
    /\ p \in alive
    /\ m_min' = [m_min EXCEPT ![p] = min]
    /\ m_max' = [m_max EXCEPT ![p] = max]
    /\ publishers' = register_publisher(
                        unregister_publisher(publishers, p, min, max),
                        p, min, max)
    /\ UNCHANGED <<alive, m_filters, print_source, setting, pc, localVars>>

\* A wrong set_level that takes max for exclusive.
set_levelExclusive(p, min, max) ==
    /\ Quiet
    /\ p \in alive
    /\ m_min' = [m_min EXCEPT ![p] = min]
    /\ m_max' = [m_max EXCEPT ![p] = max + 1]
    /\ publishers' = register_publisher(
                        unregister_publisher(publishers, p, m_min[p], m_max[p]),
                        p, min, max)
    /\ UNCHANGED <<alive, m_filters, print_source, setting, pc, localVars>>

set_level(p, min, max) ==
    /\ Quiet
    /\ p \in alive
    /\ m_min' = [m_min EXCEPT ![p] = min]
    /\ m_max' = [m_max EXCEPT ![p] = max]
    /\ publishers' = register_publisher(
                        unregister_publisher(publishers, p, m_min[p], m_max[p]),
                        p, min, max)
    /\ UNCHANGED <<alive, m_filters, print_source, setting, pc, localVars>>

\* filter, filter_time and filter_source.
filter(p, f) ==
    /\ Quiet
    /\ p \in alive
    /\ f \notin m_filters[p]
    /\ Cardinality(m_filters[p]) < MaxFilters
    /\ m_filters' = [m_filters EXCEPT ![p] = @ \cup {f}]
    /\ UNCHANGED <<publishers, alive, m_min, m_max, print_source, setting, pc,
                   localVars>>

\* The user sets publisher::print_source.
SetPrintSource(on) ==
    /\ Quiet
    /\ print_source' = on
    /\ setting' = on
    /\ UNCHANGED <<registryVars, pc, localVars>>

-----------------------------------------------------------------------------
(* Logging.                                                                *)

\* A wrong check that wants every filter to accept the message.
check_filtersAll(p, m) == \A f \in m_filters[p] : m \in f

check_filters(p, m) == m_filters[p] = {} \/ \E f \in m_filters[p] : m \in f

\* logger::can_log; a logger may want fewer levels than the publishers do,
\* which only makes it log less.
can_publish(l) == publishers[l] # <<>>

\* publish(level, sender, str) and publish(level, sender, exception).
Log(t, l, m) ==
    /\ pc[t] = "idle"
    /\ can_publish(l)
    /\ pc' = [pc EXCEPT ![t] = "walk"]
    /\ level' = [level EXCEPT ![t] = l]
    /\ msg' = [msg EXCEPT ![t] = m]
    /\ isReport' = [isReport EXCEPT ![t] = FALSE]
    /\ UNCHANGED <<registryVars, print_source, setting, saved, pos, seen>>

\* publish(level, sender, report) up to the read of print_source.
LogReport(t, l, m) ==
    /\ pc[t] = "idle"
    /\ can_publish(l)
    /\ pc' = [pc EXCEPT ![t] = "force"]
    /\ level' = [level EXCEPT ![t] = l]
    /\ msg' = [msg EXCEPT ![t] = m]
    /\ isReport' = [isReport EXCEPT ![t] = TRUE]
    /\ saved' = [saved EXCEPT ![t] = print_source]
    /\ UNCHANGED <<registryVars, print_source, setting, pos, seen>>

ForceSource(t) ==
    /\ pc[t] = "force"
    /\ print_source' = TRUE
    /\ pc' = [pc EXCEPT ![t] = "walk"]
    /\ UNCHANGED <<registryVars, setting, localVars>>

\* The next publisher of the level prints the message if its filters agree,
\* under its own lock.  Filters and do_publish return: an exception out of one
\* would leave the loop and, for a report, print_source at TRUE, as nothing at
\* publisher.cpp:163 restores it on the way out.
Walk(t) ==
    /\ pc[t] = "walk"
    /\ pos[t] <= Len(publishers[level[t]])
    /\ LET p == publishers[level[t]][pos[t]] IN
        seen' = IF check_filters(p, msg[t])
                THEN [seen EXCEPT ![t] = Append(@, <<p, print_source>>)]
                ELSE seen
    /\ pos' = [pos EXCEPT ![t] = @ + 1]
    /\ UNCHANGED <<registryVars, print_source, setting, pc, level, msg,
                   isReport, saved>>

AtEnd(t) == pc[t] = "walk" /\ pos[t] > Len(publishers[level[t]])

\* A wrong end that turns print_source off.
FinishOff(t) ==
    /\ AtEnd(t)
    /\ print_source' = IF isReport[t] THEN FALSE ELSE print_source
    /\ pc' = [pc EXCEPT ![t] = "idle"]
    /\ level' = [level EXCEPT ![t] = 0]
    /\ msg' = [msg EXCEPT ![t] = NoMsg]
    /\ isReport' = [isReport EXCEPT ![t] = FALSE]
    /\ saved' = [saved EXCEPT ![t] = FALSE]
    /\ pos' = [pos EXCEPT ![t] = 1]
    /\ seen' = [seen EXCEPT ![t] = <<>>]
    /\ UNCHANGED <<registryVars, setting>>

\* The message is out; a report puts print_source back.
Finish(t) ==
    /\ AtEnd(t)
    /\ print_source' = IF isReport[t] THEN saved[t] ELSE print_source
    /\ pc' = [pc EXCEPT ![t] = "idle"]
    /\ level' = [level EXCEPT ![t] = 0]
    /\ msg' = [msg EXCEPT ![t] = NoMsg]
    /\ isReport' = [isReport EXCEPT ![t] = FALSE]
    /\ saved' = [saved EXCEPT ![t] = FALSE]
    /\ pos' = [pos EXCEPT ![t] = 1]
    /\ seen' = [seen EXCEPT ![t] = <<>>]
    /\ UNCHANGED <<registryVars, setting>>

-----------------------------------------------------------------------------
Next ==
    \/ \E p \in Publishers, min, max \in Levels :
        Create(p, min, max) \/ set_level(p, min, max)
    \/ \E p \in Publishers : Destroy(p)
    \/ \E p \in Publishers, f \in SUBSET Msgs : filter(p, f)
    \/ \E on \in BOOLEAN : SetPrintSource(on)
    \/ \E t \in Threads, l \in Levels, m \in Msgs :
        Log(t, l, m) \/ LogReport(t, l, m)
    \/ \E t \in Threads : ForceSource(t) \/ Walk(t) \/ Finish(t)

Spec == Init /\ [][Next]_vars

-----------------------------------------------------------------------------
(* Properties.                                                             *)

\* After any sequence of set_level calls, inverted ranges included, a publisher
\* is registered exactly once for each level it wants and for no other, and a
\* destroyed one is registered nowhere.
RegistryMatchesLevels ==
    \A p \in Publishers, l \in Levels :
        Cardinality({i \in DOMAIN publishers[l] : publishers[l][i] = p}) =
            IF p \in alive /\ m_min[p] <= l /\ l <= m_max[p] THEN 1 ELSE 0

\* When a message is out, it has been printed once by every publisher that
\* wants its level and one of whose filters, if it has any, accepts it.
DeliveredOnce ==
    \A t \in Threads : AtEnd(t) =>
        \A p \in Publishers :
            Cardinality({i \in DOMAIN seen[t] : seen[t][i][1] = p}) =
                IF /\ p \in alive
                   /\ level[t] \in m_min[p]..m_max[p]
                   /\ \/ m_filters[p] = {}
                      \/ \E f \in m_filters[p] : msg[t] \in f
                THEN 1 ELSE 0

\* Reports are always printed with their source location (the comment at
\* publisher.cpp:163), whatever print_source is set to.
ReportsPrintSource ==
    \A t \in Threads : isReport[t] =>
        \A i \in DOMAIN seen[t] : seen[t][i][2]

\* Once no report is on its way, print_source is what the user set.
PrintSourceRestored ==
    (\A t \in Threads : ~isReport[t]) => print_source = setting
-----------------------------------------------------------------------------
(* What they rest on.                                                      *)

PublisherAssumption == NUM_LOG_LEVELS \in Nat \ {0}

NoDuplicates(s) == \A i, j \in 1..Len(s) : s[i] = s[j] => i = j

Wants(p, l) == p \in alive /\ l \in m_min[p]..m_max[p]

Registered ==
    \A l \in Levels :
        /\ NoDuplicates(publishers[l])
        /\ \A p \in Publishers :
            (\E i \in 1..Len(publishers[l]) : publishers[l][i] = p) <=> Wants(p, l)

\* What s[1] to s[Len(s)] have printed is message m, once by each of the first
\* n publishers of reg whose filters let it pass.
Delivered(s, reg, n, m) ==
    /\ \A i \in 1..Len(s) :
        \E j \in 1..n : s[i][1] = reg[j] /\ check_filters(reg[j], m)
    /\ \A j \in 1..n : check_filters(reg[j], m) => \E i \in 1..Len(s) : s[i][1] = reg[j]
    /\ \A i, k \in 1..Len(s) : s[i][1] = s[k][1] => i = k

Walking ==
    \A t \in Threads :
        /\ pc[t] # "walk" => pos[t] = 1 /\ seen[t] = <<>>
        /\ pos[t] \in 1..(Len(publishers[level[t]]) + 1)
        /\ Delivered(seen[t], publishers[level[t]], pos[t] - 1, msg[t])

Inductive == TypeOK /\ Registered /\ Walking

\* Threads that log one after the other.
Sources ==
    /\ \A t \in Threads :
        /\ pc[t] = "idle" => ~isReport[t]
        /\ pc[t] = "force" => isReport[t]
        /\ isReport[t] => /\ saved[t] = setting
                          /\ pc[t] = "walk" => print_source
                          /\ \A i \in 1..Len(seen[t]) : seen[t][i][2]
    /\ PrintSourceRestored

=============================================================================
