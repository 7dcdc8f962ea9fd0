------------------------------ MODULE Terminal ------------------------------
(***************************************************************************)
(* mwr/utils/terminal: for each descriptor of a terminal a stack of        *)
(* settings, pushed and popped by users and by tty_guard, and put back at  *)
(* exit where the user asked for it.  Settings belong to the terminal, not *)
(* to the descriptor: all descriptors that new_tty returns are of one.     *)
(***************************************************************************)
EXTENDS Naturals, Sequences, FiniteSets, SequencesExt

CONSTANTS
    FDs,      \* numbers of descriptors
    Console,  \* the terminal descriptor Stdin belongs to
    Pty,      \* the terminal whose other side new_tty holds
    Stdin,
    Closed,
    MaxStack  \* bound on the settings on a stack

TTYs == {Console, Pty}

Flags == {"ICANON", "ECHONL", "ECHO", "ISIG", "VMIN"}
Cooked == {"ICANON", "ECHO", "ISIG"}

VARIABLES
    attr,   \* terminal -> its settings, the set of what is on
    open,   \* descriptor -> its terminal, or Closed
    stacks, \* descriptor -> settings with a flag restore, the newest first
    exited,
    bare,   \* history: terminals changed with no setting to be restored
    users   \* history: terminal -> the descriptors it was used through

vars == <<attr, open, stacks, exited, bare, users>>

TypeOK ==
    /\ attr \in [TTYs -> SUBSET Flags]
    /\ open \in [FDs -> TTYs \cup {Closed}]
    /\ \A fd \in FDs : /\ Len(stacks[fd]) <= MaxStack
                       /\ \A s \in ToSet(stacks[fd]) :
                            s \in [attr : SUBSET Flags, restore : BOOLEAN]
    /\ exited \in BOOLEAN
    /\ bare \in SUBSET TTYs
    /\ users \in [TTYs -> SUBSET FDs]

Init ==
    /\ attr = [t \in TTYs |-> Cooked]
    /\ open = [fd \in FDs |-> IF fd = Stdin THEN Console ELSE Closed]
    /\ stacks = [fd \in FDs |-> <<>>]
    /\ exited = FALSE
    /\ bare = {}
    /\ users = [t \in TTYs |-> {}]

is_tty(fd) == open[fd] # Closed

\* The terminal behind fd has settings that will be put back.
Guarded(fd) == \E s \in ToSet(stacks[fd]) : s.restore

\* lookup() finds the stack of the number; load() and save() fail when the
\* descriptor is closed, and then nothing is pushed or popped.
lookup(fd) ==
    /\ ~exited
    /\ is_tty(fd)
    /\ users' = [users EXCEPT ![open[fd]] = @ \cup {fd}]

-----------------------------------------------------------------------------
\* A descriptor of the terminal behind the static master.
new_tty(fd) ==
    /\ ~exited
    /\ open[fd] = Closed
    /\ open' = [open EXCEPT ![fd] = Pty]
    /\ UNCHANGED <<attr, stacks, exited, bare, users>>

Close(fd) ==
    /\ ~exited
    /\ is_tty(fd)
    /\ open' = [open EXCEPT ![fd] = Closed]
    /\ UNCHANGED <<attr, stacks, exited, bare, users>>

push(fd, restore) ==
    /\ lookup(fd)
    /\ Len(stacks[fd]) < MaxStack
    /\ stacks' = [stacks EXCEPT ![fd] =
            <<[attr |-> attr[open[fd]], restore |-> restore]>> \o @]
    /\ UNCHANGED <<attr, open, exited, bare>>

\* Whatever the flag says, the settings are put back.
pop(fd) ==
    /\ lookup(fd)
    /\ stacks[fd] # <<>>
    /\ attr' = [attr EXCEPT ![open[fd]] = Head(stacks[fd]).attr]
    /\ stacks' = [stacks EXCEPT ![fd] = Tail(@)]
    /\ UNCHANGED <<open, exited, bare>>

vt100(a) == (a \ {"ICANON", "ECHONL", "ECHO", "ISIG"}) \cup {"VMIN"}

setup_vt100(fd) ==
    /\ lookup(fd)
    /\ attr' = [attr EXCEPT ![open[fd]] = vt100(@)]
    /\ bare' = IF Guarded(fd) THEN bare ELSE bare \cup {open[fd]}
    /\ UNCHANGED <<open, stacks, exited>>

-----------------------------------------------------------------------------
(* Static destructors: the stacks one by one, in the order of a hash map,  *)
(* each from its newest entry to its oldest.                               *)

Exit ==
    /\ ~exited
    /\ exited' = TRUE
    /\ UNCHANGED <<attr, open, stacks, bare, users>>

\* A wrong destructor that starts with the oldest entry.
DestroyOldest(fd) ==
    /\ exited
    /\ stacks[fd] # <<>>
    /\ attr' = IF Last(stacks[fd]).restore /\ is_tty(fd)
               THEN [attr EXCEPT ![open[fd]] = Last(stacks[fd]).attr] ELSE attr
    /\ stacks' = [stacks EXCEPT ![fd] = Front(@)]
    /\ UNCHANGED <<open, exited, bare, users>>

Destroy(fd) ==
    /\ exited
    /\ stacks[fd] # <<>>
    /\ attr' = IF Head(stacks[fd]).restore /\ is_tty(fd)
               THEN [attr EXCEPT ![open[fd]] = Head(stacks[fd]).attr] ELSE attr
    /\ stacks' = [stacks EXCEPT ![fd] = Tail(@)]
    /\ UNCHANGED <<open, exited, bare, users>>

Next ==
    \/ \E fd \in FDs :
        \/ new_tty(fd) \/ Close(fd) \/ pop(fd) \/ setup_vt100(fd) \/ Destroy(fd)
        \/ \E restore \in BOOLEAN : push(fd, restore)
    \/ Exit

Spec == Init /\ [][Next]_vars

-----------------------------------------------------------------------------
(* Properties.                                                             *)

\* A terminal whose settings were changed only under a setting that was pushed
\* to be restored has its first settings back once the static destructors have
\* run, however pushes and pops are nested and whatever is still on the stack,
\* if it was used through one descriptor, which is still open, and no number
\* that was used for another terminal has come back for this one.
RestoredAtExit ==
    \A fd \in FDs :
        /\ exited /\ is_tty(fd) /\ (\A d \in FDs : stacks[d] = <<>>)
        /\ open[fd] \notin bare
        /\ users[open[fd]] \subseteq {fd}
        /\ \A d \in FDs, t \in TTYs \ {open[fd]} :
            open[d] = open[fd] => d \notin users[t]
        => attr[open[fd]] = Cooked
-----------------------------------------------------------------------------
(* What that rests on.                                                     *)

TerminalAssumption == Closed \notin TTYs /\ MaxStack \in Nat

Settings == [attr : SUBSET Flags, restore : BOOLEAN]

Types ==
    /\ attr \in [TTYs -> SUBSET Flags]
    /\ open \in [FDs -> TTYs \cup {Closed}]
    /\ stacks \in [FDs -> Seq(Settings)]
    /\ exited \in BOOLEAN
    /\ bare \in SUBSET TTYs
    /\ users \in [TTYs -> SUBSET FDs]

\* Stack s of a terminal with settings a leads back to the first settings: the
\* oldest that will be restored and all below it, or else a and all of them.
LeadsBack(s, a) ==
    LET NoneBelow(i) == \A j \in (i + 1)..Len(s) : ~s[j].restore
    IN /\ \A i \in 1..Len(s) : NoneBelow(i) => s[i].attr = Cooked
       /\ NoneBelow(0) => a = Cooked

\* What is on a stack was pushed through its descriptor.
StacksHaveUsers ==
    \A fd \in FDs : stacks[fd] # <<>> => \E t \in TTYs : fd \in users[t]

\* Terminal t is used through fd alone, and fd for t; once the program exits,
\* no descriptor with settings of another terminal is open for t.
UsedAlone(t, fd) ==
    /\ t \notin bare
    /\ users[t] \subseteq {fd}
    /\ \A u \in TTYs \ {t} : fd \notin users[u]
    /\ exited => /\ open[fd] = t
                 /\ \A d \in FDs, u \in TTYs \ {t} :
                        open[d] = t => d \notin users[u]

Inductive ==
    /\ Types
    /\ StacksHaveUsers
    /\ \A t \in TTYs, fd \in FDs :
        UsedAlone(t, fd) => LeadsBack(stacks[fd], attr[t])

=============================================================================
