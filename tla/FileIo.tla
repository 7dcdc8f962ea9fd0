------------------------------- MODULE FileIo --------------------------------
(***************************************************************************)
(* Files through descriptors (core/utils.cpp, POSIX branches): processes   *)
(* open one file in the modes of fopen and move whole buffers with loops   *)
(* of read and write that the kernel may cut short or interrupt.  A byte   *)
(* is named after its writer and its place in what that process wrote.     *)
(***************************************************************************)
EXTENDS Naturals, Sequences

CONSTANTS Processes,   \* each holds at most one descriptor at a time
          Modes,       \* the modes it may ask for, out of the six below
          MaxBuffer,   \* longest buffer of a call
          MaxBytes     \* bytes a process writes in its life

VARIABLES content,     \* the file
          flags,       \* of the descriptor; {} while there is none
          pos,         \* its file offset
          pc,          \* "idle", "read" or "write": the call a process is in
          buflen, done,\* the length it was called with, numread or written
          buffer,      \* what fd_read has filled in so far
          ret,         \* how the last call ended: "full", "eof" or "error"
                       \* ("error" also before the first)
          acked        \* per process, how many bytes the kernel took from it

vars == <<content, flags, pos, pc, buflen, done, buffer, ret, acked>>

\* "rb" and so on are the same words with a b; another mode is MWR_ERROR.
Flags(mode) ==
    CASE mode = "r" -> {"RD"}
      [] mode = "w" -> {"WR", "CREAT", "TRUNC"}
      [] mode = "a" -> {"WR", "CREAT", "APPEND"}
      [] mode = "r+" -> {"RD", "WR"}
      [] mode = "w+" -> {"RD", "WR", "CREAT", "TRUNC"}
      [] mode = "a+" -> {"RD", "WR", "CREAT", "APPEND"}

TypeOK ==
    /\ \A p \in Processes :
          /\ flags[p] \subseteq {"RD", "WR", "CREAT", "TRUNC", "APPEND"}
          /\ done[p] <= buflen[p] /\ Len(buffer[p]) <= buflen[p]
          /\ acked[p] \in 0..MaxBytes
    /\ pc \in [Processes -> {"idle", "read", "write"}]
    /\ ret \in [Processes -> {"full", "eof", "error"}]

Init ==
    /\ content = <<>>
    /\ flags = [p \in Processes |-> {}]
    /\ pos = [p \in Processes |-> 0]
    /\ pc = [p \in Processes |-> "idle"]
    /\ buflen = [p \in Processes |-> 0]
    /\ done = [p \in Processes |-> 0]
    /\ buffer = [p \in Processes |-> <<>>]
    /\ ret = [p \in Processes |-> "error"]
    /\ acked = [p \in Processes |-> 0]

fd_open(p, mode) ==
    /\ flags[p] = {}
    /\ flags' = [flags EXCEPT ![p] = Flags(mode)]
    /\ pos' = [pos EXCEPT ![p] = 0]
    /\ content' = IF "TRUNC" \in Flags(mode) THEN <<>> ELSE content
    /\ buflen' = [buflen EXCEPT ![p] = 0]
    /\ done' = [done EXCEPT ![p] = 0]
    /\ buffer' = [buffer EXCEPT ![p] = <<>>]
    /\ ret' = [ret EXCEPT ![p] = "error"]
    /\ UNCHANGED <<pc, acked>>

fd_close(p) ==
    /\ flags[p] # {} /\ pc[p] = "idle"
    /\ flags' = [flags EXCEPT ![p] = {}]
    /\ UNCHANGED <<content, pos, pc, buflen, done, buffer, ret, acked>>

\* Entering fd_read or fd_write; a buffer of no length returns at once.
Call(p, what, n) ==
    /\ flags[p] # {} /\ pc[p] = "idle"
    /\ pc' = [pc EXCEPT ![p] = what]
    /\ buflen' = [buflen EXCEPT ![p] = n]
    /\ done' = [done EXCEPT ![p] = 0]
    /\ buffer' = [buffer EXCEPT ![p] = <<>>]
    /\ UNCHANGED <<content, flags, pos, ret, acked>>

fd_read(p, n) == "RD" \in flags[p] /\ Call(p, "read", n)

fd_write(p, n) ==
    /\ "WR" \in flags[p] /\ acked[p] + n <= MaxBytes
    /\ Call(p, "write", n)

\* len <= 0: end of file or an error ends the call with what it has.
Stop(p, how) ==
    /\ pc' = [pc EXCEPT ![p] = "idle"]
    /\ ret' = [ret EXCEPT ![p] = how]
    /\ UNCHANGED <<content, flags, pos, buflen, done, buffer, acked>>

\* The loop goes on for what is missing (EINTR is a step that does nothing).
Advance(p, len) ==
    /\ done' = [done EXCEPT ![p] = @ + len]
    /\ pc' = [pc EXCEPT ![p] = IF done[p] + len < buflen[p] THEN @ ELSE "idle"]
    /\ ret' = [ret EXCEPT ![p] = IF done[p] + len < buflen[p] THEN @ ELSE "full"]

Missing(p) == 1 .. buflen[p] - done[p]

\* A wrong loop in which every write starts at ptr.
PieceFromStart(p, len) == [i \in 1 .. len |-> <<p, (acked[p] - done[p]) + i>>]

\* ptr + written: the bytes the caller had before the call are acked - done.
Piece(p, len) == [i \in 1 .. len |-> <<p, (acked[p] - done[p]) + done[p] + i>>]

ReadSome(p) ==
    /\ pc[p] = "read"
    /\ \E len \in Missing(p) :
          /\ pos[p] + len <= Len(content)
          /\ buffer' = [buffer EXCEPT ![p] = @ \o SubSeq(content, pos[p] + 1, pos[p] + len)]
          /\ pos' = [pos EXCEPT ![p] = @ + len]
          /\ Advance(p, len)
    /\ UNCHANGED <<content, flags, buflen, acked>>

ReadEof(p) == pc[p] = "read" /\ pos[p] >= Len(content) /\ Stop(p, "eof")

Fails(p) == pc[p] # "idle" /\ Stop(p, "error")

\* The kernel's write: at the end for O_APPEND, over what is there otherwise,
\* which may leave a hole (a 0) where another process truncated the file.
Put(at, bytes) ==
    LET before == [i \in 1 .. at |-> IF i <= Len(content) THEN content[i] ELSE 0]
    IN before \o bytes \o SubSeq(content, at + Len(bytes) + 1, Len(content))

WriteSome(p) ==
    /\ pc[p] = "write"
    /\ \E len \in Missing(p) :
          LET at == IF "APPEND" \in flags[p] THEN Len(content) ELSE pos[p]
          IN /\ content' = Put(at, Piece(p, len))
             /\ pos' = [pos EXCEPT ![p] = at + len]
             /\ acked' = [acked EXCEPT ![p] = @ + len]
             /\ Advance(p, len)
    /\ UNCHANGED <<flags, buflen, buffer>>

Next ==
    \E p \in Processes :
        \/ \E mode \in Modes : fd_open(p, mode)
        \/ fd_close(p)
        \/ \E n \in 1 .. MaxBuffer : fd_read(p, n) \/ fd_write(p, n)
        \/ ReadSome(p)
        \/ ReadEof(p)
        \/ WriteSome(p)
        \/ Fails(p)

Spec == Init /\ [][Next]_vars

-----------------------------------------------------------------------------
\* Where in the file is what p wrote.
Places(p) == {k \in DOMAIN content : content[k][1] = p}

(* Calls cut short, interrupted or failing half way never lose, repeat or  *)
(* overtake a byte (utils.cpp:444-508): what an appender was told is       *)
(* written is in the file, in its order and once, whoever else appends,    *)
(* and what a reader holds is one unbroken piece of the file, complete     *)
(* unless it was told of the end or of an error.  For the modes "r", "a"   *)
(* and "a+"; with the others processes overwrite each other by intent.     *)
TransfersAreWhole ==
    \A p \in Processes :
        /\ {content[k][2] : k \in Places(p)} = 1 .. acked[p]
        /\ \A j, k \in Places(p) : j < k => content[j][2] < content[k][2]
        /\ "RD" \in flags[p] /\ "APPEND" \notin flags[p] =>
               /\ buffer[p] = SubSeq(content, pos[p] - Len(buffer[p]) + 1, pos[p])
               /\ pc[p] = "idle" /\ ret[p] = "full" => Len(buffer[p]) = buflen[p]

-----------------------------------------------------------------------------
(* What that rests on.                                                     *)

\* Files that are only read and appended to.
FileIoAssumption ==
    /\ Modes \subseteq {"r", "a", "a+"}
    /\ MaxBuffer \in Nat /\ MaxBytes \in Nat

Bytes == Processes \X Nat
Reads(p) == "RD" \in flags[p] /\ "APPEND" \notin flags[p]

\* The state of a call: no process is promised more than it may write, and
\* writers append.
Calls ==
    /\ pos \in [Processes -> Nat] /\ acked \in [Processes -> Nat]
    /\ done \in [Processes -> Nat] /\ buflen \in [Processes -> Nat]
    /\ pc \in [Processes -> {"idle", "read", "write"}]
    /\ ret \in [Processes -> {"full", "eof", "error"}]
    /\ flags \in [Processes -> {{}} \cup {Flags(mode) : mode \in {"r", "a", "a+"}}]
    /\ \A p \in Processes :
        /\ done[p] <= buflen[p]
        /\ acked[p] <= MaxBytes
        /\ pc[p] = "write" => /\ "APPEND" \in flags[p]
                              /\ acked[p] + (buflen[p] - done[p]) <= MaxBytes

\* The file holds what was acknowledged, each byte in one place.
Appended ==
    /\ content \in Seq(Bytes)
    /\ \A p \in Processes :
        /\ \A i \in 1 .. acked[p] : \E k \in 1 .. Len(content) : content[k] = <<p, i>>
        /\ \A k \in 1 .. Len(content) :
            content[k][1] = p => content[k][2] \in 1 .. acked[p]
        /\ \A j, k \in 1 .. Len(content) :
            j < k /\ content[j][1] = p /\ content[k][1] = p =>
                content[j][2] < content[k][2]

\* A buffer is filled with what lies before the offset.
Filled ==
    /\ buffer \in [Processes -> Seq(Bytes)]
    /\ \A p \in Processes :
        /\ pc[p] = "read" => Len(buffer[p]) = done[p]
        /\ Len(buffer[p]) <= buflen[p]
        /\ Reads(p) =>
            /\ Len(buffer[p]) <= pos[p] /\ pos[p] <= Len(content)
            /\ \A i \in 1 .. Len(buffer[p]) :
                buffer[p][i] = content[pos[p] - Len(buffer[p]) + i]
            /\ pc[p] # "write"
            /\ pc[p] = "idle" /\ ret[p] = "full" => Len(buffer[p]) = buflen[p]

Inductive == Calls /\ Appended /\ Filled
=============================================================================
