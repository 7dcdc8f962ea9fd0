------------------------------- MODULE Atomics -------------------------------
(***************************************************************************)
(* mwr/core/atomics.h: operations of several threads on one location.      *)
(*                                                                         *)
(* A call carries its operands as words of the width of its type T; where  *)
(* the location lies, and how far T reaches into it, is given by its size. *)
(* The operands cmp and val are private to the caller.  The instructions   *)
(* behind the compiler's built-ins, cmpxchg16b and the retried pair of     *)
(* ldaxp and stlxp are atomic; memcpy goes byte by byte in any order.      *)
(***************************************************************************)
EXTENDS Words

CONSTANTS
    Threads,
    ByteBits,    \* bits of a byte
    NativeSizes, \* the operands, in bytes, the machine has instructions for
    CasSizes,    \* ... for compare and swap
    LongBits,    \* the width of u64 and i64
    Calls,       \* the operations threads perform
    Idle

VARIABLES
    mem,  \* the location, a word
    call, \* thread -> the operation it is in, or Idle
    ret,  \* thread -> what its last operation returned
    curr, \* thread -> the local copy of the location
    left, \* thread -> the bytes memcpy has still to copy
    pc    \* thread -> "read" or "cas", the two steps of the loops

vars == <<mem, call, ret, curr, left, pc>>

Width(c) == c.size * ByteBits
Bytes(c) == 0..(c.size - 1)
Byte(b) == (b * ByteBits)..(b * ByteBits + ByteBits - 1)

\* Operands with an instruction are no wider than a long.
AtomicsAssumption ==
    /\ ByteBits \in Nat \ {0}
    /\ LongBits \in Nat
    /\ \A size \in NativeSizes : size \in Nat => size * ByteBits <= LongBits
    /\ Idle \notin Calls
    /\ \A c \in Calls :
        /\ c.op \in {"read", "write", "and", "or", "xor", "add", "swap", "cas",
                     "min", "max"}
        /\ c.size \in Nat \ {0}
        /\ c.signed \in BOOLEAN
        /\ c.val \in Word(Width(c))
        /\ c.cmp \in Word(Width(c))

TypeOK ==
    /\ mem \subseteq Nat
    /\ call \in [Threads -> Calls \cup {Idle}]
    /\ ret \in [Threads -> Int]
    /\ curr \in [Threads -> SUBSET Nat]
    /\ left \in [Threads -> SUBSET Nat]
    /\ \A t \in Threads :
        IF call[t] = Idle THEN curr[t] = {} /\ left[t] = {} /\ pc[t] = "read"
        ELSE /\ curr[t] \in Word(Width(call[t]))
             /\ left[t] \subseteq Bytes(call[t])
    /\ pc \in [Threads -> {"read", "cas"}]

Init ==
    /\ mem = {}
    /\ call = [t \in Threads |-> Idle]
    /\ ret = [t \in Threads |-> 0]
    /\ curr = [t \in Threads |-> {}]
    /\ left = [t \in Threads |-> {}]
    /\ pc = [t \in Threads |-> "read"]

-----------------------------------------------------------------------------
(* Operands.                                                               *)

Operand(c) == Trunc(mem, Width(c))

Stored(c, x) == (mem \ AllOnes(Width(c))) \cup x

\* A word of the call's type T as the number it stands for.
AsT(c, x) == IF c.signed THEN SInt(x, Width(c)) ELSE UInt(x)

\* The conversions of T to u64, or i64 for atomic_add, and back.
ToLong(c, x) == Extend(x, Width(c), c.signed, LongBits)
FromLong(c, x) == Trunc(x, Width(c))

std_min(c, x, y) == IF AsT(c, y) < AsT(c, x) THEN y ELSE x
std_max(c, x, y) == IF AsT(c, x) < AsT(c, y) THEN y ELSE x

Return(t, n) ==
    /\ call' = [call EXCEPT ![t] = Idle]
    /\ ret' = [ret EXCEPT ![t] = n]
    /\ curr' = [curr EXCEPT ![t] = {}]
    /\ left' = [left EXCEPT ![t] = {}]
    /\ pc' = [pc EXCEPT ![t] = "read"]

Call(t, c) ==
    /\ call[t] = Idle
    /\ call' = [call EXCEPT ![t] = c]
    /\ ret' = [ret EXCEPT ![t] = 0]
    /\ left' = [left EXCEPT ![t] =
                    IF c.size \in NativeSizes THEN {} ELSE Bytes(c)]
    /\ UNCHANGED <<mem, curr, pc>>

-----------------------------------------------------------------------------
(* read_once and write_once.                                               *)

\* The load: the read is over, a loop goes on with what it found.
read_once(t) ==
    /\ call[t] # Idle
    /\ call[t].size \in NativeSizes
    /\ \/ /\ call[t].op = "read"
          /\ Return(t, AsT(call[t], Operand(call[t])))
       \/ /\ call[t].op \in {"min", "max"}
          /\ pc[t] = "read"
          /\ curr' = [curr EXCEPT ![t] = Operand(call[t])]
          /\ pc' = [pc EXCEPT ![t] = "cas"]
          /\ UNCHANGED <<call, ret, left>>
    /\ UNCHANGED mem

\* The default case: memcpy copies another byte.
read_memcpy(t) ==
    /\ call[t] # Idle
    /\ call[t].op \in {"read", "min", "max"}
    /\ \E b \in left[t] :
        /\ curr' = [curr EXCEPT ![t] = (@ \ Byte(b)) \cup (mem \cap Byte(b))]
        /\ left' = [left EXCEPT ![t] = @ \ {b}]
    /\ pc' = [pc EXCEPT ![t] = IF left'[t] = {} THEN "cas" ELSE "read"]
    /\ UNCHANGED <<mem, call, ret>>

EndRead(t) ==
    /\ call[t] # Idle
    /\ call[t].op = "read"
    /\ pc[t] = "cas"
    /\ Return(t, AsT(call[t], curr[t]))
    /\ UNCHANGED mem

write_once(t) ==
    /\ call[t] # Idle
    /\ call[t].op = "write"
    /\ call[t].size \in NativeSizes
    /\ mem' = Stored(call[t], call[t].val)
    /\ Return(t, 0)

write_memcpy(t) ==
    /\ call[t] # Idle
    /\ call[t].op = "write"
    /\ \E b \in left[t] :
        /\ mem' = (mem \ Byte(b)) \cup (call[t].val \cap Byte(b))
        /\ left' = [left EXCEPT ![t] = @ \ {b}]
    /\ UNCHANGED <<call, ret, curr, pc>>

EndWrite(t) ==
    /\ call[t] # Idle
    /\ call[t].op = "write"
    /\ call[t].size \notin NativeSizes
    /\ left[t] = {}
    /\ Return(t, 0)
    /\ UNCHANGED mem

-----------------------------------------------------------------------------
(* The operations with one instruction.  Each has a function per size that *)
(* works on its operand cut down to that size, one that selects it and     *)
(* returns its result as u64 or i64, and a template on top.                *)

ToU64(c, x) == Extend(x, Width(c), FALSE, LongBits)
ToI64(c, x) == Extend(x, Width(c), TRUE, LongBits)

Supported(t, op) ==
    /\ call[t] # Idle
    /\ call[t].op = op
    /\ call[t].size \in NativeSizes

\* An operation that stores a word and returns what it found as a long.
Exchange(t, new, old) ==
    /\ mem' = Stored(call[t], Trunc(new, Width(call[t])))
    /\ Return(t, AsT(call[t], FromLong(call[t], old)))

atomic_and(t) ==
    /\ Supported(t, "and")
    /\ LET c == call[t] IN
        Exchange(t, Operand(c) \cap ToLong(c, c.val), ToU64(c, Operand(c)))

atomic_or(t) ==
    /\ Supported(t, "or")
    /\ LET c == call[t] IN
        Exchange(t, Operand(c) \cup ToLong(c, c.val), ToU64(c, Operand(c)))

atomic_xor(t) ==
    /\ Supported(t, "xor")
    /\ LET c == call[t] IN
        Exchange(t, Xor(Operand(c), ToLong(c, c.val)), ToU64(c, Operand(c)))

atomic_add(t) ==
    /\ Supported(t, "add")
    /\ LET c == call[t] IN
        Exchange(t, Add(Operand(c), FromLong(c, ToLong(c, c.val)), Width(c)),
                 ToI64(c, Operand(c)))

atomic_swap(t) ==
    /\ Supported(t, "swap")
    /\ LET c == call[t] IN
        Exchange(t, ToLong(c, c.val), ToU64(c, Operand(c)))

\* MWR_ERROR in the default case.
Unsupported(t) ==
    /\ call[t] # Idle
    /\ call[t].op \in {"and", "or", "xor", "add", "swap"}
    /\ call[t].size \notin NativeSizes
    /\ Return(t, 0)
    /\ UNCHANGED mem

-----------------------------------------------------------------------------
(* Compare and swap, and the loops around it.                              *)

atomic_cas(t) ==
    /\ call[t] # Idle
    /\ call[t].op = "cas"
    /\ call[t].size \in CasSizes
    /\ LET success == Operand(call[t]) = call[t].cmp IN
        /\ mem' = IF success THEN Stored(call[t], call[t].val) ELSE mem
        /\ Return(t, IF success THEN 1 ELSE 0)

\* A wrong loop that stores without comparing.
SwapBlindly(t, op, next) ==
    /\ call[t] # Idle
    /\ call[t].op = op
    /\ pc[t] = "cas"
    /\ mem' = Stored(call[t], next)
    /\ Return(t, AsT(call[t], curr[t]))

\* atomic_cas(mem, curr, next): return what was replaced, or read again.
SwapOrRetry(t, op, next) ==
    /\ call[t] # Idle
    /\ call[t].op = op
    /\ pc[t] = "cas"
    /\ \/ /\ Operand(call[t]) = curr[t]
          /\ mem' = Stored(call[t], next)
          /\ Return(t, AsT(call[t], curr[t]))
       \/ /\ Operand(call[t]) # curr[t]
          /\ pc' = [pc EXCEPT ![t] = "read"]
          /\ curr' = [curr EXCEPT ![t] = {}]
          /\ left' = [left EXCEPT ![t] = IF call[t].size \in NativeSizes
                                         THEN {} ELSE Bytes(call[t])]
          /\ UNCHANGED <<mem, call, ret>>

atomic_min(t) == SwapOrRetry(t, "min", std_min(call[t], curr[t], call[t].val))

atomic_max(t) == SwapOrRetry(t, "max", std_max(call[t], curr[t], call[t].val))

-----------------------------------------------------------------------------
Next == \E t \in Threads :
    \/ \E c \in Calls : Call(t, c)
    \/ read_once(t) \/ read_memcpy(t) \/ EndRead(t)
    \/ write_once(t) \/ write_memcpy(t) \/ EndWrite(t)
    \/ atomic_and(t) \/ atomic_or(t) \/ atomic_xor(t) \/ atomic_add(t)
    \/ atomic_swap(t) \/ Unsupported(t)
    \/ atomic_cas(t) \/ atomic_min(t) \/ atomic_max(t)

Spec == Init /\ [][Next]_vars

-----------------------------------------------------------------------------
(* Properties.                                                             *)

\* Operands with an instruction are not copied in pieces.
NoPieces ==
    \A t \in Threads :
        call[t] # Idle /\ call[t].size \in NativeSizes =>
            left[t] = {} /\ (call[t].op = "read" => pc[t] = "read")

\* An operation that is not over has not returned anything.
NothingReturned == \A t \in Threads : call[t] # Idle => ret[t] = 0

Inductive == TypeOK /\ NoPieces /\ NothingReturned

Abstract == INSTANCE AtomicMemory

\* Whatever the other threads do between the load and the compare-and-swap of
\* atomic_min and atomic_max, and however torn a wide load was, each operation
\* takes effect in one step, on no more than its own bytes, and returns the
\* value that it replaced, with the sign of its type.
ImplementsAtomicMemory == Abstract!Spec
=============================================================================
