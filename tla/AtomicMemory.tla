----------------------------- MODULE AtomicMemory -----------------------------
(***************************************************************************)
(* What mwr/core/atomics.h promises: every operation on a location takes   *)
(* effect in one step and returns what it found there, as a number.        *)
(* Operands may be narrower than the location: the rest of it stays as it  *)
(* is.  Only plain reads and writes of operands that the machine has no    *)
(* instruction for may come in pieces.                                     *)
(***************************************************************************)
EXTENDS Words

CONSTANTS
    Threads,
    ByteBits,    \* bits of a byte
    NativeSizes, \* the operands, in bytes, that are read and written at once
    Idle

VARIABLES
    mem,  \* the location, a word
    call, \* thread -> the operation it is in, or Idle
    ret   \* thread -> what its last operation returned

vars == <<mem, call, ret>>

Width(size) == size * ByteBits

\* What an operation leaves of an operand n of the given width.
Modulus(c) == 2^Width(c.size)
Found(c) == UInt(Trunc(mem, Width(c.size)))
AsSigned(n, c) == IF 2 * n >= Modulus(c) THEN n - Modulus(c) ELSE n
As(n, c) == IF c.signed THEN AsSigned(n, c) ELSE n
Least(x, y) == IF x <= y THEN x ELSE y
Greatest(x, y) == IF x >= y THEN x ELSE y

\* What is stored of the operations on words, and of those on numbers.
ResultOfWords(c) ==
    IF c.op = "and" THEN UInt(mem \cap c.val)
    ELSE IF c.op = "or" THEN UInt(Trunc(mem, Width(c.size)) \cup c.val)
    ELSE UInt(Xor(Trunc(mem, Width(c.size)), c.val))

ResultOfNumbers(c) ==
    IF c.op = "add" THEN (Found(c) + UInt(c.val)) % Modulus(c)
    ELSE IF c.op = "min" THEN Least(As(Found(c), c), As(UInt(c.val), c))
    ELSE Greatest(As(Found(c), c), As(UInt(c.val), c))

Succeeds(c) == Found(c) = UInt(c.cmp)

Result(c) ==
    IF c.op \in {"and", "or", "xor"} THEN ResultOfWords(c)
    ELSE IF c.op \in {"add", "min", "max"} THEN ResultOfNumbers(c)
    ELSE IF c.op \in {"swap", "write"} \/ (c.op = "cas" /\ Succeeds(c)) THEN UInt(c.val)
    ELSE Found(c)

Returned(c) ==
    IF c.op = "cas" THEN (IF Succeeds(c) THEN 1 ELSE 0)
    ELSE IF c.op = "write" THEN 0
    ELSE As(Found(c), c)

Invoke(t) ==
    /\ call[t] = Idle
    /\ call'[t] # Idle
    /\ \A u \in Threads \ {t} : call'[u] = call[u]
    /\ ret' = [ret EXCEPT ![t] = 0]
    /\ UNCHANGED mem

\* The operation takes effect and returns.
Perform(t) ==
    /\ call[t] # Idle
    /\ call' = [call EXCEPT ![t] = Idle]
    /\ mem' = (mem \ AllOnes(Width(call[t].size)))
                \cup OfInt(Result(call[t]), Width(call[t].size))
    /\ ret' = [ret EXCEPT ![t] = Returned(call[t])]

InPieces(t) ==
    /\ call[t] # Idle
    /\ call[t].op \in {"read", "write"}
    /\ call[t].size \notin NativeSizes

\* A byte of a wide operand is written; a wide read returns what it collected.
WriteByte(t) ==
    /\ InPieces(t)
    /\ call[t].op = "write"
    /\ \E b \in 0..(call[t].size - 1) :
        LET byte == Width(b)..(Width(b + 1) - 1) IN
        mem' = (mem \ byte) \cup (call[t].val \cap byte)
    /\ UNCHANGED <<call, ret>>

EndInPieces(t) ==
    /\ InPieces(t)
    /\ call' = [call EXCEPT ![t] = Idle]
    /\ \A u \in Threads \ {t} : ret'[u] = ret[u]
    /\ UNCHANGED mem

\* A size the operation does not support: an error, and nothing happens.
Refuse(t) ==
    /\ call[t] # Idle
    /\ call' = [call EXCEPT ![t] = Idle]
    /\ call[t].size \notin NativeSizes
    /\ call[t].op \in {"and", "or", "xor", "add", "swap"}
    /\ UNCHANGED <<mem, ret>>

Init ==
    /\ mem = {}
    /\ call = [t \in Threads |-> Idle]
    /\ ret = [t \in Threads |-> 0]

Next == \E t \in Threads :
    Invoke(t) \/ Perform(t) \/ WriteByte(t) \/ EndInPieces(t) \/ Refuse(t)

Spec == Init /\ [][Next]_vars
=============================================================================
