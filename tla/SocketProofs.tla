---------------------------- MODULE SocketProofs ----------------------------
(***************************************************************************)
(* Proofs about Socket, for any threads and any number of addresses and    *)
(* sockets, and calls that overlap in any way.                             *)
(***************************************************************************)
EXTENDS Socket, TLAPS

USE DEF fields, world, Goto, Enter

\* The part of TypeOK about the calls in progress, and that about the object.
CallsOK ==
    /\ m_mtx \in Threads \cup {Nobody}
    /\ pc \in [Threads -> PCs]
    /\ call \in [Threads -> Calls]
    /\ conn \in [Threads -> 0..MaxSockets]
    /\ left \in 0..MaxAddrs

ObjectOK ==
    /\ m_conn \in 0..MaxSockets
    /\ m_peer \in BOOLEAN
    /\ m_port \in BOOLEAN
    /\ sockets \in 0..MaxSockets
    /\ open \in SUBSET (1..MaxSockets)
    /\ clash \in BOOLEAN

LEMMA TwoParts == TypeOK <=> CallsOK /\ ObjectOK
BY DEF TypeOK, CallsOK, ObjectOK

LEMMA LeaveType ==
    ASSUME SocketAssumption, CallsOK, NEW t \in Threads, Leave(t)
    PROVE  CallsOK'
<1>1. 0 \in 0..MaxAddrs /\ 0 \in 0..MaxSockets /\ "idle" \in PCs /\ "none" \in Calls
    BY DEF SocketAssumption, PCs, Calls
<1>2. m_mtx' \in Threads \cup {Nobody} /\ left' \in 0..MaxAddrs
    BY <1>1 DEF Leave, CallsOK
<1>3. QED
    BY <1>1, <1>2 DEF Leave, CallsOK

\* The steps keep the calls' variables in their ranges ...
LEMMA CallsStep ==
    ASSUME SocketAssumption, TypeOK, Locked, [Next]_vars
    PROVE  CallsOK'
<1>0. CallsOK /\ ObjectOK
    BY TwoParts
<1> USE <1>0 DEF CallsOK, PCs, Calls, Transfers, InConnect, InDisconnectLocked
<1>1. ASSUME NEW t \in Threads, connect(t) \/ disconnect(t) PROVE CallsOK'
    BY <1>1 DEF connect, disconnect
<1>2. ASSUME NEW t \in Threads, NEW c \in Transfers, TransferStart(t, c)
      PROVE  CallsOK'
    BY <1>2 DEF TransferStart
<1>3. ASSUME NEW t \in Threads, DisconnectCheck(t) \/ DisconnectPort(t)
      PROVE  CallsOK'
    BY <1>3, LeaveType DEF DisconnectCheck, DisconnectPort, EndDisconnect
<1>4. ASSUME NEW t \in Threads,
             DisconnectClose(t) \/ DisconnectForget(t) \/ DisconnectPeer(t)
      PROVE  CallsOK'
    BY <1>4 DEF DisconnectClose, DisconnectForget, DisconnectPeer
<1>5. ASSUME NEW t \in Threads, Resolve(t) PROVE CallsOK'
    BY <1>5, LeaveType DEF Resolve
<1>6. ASSUME NEW t \in Threads, CreateSocket(t) PROVE CallsOK'
    BY <1>6, LeaveType DEF CreateSocket
<1>7. ASSUME NEW t \in Threads, AddressFails(t) PROVE CallsOK'
    <2>1. left > 0
        BY <1>7 DEF AddressFails, Locked
    <2>2. left - 1 \in 0..MaxAddrs
        BY <2>1 DEF SocketAssumption
    <2>3. QED
        BY <1>7, <2>2 DEF AddressFails
<1>8. ASSUME NEW t \in Threads, AddressWorks(t) \/ SetPort(t) \/ EndConnect(t)
      PROVE  CallsOK'
    BY <1>8, LeaveType DEF AddressWorks, SetPort, EndConnect
<1>9. ASSUME NEW t \in Threads,
             TransferNext(t) \/ TransferDone(t) \/ TransferOk(t)
      PROVE  CallsOK'
    BY <1>9, LeaveType DEF TransferNext, TransferDone, TransferOk, ObjectOK
<1>10. ASSUME NEW t \in Threads, TransferFails(t) \/ PeekDisconnect(t)
       PROVE  CallsOK'
    BY <1>10 DEF TransferFails, PeekDisconnect
<1>11. CASE UNCHANGED vars
    BY <1>11 DEF vars
<1>12. QED
    BY <1>1, <1>2, <1>3, <1>4, <1>5, <1>6, <1>7, <1>8, <1>9, <1>10, <1>11
    DEF Next, Step, Running

\* ... and those of the object.
LEMMA ObjectStep ==
    ASSUME SocketAssumption, ObjectOK, [Next]_vars
    PROVE  ObjectOK'
<1>0. clash' \in BOOLEAN
    BY DEF ObjectOK, Next, vars
<1> USE <1>0 DEF ObjectOK
<1>1. ASSUME NEW t \in Threads, CreateSocket(t) PROVE ObjectOK'
    <2>1. sockets < MaxSockets => /\ sockets + 1 \in 0..MaxSockets
                                  /\ sockets + 1 \in 1..MaxSockets
        BY DEF SocketAssumption
    <2>2. 0 \in 0..MaxSockets
        BY DEF SocketAssumption
    <2>3. QED
        BY <1>1, <2>1, <2>2 DEF CreateSocket
<1>2. ASSUME NEW t \in Threads,
             \/ DisconnectForget(t) \/ DisconnectPeer(t) \/ DisconnectPort(t)
             \/ AddressFails(t) \/ AddressWorks(t) \/ SetPort(t)
      PROVE  ObjectOK'
    <2>1. 0 \in 0..MaxSockets
        BY DEF SocketAssumption
    <2>2. QED
        BY <1>2, <2>1
        DEF DisconnectForget, DisconnectPeer, DisconnectPort, AddressFails,
            AddressWorks, SetPort
<1>3. ASSUME NEW t \in Threads, DisconnectClose(t) PROVE ObjectOK'
    BY <1>3 DEF DisconnectClose
<1>4. CASE UNCHANGED <<m_conn, m_peer, m_port, sockets, open>>
    BY <1>4
<1>5. QED
    BY <1>1, <1>2, <1>3, <1>4
    DEF Next, Step, Running, vars, connect, disconnect, TransferStart,
        DisconnectCheck, Resolve, EndConnect, TransferNext, TransferDone,
        TransferOk, TransferFails, PeekDisconnect

LEMMA TypeStep ==
    ASSUME SocketAssumption, TypeOK, Locked, [Next]_vars
    PROVE  TypeOK'
<1>1. ObjectOK'
    BY ObjectStep, TwoParts
<1>2. CallsOK'
    BY CallsStep
<1>3. QED
    BY <1>1, <1>2 DEF TypeOK, CallsOK, ObjectOK

-----------------------------------------------------------------------------
(* connect and disconnect hold the lock.                                   *)

\* The part of Locked about each thread.
LocksHeld ==
    \A t \in Threads :
        /\ call[t] = "none" <=> pc[t] = "idle"
        /\ pc[t] \in InConnect => call[t] = "connect"
        /\ call[t] \in {"connect", "disconnect"} => m_mtx = t
        /\ pc[t] \in {"socket", "connecting"} => left > 0

LEMMA LockedStep ==
    ASSUME SocketAssumption, TypeOK, Locked, [Next]_vars
    PROVE  Locked'
<1>00. LocksHeld /\ (~clash => ~Clash)
    BY DEF Locked, LocksHeld
<1>0. /\ pc \in [Threads -> PCs] /\ call \in [Threads -> Calls]
      /\ Nobody \notin Threads
    BY DEF SocketAssumption, TypeOK
<1> USE <1>0, <1>00 DEF LocksHeld, InConnect, Leave
<1>1. ASSUME NEW t \in Threads, connect(t) \/ disconnect(t)
      PROVE  LocksHeld'
    BY <1>1 DEF connect, disconnect
<1>2. ASSUME NEW t \in Threads, NEW c \in Transfers, TransferStart(t, c)
      PROVE  LocksHeld'
    BY <1>2 DEF TransferStart, Transfers
<1>3. ASSUME NEW t \in Threads, DisconnectCheck(t) \/ DisconnectPort(t)
      PROVE  LocksHeld'
    BY <1>3 DEF DisconnectCheck, DisconnectPort, EndDisconnect
<1>4. ASSUME NEW t \in Threads,
             DisconnectClose(t) \/ DisconnectForget(t) \/ DisconnectPeer(t)
      PROVE  LocksHeld'
    BY <1>4 DEF DisconnectClose, DisconnectForget, DisconnectPeer
<1>5. ASSUME NEW t \in Threads, Resolve(t) \/ CreateSocket(t)
      PROVE  LocksHeld'
    BY <1>5 DEF Resolve, CreateSocket
<1>6. ASSUME NEW t \in Threads,
             AddressFails(t) \/ AddressWorks(t) \/ SetPort(t) \/ EndConnect(t)
      PROVE  LocksHeld'
    BY <1>6 DEF AddressFails, AddressWorks, SetPort, EndConnect
<1>7. ASSUME NEW t \in Threads,
             TransferNext(t) \/ TransferDone(t) \/ TransferOk(t)
      PROVE  LocksHeld'
    BY <1>7 DEF TransferNext, TransferDone, TransferOk
<1>8. ASSUME NEW t \in Threads, TransferFails(t) \/ PeekDisconnect(t)
      PROVE  LocksHeld'
    BY <1>8 DEF TransferFails, PeekDisconnect
<1>9. ASSUME UNCHANGED vars PROVE LocksHeld'
    BY <1>9 DEF vars
<1>10. LocksHeld'
    BY <1>1, <1>2, <1>3, <1>4, <1>5, <1>6, <1>7, <1>8, <1>9
    DEF Next, Step, Running
<1>11. ~clash' => ~Clash'
    <2>1. CASE UNCHANGED vars
        BY <2>1 DEF vars, Clash
    <2>2. CASE Next
        <3>1. clash' = (clash \/ Clash')
            BY <2>2 DEF Next
        <3>2. QED
            BY ONLY <3>1
    <2>3. QED
        BY <2>1, <2>2
<1>12. QED
    BY <1>10, <1>11 DEF Locked, LocksHeld

-----------------------------------------------------------------------------
(* What is noted of the connection.                                        *)

Noted == Connecting /\ TearDown

\* While a thread is in connect, and there was no clash, no other thread is in
\* connect or in disconnect_locked.
LEMMA SoloConnect ==
    ASSUME Locked, ~clash, NEW t \in Threads, pc[t] \in InConnect \/ call[t] = "connect"
    PROVE  /\ call[t] = "connect" /\ m_mtx = t
           /\ \A u \in Threads :
                 u # t => pc[u] \notin InConnect \cup InDisconnectLocked
BY DEF Locked, Clash

\* Between calls, what is noted agrees.
LEMMA Settled ==
    ASSUME TypeOK, TearDown,
           \A t \in Threads :
             pc[t] \notin InConnect \cup {"d_forget", "d_peer", "d_port"}
    PROVE  \/ m_conn # 0 /\ open = {m_conn} /\ m_peer /\ m_port
           \/ m_conn = 0 /\ open = {} /\ ~m_peer /\ ~m_port
<1>1. At("d_forget") = {} /\ At("d_peer") = {} /\ At("d_port") = {}
    BY DEF At
<1>2. /\ m_conn # 0 => m_peer
      /\ m_peer => m_port
      /\ m_conn # 0 => open # {}
      /\ m_conn = 0 => ~m_peer
      /\ ~m_peer => ~m_port
    BY <1>1 DEF TearDown
<1>3. open \subseteq {m_conn} \ {0}
    BY DEF TearDown
<1>4. QED
    BY <1>2, <1>3 DEF TypeOK

\* connect's own steps.
LEMMA ConnectSteps ==
    ASSUME SocketAssumption, TypeOK, Locked, ~clash, Noted,
           NEW t \in Threads, pc[t] \in InConnect,
           \/ Resolve(t) \/ CreateSocket(t) \/ AddressFails(t)
           \/ AddressWorks(t) \/ SetPort(t) \/ EndConnect(t)
    PROVE  Noted'
<1>0. \A u \in Threads : u # t => pc[u] \notin InConnect \cup InDisconnectLocked
    BY SoloConnect
<1>1. \A u \in Threads : u # t => pc'[u] \notin InConnect \cup InDisconnectLocked
    BY <1>0 DEF Resolve, CreateSocket, AddressFails, AddressWorks, SetPort,
                EndConnect, Leave, TypeOK
<1>2. /\ pc \in [Threads -> PCs] /\ t \in At(pc[t])
      /\ sockets \in Nat /\ left \in Nat
    BY DEF SocketAssumption, TypeOK, At
<1> USE <1>2 DEF Noted, Connecting, TearDown, InConnect, InDisconnectLocked
<1>3. CASE Resolve(t)
    <2>1. m_conn = 0 /\ ~m_peer /\ ~m_port /\ open = {}
        BY <1>3 DEF Resolve
    <2>2. UNCHANGED <<m_conn, m_peer, m_port, open>>
        BY <1>3 DEF Resolve
    <2>3. \/ pc'[t] = "socket"
          \/ pc'[t] = "idle"
        BY <1>3 DEF Resolve, Leave
    <2>4. QED
        BY <1>1, <2>1, <2>2, <2>3 DEF At
<1>4. CASE CreateSocket(t)
    <2>1. m_conn = 0 /\ ~m_peer /\ ~m_port /\ open = {}
        BY <1>4 DEF CreateSocket
    <2>2. UNCHANGED <<m_peer, m_port>>
        BY <1>4 DEF CreateSocket
    <2>3. \/ pc'[t] = "connecting" /\ m_conn' # 0 /\ open' = {m_conn'}
          \/ pc'[t] = "idle" /\ m_conn' = 0 /\ open' = {}
        BY <1>4, <2>1 DEF CreateSocket, Leave
    <2>4. QED
        BY <1>1, <2>1, <2>2, <2>3 DEF At
<1>5. CASE AddressFails(t)
    <2>1. open = {m_conn} /\ ~m_peer /\ ~m_port
        BY <1>5 DEF AddressFails
    <2>2. /\ UNCHANGED <<m_peer, m_port>> /\ m_conn' = 0 /\ open' = {}
          /\ pc'[t] \in {"socket", "check"}
        BY <1>5, <2>1 DEF AddressFails
    <2>3. QED
        BY <1>1, <2>1, <2>2 DEF At
<1>6. CASE AddressWorks(t) \/ SetPort(t)
    <2>1. open = {m_conn} /\ m_conn # 0 /\ ~m_port
        BY <1>6 DEF AddressWorks, SetPort
    <2>2. /\ UNCHANGED <<m_conn, open>>
          /\ \/ pc'[t] = "port" /\ m_peer' /\ ~m_port'
             \/ pc'[t] = "check" /\ m_peer' /\ m_port'
        BY <1>6, <2>1 DEF AddressWorks, SetPort
    <2>3. QED
        BY <1>1, <2>1, <2>2 DEF At
<1>7. CASE EndConnect(t)
    <2>1. \/ open = {m_conn} /\ m_conn # 0 /\ m_peer /\ m_port
          \/ m_conn = 0 /\ open = {} /\ ~m_peer /\ ~m_port
        BY <1>7 DEF EndConnect
    <2>2. UNCHANGED <<m_conn, m_peer, m_port, open>> /\ pc'[t] = "idle"
        BY <1>7 DEF EndConnect, Leave
    <2>3. QED
        BY <1>1, <2>1, <2>2 DEF At
<1>8. QED
    BY <1>3, <1>4, <1>5, <1>6, <1>7

\* A call begins.
LEMMA StartSteps ==
    ASSUME SocketAssumption, TypeOK, Locked, ~clash, Noted, ~Clash',
           NEW t \in Threads,
           connect(t) \/ disconnect(t) \/ \E c \in Transfers : TransferStart(t, c)
    PROVE  Noted'
<1>1. /\ pc[t] = "idle" /\ m_mtx = Nobody
      /\ UNCHANGED <<m_conn, m_peer, m_port, open>>
      /\ \A u \in Threads : u # t => pc'[u] = pc[u]
      /\ pc'[t] \in {"d_check", "next", "resolve"}
    BY DEF connect, disconnect, TransferStart, TypeOK
<1>2. CASE pc'[t] \in {"d_check", "next"}
    BY <1>1, <1>2 DEF Noted, Connecting, TearDown, At, InConnect
<1>3. CASE pc'[t] = "resolve"
    <2>1. m_conn = 0 /\ call'[t] = "connect"
        BY <1>1, <1>3 DEF connect, disconnect, TransferStart, TypeOK
    <2>2. \A u \in Threads : u # t => pc[u] \notin InDisconnectLocked
        BY <1>1, <2>1 DEF Clash
    <2>3. \A u \in Threads : pc[u] \notin InConnect
        BY <1>1, SoloConnect DEF SocketAssumption
    <2>4. open = {} /\ ~m_peer /\ ~m_port
        BY <1>1, <2>1, <2>2, <2>3, Settled DEF Noted, InDisconnectLocked
    <2>5. \A u \in Threads : u # t => pc'[u] \notin InConnect \cup InDisconnectLocked
        BY <1>1, <2>2, <2>3
    <2>6. QED
        BY <1>1, <1>3, <2>1, <2>4, <2>5
        DEF Noted, Connecting, TearDown, At, InConnect, InDisconnectLocked
<1>4. QED
    BY <1>1, <1>2, <1>3

\* Transfers, and a peek that goes on to disconnect, change nothing noted.
LEMMA TransferSteps ==
    ASSUME TypeOK, Noted, NEW t \in Threads,
           \/ TransferNext(t) \/ TransferDone(t) \/ TransferOk(t)
           \/ TransferFails(t) \/ PeekDisconnect(t)
    PROVE  Noted'
<1>1. /\ pc[t] \in {"next", "transfer", "disconnect"}
      /\ pc'[t] \in {"next", "transfer", "disconnect", "d_check", "idle"}
      /\ UNCHANGED <<m_conn, m_peer, m_port, open>>
      /\ \A u \in Threads : u # t => pc'[u] = pc[u]
    BY DEF TransferNext, TransferDone, TransferOk, TransferFails,
           PeekDisconnect, Leave, TypeOK
<1>2. QED
    BY <1>1 DEF Noted, Connecting, TearDown, At, InConnect

\* Whoever tears the connection down leaves the next thing to do to itself.
LEMMA DisconnectSteps ==
    ASSUME TypeOK, Locked, ~clash, Noted, NEW t \in Threads,
           \/ DisconnectCheck(t) \/ DisconnectClose(t) \/ DisconnectForget(t)
           \/ DisconnectPeer(t) \/ DisconnectPort(t)
    PROVE  Noted'
<1>0. /\ pc[t] \in InDisconnectLocked
      /\ \A u \in Threads : u # t => pc'[u] = pc[u]
      /\ pc \in [Threads -> PCs] /\ m_peer \in BOOLEAN /\ m_port \in BOOLEAN
    BY DEF DisconnectCheck, DisconnectClose, DisconnectForget, DisconnectPeer,
           DisconnectPort, EndDisconnect, Leave, TypeOK, InDisconnectLocked
<1>1. \A u \in Threads : pc[u] \notin InConnect
    BY <1>0, SoloConnect DEF InConnect, InDisconnectLocked
<1>2. call[t] = "connect" =>
        \A u \in Threads : u # t => pc[u] \notin InConnect \cup InDisconnectLocked
    BY SoloConnect
<1>3. CASE DisconnectCheck(t)
    <2>1. UNCHANGED <<m_conn, m_peer, m_port, open>> /\ pc[t] = "d_check"
        BY <1>3 DEF DisconnectCheck
    <2>2. CASE pc'[t] = "resolve"
        <3>1. /\ m_conn = 0
              /\ \A u \in Threads :
                    u # t => pc[u] \notin InConnect \cup InDisconnectLocked
            BY <1>0, <1>2, <1>3, <2>2
            DEF DisconnectCheck, EndDisconnect, Leave
        <3>2. open = {} /\ ~m_peer /\ ~m_port
            BY <2>1, <3>1, Settled DEF Noted, InConnect, InDisconnectLocked
        <3>3. QED
            BY <1>0, <2>1, <2>2, <3>1, <3>2
            DEF Noted, Connecting, TearDown, At, InConnect, InDisconnectLocked
    <2>3. CASE pc'[t] \in {"idle", "d_close"}
        BY <1>0, <1>1, <2>1, <2>3
        DEF Noted, Connecting, TearDown, At, InConnect
    <2>4. QED
        BY <1>0, <1>3, <2>2, <2>3 DEF DisconnectCheck, EndDisconnect, Leave
<1>4. CASE DisconnectClose(t)
    <2>1. /\ pc[t] = "d_close" /\ pc'[t] = "d_forget" /\ open' = {}
          /\ UNCHANGED <<m_conn, m_peer, m_port>>
        BY <1>0, <1>4 DEF DisconnectClose, Noted, TearDown
    <2>2. QED
        BY <1>0, <1>1, <2>1 DEF Noted, Connecting, TearDown, At, InConnect
<1>5. CASE DisconnectForget(t)
    <2>1. /\ pc[t] = "d_forget" /\ pc'[t] = "d_peer" /\ m_conn' = 0
          /\ UNCHANGED <<m_peer, m_port, open>> /\ open = {}
        BY <1>0, <1>5 DEF DisconnectForget, Noted, TearDown, At
    <2>2. QED
        BY <1>0, <1>1, <2>1 DEF Noted, Connecting, TearDown, At, InConnect
<1>6. CASE DisconnectPeer(t)
    <2>1. /\ pc[t] = "d_peer" /\ pc'[t] = "d_port" /\ m_peer' = FALSE
          /\ UNCHANGED <<m_conn, m_port, open>> /\ m_conn = 0
        BY <1>0, <1>6 DEF DisconnectPeer, Noted, TearDown, At
    <2>2. QED
        BY <1>0, <1>1, <2>1 DEF Noted, Connecting, TearDown, At, InConnect
<1>7. CASE DisconnectPort(t)
    <2>1. /\ pc[t] = "d_port" /\ m_port' = FALSE
          /\ UNCHANGED <<m_conn, m_peer, open>>
          /\ m_conn = 0 /\ ~m_peer /\ open = {}
        BY <1>0, <1>7 DEF DisconnectPort, Noted, TearDown, At
    <2>2. pc'[t] \in {"resolve", "idle"}
        BY <1>0, <1>7 DEF DisconnectPort, EndDisconnect, Leave
    <2>3. pc'[t] = "resolve" =>
            \A u \in Threads : u # t => pc[u] \notin InConnect \cup InDisconnectLocked
        BY <1>0, <1>2, <1>7 DEF DisconnectPort, EndDisconnect, Leave
    <2>4. QED
        BY <1>0, <1>1, <2>1, <2>2, <2>3
        DEF Noted, Connecting, TearDown, At, InConnect, InDisconnectLocked
<1>8. QED
    BY <1>3, <1>4, <1>5, <1>6, <1>7

-----------------------------------------------------------------------------
(* The theorems.                                                           *)

LEMMA StepKeepsInductive ==
    ASSUME SocketAssumption, TypeOK, Inductive, [Next]_vars
    PROVE  TypeOK' /\ Inductive'
<1>1. TypeOK' /\ Locked'
    BY TypeStep, LockedStep DEF Inductive
<1>2. ASSUME ~clash' PROVE Noted'
    <2>1. ~clash /\ ~Clash'
        <3>1. ~Clash'
            BY <1>1, <1>2 DEF Locked
        <3>2. clash' = clash \/ clash' = (clash \/ Clash')
            BY DEF Next, vars
        <3>3. ~clash
            BY <1>2, <3>2
        <3>4. QED
            BY <3>1, <3>3
    <2>2. Noted
        BY <2>1 DEF Noted, Inductive
    <2>3. ASSUME NEW t \in Threads,
                 \/ Resolve(t) \/ CreateSocket(t) \/ AddressFails(t)
                 \/ AddressWorks(t) \/ SetPort(t) \/ EndConnect(t)
          PROVE  Noted'
        <3>1. pc[t] \in InConnect
            BY <2>3 DEF Resolve, CreateSocket, AddressFails, AddressWorks,
                        SetPort, EndConnect, InConnect
        <3>2. QED
            BY <2>1, <2>2, <2>3, <3>1, ConnectSteps DEF Inductive
    <2>4. CASE UNCHANGED vars
        BY <2>2, <2>4 DEF vars, Noted, Connecting, TearDown, At
    <2>5. QED
        BY <2>1, <2>2, <2>3, <2>4, StartSteps, TransferSteps, DisconnectSteps
        DEF Next, Step, Running, Inductive
<1>3. QED
    BY <1>1, <1>2 DEF Inductive, Noted

LEMMA InitialState ==
    ASSUME SocketAssumption, Init PROVE TypeOK /\ Inductive
<1>1. 0 \in 0..MaxAddrs /\ 0 \in 0..MaxSockets
    BY DEF SocketAssumption
<1>2. TypeOK
    BY <1>1 DEF Init, TypeOK, PCs, Calls
<1>3. Locked
    BY DEF Init, Locked, Clash, InConnect, InDisconnectLocked
<1>4. Connecting /\ TearDown
    BY DEF Init, Connecting, TearDown, At, InConnect
<1>5. QED
    BY <1>2, <1>3, <1>4 DEF Inductive

\* The inductive invariant of a socket: which fields agree at which point of
\* which call.
THEOREM InductiveHolds ==
    ASSUME SocketAssumption
    PROVE  Spec => [](TypeOK /\ Inductive)
<1>1. Init => TypeOK /\ Inductive
    BY InitialState
<1>2. TypeOK /\ Inductive /\ [Next]_vars => (TypeOK /\ Inductive)'
    BY StepKeepsInductive
<1>3. QED
    BY <1>1, <1>2, PTL DEF Spec

\* What SystemProofs concludes from it.
LEMMA WhatInductiveSays ==
    ASSUME TypeOK, Inductive
    PROVE  ConsistentWhenQuiescent /\ TransfersOnPresentConnection
<1>1. ConsistentWhenQuiescent
    <2> SUFFICES ASSUME ~clash, Quiescent
                 PROVE  /\ m_conn # 0 <=> m_peer
                        /\ m_peer <=> m_port
                        /\ open = {m_conn} \ {0}
        BY DEF ConsistentWhenQuiescent
    <2>1. \/ m_conn # 0 /\ open = {m_conn} /\ m_peer /\ m_port
          \/ m_conn = 0 /\ open = {} /\ ~m_peer /\ ~m_port
        BY Settled DEF Quiescent, Inductive, InConnect
    <2>2. QED
        BY <2>1 DEF TypeOK
<1>2. TransfersOnPresentConnection
    BY DEF TransfersOnPresentConnection, Inductive, TearDown
<1>3. QED
    BY <1>1, <1>2

=============================================================================
