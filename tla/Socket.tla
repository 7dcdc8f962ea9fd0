------------------------------- MODULE Socket -------------------------------
(***************************************************************************)
(* mwr::socket (POSIX): one connection to a server, used by several        *)
(* threads.  connect, disconnect and peek change the connection under      *)
(* m_mtx; send and recv call disconnect_locked WITHOUT the lock when a     *)
(* transfer fails.  Its writes are therefore actions of their own, which   *)
(* can fall between those of a thread that holds the lock.                 *)
(*                                                                         *)
(* Sockets are numbers, 0 standing for -1; on Linux close_socket shuts a   *)
(* socket down without closing it, so no number comes back.                *)
(***************************************************************************)
EXTENDS Integers

CONSTANTS
    Threads,
    Nobody,     \* the owner of a free mutex
    MaxAddrs,   \* most addresses getaddrinfo returns for a host
    MaxSockets  \* bound on sockets created

\* Bounds are numbers, and Nobody is no thread.
SocketAssumption ==
    /\ Nobody \notin Threads
    /\ MaxAddrs \in Nat
    /\ MaxSockets \in Nat

VARIABLES
    m_mtx,
    m_conn,     \* the connection
    m_peer,     \* is the peer's address known (not empty)?
    m_port,     \* are host and port known (not 0)?
    pc,         \* where each thread is
    call,       \* the member function each thread is in
    conn,       \* each thread's copy of m_conn
    left,       \* addresses connect has not tried yet
    sockets,    \* sockets created so far
    open,       \* sockets created and not shut down
    clash       \* history: has a transfer torn down while connect ran?

vars ==
    <<m_mtx, m_conn, m_peer, m_port, pc, call, conn, left, sockets, open, clash>>

InDisconnectLocked == {"d_check", "d_close", "d_forget", "d_peer", "d_port"}
InConnect == {"resolve", "socket", "connecting", "port", "check"}
PCs == InDisconnectLocked \cup InConnect \cup
       {"idle", "next", "transfer", "disconnect"}
Transfers == {"send", "recv", "peek"}
Calls == Transfers \cup {"none", "connect", "disconnect"}

TypeOK ==
    /\ m_mtx \in Threads \cup {Nobody}
    /\ m_conn \in 0..MaxSockets
    /\ m_peer \in BOOLEAN
    /\ m_port \in BOOLEAN
    /\ pc \in [Threads -> PCs]
    /\ call \in [Threads -> Calls]
    /\ conn \in [Threads -> 0..MaxSockets]
    /\ left \in 0..MaxAddrs
    /\ sockets \in 0..MaxSockets
    /\ open \in SUBSET (1..MaxSockets)
    /\ clash \in BOOLEAN

Init ==
    /\ m_mtx = Nobody
    /\ m_conn = 0
    /\ m_peer = FALSE
    /\ m_port = FALSE
    /\ pc = [t \in Threads |-> "idle"]
    /\ call = [t \in Threads |-> "none"]
    /\ conn = [t \in Threads |-> 0]
    /\ left = 0
    /\ sockets = 0
    /\ open = {}
    /\ clash = FALSE

fields == <<m_conn, m_peer, m_port>>
world == <<sockets, open>>

Goto(t, p) == pc' = [pc EXCEPT ![t] = p] /\ UNCHANGED call

Enter(t, c, p) ==
    /\ pc[t] = "idle"
    /\ pc' = [pc EXCEPT ![t] = p]
    /\ call' = [call EXCEPT ![t] = c]

\* A call ends, by return or by exception; a lock it holds is released.
Leave(t) ==
    /\ pc' = [pc EXCEPT ![t] = "idle"]
    /\ call' = [call EXCEPT ![t] = "none"]
    /\ conn' = [conn EXCEPT ![t] = 0]
    /\ m_mtx' = IF m_mtx = t THEN Nobody ELSE m_mtx
    /\ left' = IF m_mtx = t THEN 0 ELSE left

\* disconnect_locked returns: connect goes on, the other calls end.
EndDisconnect(t) ==
    IF call[t] = "connect"
    THEN Goto(t, "resolve") /\ UNCHANGED <<m_mtx, conn, left>>
    ELSE Leave(t)

-----------------------------------------------------------------------------
(* disconnect_locked, by whatever thread calls it.                         *)

DisconnectCheck(t) ==
    /\ pc[t] = "d_check"
    /\ IF m_conn = 0
       THEN EndDisconnect(t)
       ELSE Goto(t, "d_close") /\ UNCHANGED <<m_mtx, conn, left>>
    /\ UNCHANGED <<fields, world>>

\* A wrong close_socket that shuts nothing down.
DisconnectCloseNothing(t) ==
    /\ pc[t] = "d_close"
    /\ Goto(t, "d_forget")
    /\ UNCHANGED <<m_mtx, fields, conn, left, world>>

\* close_socket gets m_conn by reference: it shuts down what is there ...
DisconnectClose(t) ==
    /\ pc[t] = "d_close"
    /\ open' = open \ {m_conn}
    /\ Goto(t, "d_forget")
    /\ UNCHANGED <<m_mtx, fields, conn, left, sockets>>

\* ... and then overwrites what is there.
DisconnectForget(t) ==
    /\ pc[t] = "d_forget"
    /\ m_conn' = 0
    /\ Goto(t, "d_peer")
    /\ UNCHANGED <<m_mtx, m_peer, m_port, conn, left, world>>

DisconnectPeer(t) ==
    /\ pc[t] = "d_peer"
    /\ m_peer' = FALSE
    /\ Goto(t, "d_port")
    /\ UNCHANGED <<m_mtx, m_conn, m_port, conn, left, world>>

DisconnectPort(t) ==
    /\ pc[t] = "d_port"
    /\ m_port' = FALSE
    /\ EndDisconnect(t)
    /\ UNCHANGED <<m_conn, m_peer, world>>

-----------------------------------------------------------------------------
(* connect and disconnect, which hold the lock throughout.                 *)

connect(t) ==
    /\ m_mtx = Nobody
    /\ Enter(t, "connect", IF m_conn # 0 THEN "d_check" ELSE "resolve")
    /\ m_mtx' = t
    /\ UNCHANGED <<fields, conn, left, world>>

disconnect(t) ==
    /\ m_mtx = Nobody
    /\ Enter(t, "disconnect", "d_check")
    /\ m_mtx' = t
    /\ UNCHANGED <<fields, conn, left, world>>

\* getaddrinfo finds some addresses, or fails and connect reports it.
Resolve(t) ==
    /\ pc[t] = "resolve"
    /\ \/ \E n \in 1..MaxAddrs :
            left' = n /\ Goto(t, "socket") /\ UNCHANGED <<m_mtx, conn>>
       \/ Leave(t)
    /\ UNCHANGED <<fields, world>>

\* ::socket for the next address, straight into m_conn; it may fail.
CreateSocket(t) ==
    /\ pc[t] = "socket"
    /\ \/ /\ sockets < MaxSockets
          /\ sockets' = sockets + 1
          /\ m_conn' = sockets'
          /\ open' = open \cup {sockets'}
          /\ Goto(t, "connecting")
          /\ UNCHANGED <<m_mtx, conn, left>>
       \/ m_conn' = 0 /\ Leave(t) /\ UNCHANGED world
    /\ UNCHANGED <<m_peer, m_port>>

\* A wrong loop that does not close the socket of an address that fails.
AddressFailsLeaking(t) ==
    /\ pc[t] = "connecting"
    /\ m_conn' = 0
    /\ left' = left - 1
    /\ Goto(t, IF left' > 0 THEN "socket" ELSE "check")
    /\ UNCHANGED <<m_mtx, m_peer, m_port, conn, world>>

\* ::connect fails: the socket is closed, and the next address is tried.
AddressFails(t) ==
    /\ pc[t] = "connecting"
    /\ open' = open \ {m_conn}
    /\ m_conn' = 0
    /\ left' = left - 1
    /\ Goto(t, IF left' > 0 THEN "socket" ELSE "check")
    /\ UNCHANGED <<m_mtx, m_peer, m_port, conn, sockets>>

\* ::connect succeeds: peer, host and port are noted one after the other.
AddressWorks(t) ==
    /\ pc[t] = "connecting"
    /\ m_peer' = TRUE
    /\ Goto(t, "port")
    /\ UNCHANGED <<m_mtx, m_conn, m_port, conn, left, world>>

SetPort(t) ==
    /\ pc[t] = "port"
    /\ m_port' = TRUE
    /\ Goto(t, "check")
    /\ UNCHANGED <<m_mtx, m_conn, m_peer, conn, left, world>>

\* Without a peer connect has failed; with one it sets TCP_NODELAY, and the
\* connection stays even if that throws.
EndConnect(t) ==
    /\ pc[t] = "check"
    /\ Leave(t)
    /\ UNCHANGED <<fields, world>>

-----------------------------------------------------------------------------
(* send, recv and peek.                                                    *)

\* A call made while not connected does nothing but report it.
TransferStart(t, c) ==
    /\ m_mtx = Nobody
    /\ m_conn # 0
    /\ Enter(t, c, "next")
    /\ UNCHANGED <<m_mtx, fields, conn, left, world>>

\* m_conn is read again, under the lock, before every system call.
TransferNext(t) ==
    /\ pc[t] = "next"
    /\ m_mtx = Nobody
    /\ conn' = [conn EXCEPT ![t] = m_conn]
    /\ Goto(t, "transfer")
    /\ UNCHANGED <<m_mtx, fields, left, world>>

\* Everything is transferred, or fd_peek finds nothing to read.
TransferDone(t) ==
    /\ pc[t] = "next"
    /\ Leave(t)
    /\ UNCHANGED <<fields, world>>

\* What had arrived can be received after the connection is shut down.
TransferOk(t) ==
    /\ pc[t] = "transfer"
    /\ conn[t] # 0
    /\ call[t] = "send" => conn[t] \in open
    /\ IF call[t] = "peek"
       THEN Leave(t)
       ELSE Goto(t, "next") /\ UNCHANGED <<m_mtx, conn, left>>
    /\ UNCHANGED <<fields, world>>

\* Failure or end of the connection: peek calls disconnect, which waits for
\* the lock; send and recv go straight to disconnect_locked.
TransferFails(t) ==
    /\ pc[t] = "transfer"
    /\ Goto(t, IF call[t] = "peek" THEN "disconnect" ELSE "d_check")
    /\ UNCHANGED <<m_mtx, fields, conn, left, world>>

PeekDisconnect(t) ==
    /\ pc[t] = "disconnect"
    /\ m_mtx = Nobody
    /\ m_mtx' = t
    /\ Goto(t, "d_check")
    /\ UNCHANGED <<fields, conn, left, world>>

-----------------------------------------------------------------------------
Running(t) ==
    \/ DisconnectCheck(t) \/ DisconnectClose(t) \/ DisconnectForget(t)
    \/ DisconnectPeer(t) \/ DisconnectPort(t)
    \/ Resolve(t) \/ CreateSocket(t) \/ AddressFails(t) \/ AddressWorks(t)
    \/ SetPort(t) \/ EndConnect(t)
    \/ TransferNext(t) \/ TransferDone(t) \/ TransferOk(t)
    \/ TransferFails(t)
    \/ PeekDisconnect(t)

\* A thread is in disconnect_locked while another one, which has the lock, is
\* in connect: only a failed send or recv gets there, without the lock.
Clash ==
    \E t, u \in Threads :
        t # u /\ call[t] = "connect" /\ pc[u] \in InDisconnectLocked

Step ==
    \E t \in Threads :
        \/ connect(t)
        \/ disconnect(t)
        \/ \E c \in Transfers : TransferStart(t, c)
        \/ Running(t)

Next == Step /\ clash' = (clash \/ Clash')

Spec == Init /\ [][Next]_vars

-----------------------------------------------------------------------------
(* Properties.  Calls of all kinds overlap in any way, and connections are *)
(* replaced under transfers; but what disconnect_locked overwrites without *)
(* the lock while connect sets it is anything (DataRaceFree), so that      *)
(* nothing is promised of the object after such a clash.                   *)

Quiescent == \A t \in Threads : pc[t] = "idle"

\* Between calls the object is connected and knows its peer, host and port, or
\* neither, and no socket but m_conn is open: through every error path of
\* connect, when the connection is replaced under transfers, and when several
\* of them fail at once and tear it down together.
ConsistentWhenQuiescent ==
    ~clash /\ Quiescent =>
        /\ m_conn # 0 <=> m_peer
        /\ m_peer <=> m_port
        /\ open = {m_conn} \ {0}

\* A transfer that is in progress uses the present connection or one that has
\* been shut down, never one that is open and forgotten, however often connect
\* and disconnect replace the connection under it.
TransfersOnPresentConnection ==
    ~clash => \A t \in Threads : pc[t] = "transfer" /\ conn[t] \in open
                                   => conn[t] = m_conn

-----------------------------------------------------------------------------
(* What these rest on (see SocketProofs).                                  *)

At(p) == {t \in Threads : pc[t] = p}

\* connect and disconnect hold the lock; until there is a clash, connect has
\* the fields to itself.
Locked ==
    /\ \A t \in Threads :
        /\ call[t] = "none" <=> pc[t] = "idle"
        /\ pc[t] \in InConnect => call[t] = "connect"
        /\ call[t] \in {"connect", "disconnect"} => m_mtx = t
        /\ pc[t] \in {"socket", "connecting"} => left > 0
    /\ ~clash => ~Clash

\* What connect has noted so far.
Connecting ==
    /\ At("resolve") \cup At("socket") # {} => m_conn = 0 /\ ~m_peer /\ ~m_port
    /\ At("connecting") # {} => open = {m_conn} /\ ~m_peer /\ ~m_port
    /\ At("port") # {} => open = {m_conn} /\ m_peer /\ ~m_port
    /\ At("check") # {} =>
           \/ open = {m_conn} /\ m_peer /\ m_port
           \/ m_conn = 0 /\ ~m_peer /\ ~m_port

\* Threads that tear the connection down do so in one order, so that each
\* finds a part of it undone that it or another one is about to undo.
TearDown ==
    /\ open \subseteq {m_conn} \ {0}
    /\ At("d_forget") # {} => open = {}
    /\ At("d_peer") # {} => m_conn = 0
    /\ At("d_port") # {} => m_conn = 0 /\ ~m_peer
    /\ (\A t \in Threads : pc[t] \notin InConnect) =>
         /\ m_conn # 0 => m_peer
         /\ m_peer => m_port
         /\ m_conn # 0 /\ open = {} => At("d_forget") # {}
         /\ m_conn = 0 /\ m_peer => At("d_peer") # {}
         /\ ~m_peer /\ m_port => At("d_port") # {}

Inductive == Locked /\ (~clash => Connecting /\ TearDown)

-----------------------------------------------------------------------------
\* Two threads never access the fields of the connection at the same time:
\* what test/utils/socket.cpp (threads) is there to find.
Touches(t) == m_mtx = t \/ pc[t] \in InDisconnectLocked
DataRaceFree == \A t, u \in Threads : Touches(t) /\ Touches(u) => t = u
=============================================================================
