---------------------------- MODULE ServerSocket ----------------------------
(***************************************************************************)
(* mwr::server_socket (POSIX): a listening socket and a map of connected   *)
(* clients, used by several threads at once.  Threads in Pollers call poll *)
(* over and over, which also accepts new clients; any thread may send,     *)
(* receive, disconnect, listen and unlisten at any time, callbacks too.    *)
(*                                                                         *)
(* An operation that runs wholly under m_mtx is one action, enabled while  *)
(* the lock is free.  accept_new_client is the exception: it blocks in     *)
(* ::accept with the lock held, so m_mtx records its owner; and it gives   *)
(* the lock up while the user's on_connect callback runs.                  *)
(*                                                                         *)
(* Sockets are numbers, 0 standing for -1.  close_socket on Linux only     *)
(* shuts a socket down, so its number is never handed out again.           *)
(***************************************************************************)
EXTENDS Integers, FiniteSets

CONSTANTS
    Threads,
    Pollers,        \* the threads that call poll
    Nobody,         \* the owner of a free mutex
    m_max_clients,
    MaxConnects,    \* bound on connections from peers
    MaxListens,     \* bound on listening sockets created
    ReuseFDs        \* TRUE without MWR_LINUX: close_socket also closes

ASSUME ServerSocketAssumption ==
    /\ Pollers \subseteq Threads
    /\ IsFiniteSet(Pollers)
    /\ Pollers # {}
    /\ Nobody \notin Threads
    /\ m_max_clients \in Nat
    /\ MaxConnects \in Nat
    /\ MaxListens \in Nat
    /\ ReuseFDs \in BOOLEAN

VARIABLES
    m_mtx,
    m_socket,         \* the listening socket
    bound,            \* m_socket really listens (listen did not fail midway)
    m_port,           \* is a port reported?
    m_next_client_id,
    m_clients,        \* client -> connection, 0 if there is no such client
    m_connect,        \* is an on_connect callback installed?
    m_disconnect,     \* is an on_disconnect callback installed?
    pc, client, conn, \* of each thread: where it is and the locals it uses
    snap,             \* of each thread in poll: connections still to look up
    lsock,            \* of each thread in poll: the listening socket polled
    backlog,          \* peers waiting to be accepted
    connects, listens,\* how many connections and listening sockets so far
    open,             \* connections that are open
    used,             \* connections whose number may not be handed out
    owner,            \* history: the client a connection was opened for
    notified          \* history: on_disconnect calls per client

vars == <<m_mtx, m_socket, bound, m_port, m_next_client_id, m_clients,
          m_connect, m_disconnect, pc, client, conn, snap, lsock, backlog,
          connects, listens, open, used, owner, notified>>

Ids == 0..(MaxConnects - 1)
Conns == 1..MaxConnects
PCs == {"idle", "polling", "accept", "accepting", "callback", "find",
        "transfer", "disconnect", "notify"}

TypeOK ==
    /\ m_mtx \in Threads \cup {Nobody}
    /\ m_socket \in 0..MaxListens
    /\ bound \in BOOLEAN
    /\ m_port \in BOOLEAN
    /\ m_next_client_id \in Nat
    /\ m_clients \in [Ids -> 0..MaxConnects]
    /\ m_connect \in BOOLEAN
    /\ m_disconnect \in BOOLEAN
    /\ pc \in [Threads -> PCs]
    /\ client \in [Threads -> Nat]
    /\ conn \in [Threads -> 0..MaxConnects]
    /\ snap \in [Threads -> SUBSET Conns]
    /\ lsock \in [Threads -> 0..MaxListens]
    /\ backlog \in Nat
    /\ connects \in 0..MaxConnects
    /\ listens \in 0..MaxListens
    /\ open \in SUBSET Conns
    /\ used \in SUBSET Conns
    /\ owner \in [Conns -> Nat]
    /\ notified \in [Ids -> Nat]

Init ==
    /\ m_mtx = Nobody
    /\ m_socket = 0
    /\ bound = FALSE
    /\ m_port = FALSE
    /\ m_next_client_id = 0
    /\ m_clients = [i \in Ids |-> 0]
    /\ m_connect = FALSE
    /\ m_disconnect = FALSE
    /\ pc = [t \in Threads |-> "idle"]
    /\ client = [t \in Threads |-> 0]
    /\ conn = [t \in Threads |-> 0]
    /\ snap = [t \in Threads |-> {}]
    /\ lsock = [t \in Threads |-> 0]
    /\ backlog = 0
    /\ connects = 0
    /\ listens = 0
    /\ open = {}
    /\ used = {}
    /\ owner = [c \in Conns |-> 0]
    /\ notified = [i \in Ids |-> 0]

LockFree == m_mtx = Nobody

Connected == {i \in Ids : m_clients[i] # 0}

\* The groups of variables the actions leave alone.
listenVars == <<m_socket, bound, m_port, backlog, listens>>
clientVars == <<m_clients, open, used>>
callbackVars == <<m_connect, m_disconnect>>
historyVars == <<owner, notified>>
localVars == <<client, conn, snap, lsock>>

Goto(t, p) == pc' = [pc EXCEPT ![t] = p] /\ UNCHANGED localVars

\* The call ends, by return or by exception, and its locals with it.
Return(t) ==
    /\ pc' = [pc EXCEPT ![t] = "idle"]
    /\ client' = [client EXCEPT ![t] = 0]
    /\ conn' = [conn EXCEPT ![t] = 0]
    /\ snap' = [snap EXCEPT ![t] = {}]
    /\ lsock' = [lsock EXCEPT ![t] = 0]

\* A wrong close_socket that closes on Linux as well.
close_socketEverywhere(cs) ==
    /\ open' = open \ cs
    /\ used' = used \ cs

\* close_socket on a connection: the number is free again only off Linux.
close_socket(cs) ==
    /\ open' = open \ cs
    /\ used' = IF ReuseFDs THEN used \ cs ELSE used

-----------------------------------------------------------------------------
(* listen, unlisten and the callbacks.                                     *)

\* A wrong listen that forgets the old port only once the new one works.
listenKeepPort ==
    /\ LockFree
    /\ listens < MaxListens
    /\ listens' = listens + 1
    /\ backlog' = 0
    /\ \/ m_socket' = listens' /\ bound' = TRUE /\ m_port' = TRUE
       \/ m_socket' = 0 /\ bound' = FALSE /\ UNCHANGED m_port
    /\ UNCHANGED <<m_mtx, m_next_client_id, clientVars, callbackVars, pc,
                   localVars, connects, historyVars>>

\* Listening on a new port: the old socket is closed first.  create_socket may
\* fail before there is a socket or while binding it (m_socket is -1) or
\* later, when m_socket already holds a socket that does not listen.
listen ==
    /\ LockFree
    /\ listens < MaxListens
    /\ listens' = listens + 1
    /\ backlog' = 0
    /\ \/ m_socket' = listens' /\ bound' = TRUE /\ m_port' = TRUE
       \/ m_socket' = 0 /\ bound' = FALSE /\ m_port' = FALSE
       \/ m_socket' = listens' /\ bound' = FALSE /\ m_port' = FALSE
    /\ UNCHANGED <<m_mtx, m_next_client_id, clientVars, callbackVars, pc,
                   localVars, connects, historyVars>>

unlisten ==
    /\ LockFree
    /\ m_socket # 0
    /\ m_socket' = 0
    /\ bound' = FALSE
    /\ m_port' = FALSE
    /\ backlog' = 0
    /\ UNCHANGED <<m_mtx, m_next_client_id, clientVars, callbackVars, pc,
                   localVars, connects, listens, historyVars>>

on_connect(set) ==
    /\ LockFree
    /\ m_connect' = set
    /\ UNCHANGED <<m_mtx, listenVars, m_next_client_id, clientVars,
                   m_disconnect, pc, localVars, connects, historyVars>>

on_disconnect(set) ==
    /\ LockFree
    /\ m_disconnect' = set
    /\ UNCHANGED <<m_mtx, listenVars, m_next_client_id, clientVars, m_connect,
                   pc, localVars, connects, historyVars>>

-----------------------------------------------------------------------------
(* poll.                                                                   *)

\* One round of the loop starts by copying what there is to poll; without a
\* socket at all poll reports an error and nothing happens.
PollStart(t) ==
    /\ t \in Pollers
    /\ pc[t] = "idle"
    /\ LockFree
    /\ m_socket # 0 \/ Connected # {}
    /\ lsock' = [lsock EXCEPT ![t] = m_socket]
    /\ snap' = [snap EXCEPT ![t] = {m_clients[i] : i \in Connected}]
    /\ pc' = [pc EXCEPT ![t] = "polling"]
    /\ UNCHANGED <<m_mtx, listenVars, m_next_client_id, clientVars,
                   callbackVars, client, conn, connects, historyVars>>

\* The polled listening socket has a connection to accept.
ListenerReady(t) == lsock[t] # 0 /\ lsock[t] = m_socket /\ backlog > 0

\* A wrong poll that looks at the connections first.
PollReturnsClientsFirst(t) ==
    /\ pc[t] = "polling"
    /\ \E ready \in SUBSET snap[t] :
        IF ready = {} /\ ~ListenerReady(t)
        THEN Return(t)
        ELSE /\ pc' = [pc EXCEPT ![t] = IF ready = {} THEN "accept" ELSE "find"]
             /\ snap' = [snap EXCEPT ![t] = ready]
             /\ lsock' = [lsock EXCEPT ![t] = 0]
             /\ UNCHANGED <<client, conn>>
    /\ UNCHANGED <<m_mtx, listenVars, m_next_client_id, clientVars,
                   callbackVars, connects, historyVars>>

\* ::poll returns.  Which connections have data (or were shut down) is up to
\* their peers.  The listening socket comes first.
PollReturns(t) ==
    /\ pc[t] = "polling"
    /\ \E ready \in SUBSET snap[t] :
        IF ready = {} /\ ~ListenerReady(t)
        THEN Return(t)
        ELSE /\ pc' = [pc EXCEPT ![t] = IF ListenerReady(t) THEN "accept"
                                                           ELSE "find"]
             /\ snap' = [snap EXCEPT ![t] = ready]
             /\ lsock' = [lsock EXCEPT ![t] = 0]
             /\ UNCHANGED <<client, conn>>
    /\ UNCHANGED <<m_mtx, listenVars, m_next_client_id, clientVars,
                   callbackVars, connects, historyVars>>

\* ::poll fails (EINTR included), which poll reports by an exception.
PollFails(t) ==
    /\ pc[t] = "polling"
    /\ Return(t)
    /\ UNCHANGED <<m_mtx, listenVars, m_next_client_id, clientVars,
                   callbackVars, connects, historyVars>>

\* find_client for the connection of the lowest client: poll returns the
\* client, or drops the connection because its client is gone.
Find(t) ==
    /\ pc[t] = "find"
    /\ LockFree
    /\ \/ snap[t] = {} /\ Return(t)
       \/ \E c \in snap[t] :
            /\ \A d \in snap[t] : owner[c] <= owner[d]
            /\ IF \E i \in Connected : m_clients[i] = c
               THEN Return(t)
               ELSE /\ snap' = [snap EXCEPT ![t] = @ \ {c}]
                    /\ UNCHANGED <<pc, client, conn, lsock>>
    /\ UNCHANGED <<m_mtx, listenVars, m_next_client_id, clientVars,
                   callbackVars, connects, historyVars>>

-----------------------------------------------------------------------------
(* accept_new_client.                                                      *)

\* The lock is taken, and m_socket read anew.
AcceptLock(t) ==
    /\ pc[t] = "accept"
    /\ LockFree
    /\ IF m_socket = 0 THEN Goto(t, "find") /\ UNCHANGED m_mtx
                       ELSE Goto(t, "accepting") /\ m_mtx' = t
    /\ UNCHANGED <<listenVars, m_next_client_id, clientVars, callbackVars,
                   connects, historyVars>>

\* A wrong error path that reports the failure with the lock held.
AcceptFailsLocked(t) ==
    /\ pc[t] = "accepting"
    /\ \/ ~bound /\ UNCHANGED backlog
       \/ backlog > 0 /\ backlog' = backlog - 1
    /\ Return(t)
    /\ UNCHANGED <<m_mtx, m_socket, bound, m_port, listens, m_next_client_id,
                   clientVars, callbackVars, connects, historyVars>>

\* ::accept fails: m_socket does not listen, or the peer gave up.  Left out are
\* failures that leave the connection queued (EINTR, EMFILE): the next poll
\* would be told of it again, and accept is assumed not to fail so forever.
AcceptFails(t) ==
    /\ pc[t] = "accepting"
    /\ \/ ~bound /\ UNCHANGED backlog
       \/ backlog > 0 /\ backlog' = backlog - 1
    /\ m_mtx' = Nobody
    /\ Return(t)
    /\ UNCHANGED <<m_socket, bound, m_port, listens, m_next_client_id,
                   clientVars, callbackVars, connects, historyVars>>

\* A wrong accept that does not wait for a connection.
AcceptFullNoWait(t) ==
    /\ pc[t] = "accepting"
    /\ backlog' = backlog - 1
    /\ Cardinality(Connected) >= m_max_clients
    /\ m_mtx' = Nobody
    /\ Goto(t, "find")
    /\ UNCHANGED <<m_socket, bound, m_port, listens, m_next_client_id,
                   clientVars, callbackVars, connects, historyVars>>

\* ::accept returns a connection, but there are enough clients: it is closed.
AcceptFull(t) ==
    /\ pc[t] = "accepting"
    /\ backlog > 0
    /\ backlog' = backlog - 1
    /\ Cardinality(Connected) >= m_max_clients
    /\ m_mtx' = Nobody
    /\ Goto(t, "find")
    /\ UNCHANGED <<m_socket, bound, m_port, listens, m_next_client_id,
                   clientVars, callbackVars, connects, historyVars>>

\* POSIX: a new socket gets the lowest number that is not in use.
LowestFree == CHOOSE c \in Conns \ used : \A d \in Conns \ used : c <= d

\* A wrong accept that allows one client too many.
AcceptClientOffByOne(t) ==
    /\ pc[t] = "accepting"
    /\ backlog > 0
    /\ backlog' = backlog - 1
    /\ Cardinality(Connected) <= m_max_clients
    /\ m_mtx' = Nobody
    /\ LET c == LowestFree IN
        /\ open' = open \cup {c}
        /\ used' = used \cup {c}
        /\ owner' = [owner EXCEPT ![c] = m_next_client_id]
        /\ IF m_connect
           THEN /\ pc' = [pc EXCEPT ![t] = "callback"]
                /\ client' = [client EXCEPT ![t] = m_next_client_id]
                /\ conn' = [conn EXCEPT ![t] = c]
                /\ UNCHANGED <<snap, lsock, m_clients>>
           ELSE /\ m_clients' = [m_clients EXCEPT ![m_next_client_id] = c]
                /\ Goto(t, "find")
    /\ m_next_client_id' = m_next_client_id + 1
    /\ UNCHANGED <<m_socket, bound, m_port, listens, callbackVars, connects,
                   notified>>

\* ::accept returns a connection for a new client: it is entered at once, or
\* on_connect is asked first, with the lock released.
AcceptClient(t) ==
    /\ pc[t] = "accepting"
    /\ backlog > 0
    /\ backlog' = backlog - 1
    /\ Cardinality(Connected) < m_max_clients
    /\ m_mtx' = Nobody
    /\ LET c == LowestFree IN
        /\ open' = open \cup {c}
        /\ used' = used \cup {c}
        /\ owner' = [owner EXCEPT ![c] = m_next_client_id]
        /\ IF m_connect
           THEN /\ pc' = [pc EXCEPT ![t] = "callback"]
                /\ client' = [client EXCEPT ![t] = m_next_client_id]
                /\ conn' = [conn EXCEPT ![t] = c]
                /\ UNCHANGED <<snap, lsock, m_clients>>
           ELSE /\ m_clients' = [m_clients EXCEPT ![m_next_client_id] = c]
                /\ Goto(t, "find")
    /\ m_next_client_id' = m_next_client_id + 1
    /\ UNCHANGED <<m_socket, bound, m_port, listens, callbackVars, connects,
                   notified>>

\* There is no callback, and setsockopt fails: the connection is closed again
\* and poll throws.
AcceptNoDelayFails(t) ==
    /\ pc[t] = "accepting"
    /\ backlog > 0
    /\ backlog' = backlog - 1
    /\ Cardinality(Connected) < m_max_clients
    /\ ~m_connect
    /\ m_mtx' = Nobody
    /\ m_next_client_id' = m_next_client_id + 1
    /\ used' = IF ReuseFDs THEN used ELSE used \cup {LowestFree}
    /\ Return(t)
    /\ UNCHANGED <<m_socket, bound, m_port, listens, m_clients, open,
                   callbackVars, connects, historyVars>>

\* on_connect accepts the client; the lock is taken again for the update.
CallbackAccepts(t) ==
    /\ pc[t] = "callback"
    /\ LockFree
    /\ m_clients' = [m_clients EXCEPT ![client[t]] = conn[t]]
    /\ Goto(t, "find")
    /\ UNCHANGED <<m_mtx, listenVars, m_next_client_id, open, used,
                   callbackVars, connects, historyVars>>

\* A wrong error path that leaves the connection open.
CallbackRefusesLeaking(t) ==
    /\ pc[t] = "callback"
    /\ LockFree
    /\ Goto(t, "find") \/ Return(t)
    /\ UNCHANGED <<m_mtx, listenVars, m_next_client_id, clientVars,
                   callbackVars, connects, historyVars>>

\* on_connect refuses, or throws, or setsockopt fails (poll throws then).
CallbackRefuses(t) ==
    /\ pc[t] = "callback"
    /\ LockFree
    /\ close_socket({conn[t]})
    /\ Goto(t, "find") \/ Return(t)
    /\ UNCHANGED <<m_mtx, listenVars, m_next_client_id, m_clients,
                   callbackVars, connects, historyVars>>

-----------------------------------------------------------------------------
(* send, recv and disconnect.                                              *)

\* find_socket: each round of send and recv looks the client up.
TransferStart(t, i) ==
    /\ pc[t] = "idle"
    /\ LockFree
    /\ i \in Connected
    /\ client' = [client EXCEPT ![t] = i]
    /\ conn' = [conn EXCEPT ![t] = m_clients[i]]
    /\ pc' = [pc EXCEPT ![t] = "transfer"]
    /\ UNCHANGED <<m_mtx, listenVars, m_next_client_id, clientVars,
                   callbackVars, snap, lsock, connects, historyVars>>

\* ::send or ::recv moves some bytes (::recv even after the connection was shut
\* down, if they had arrived), or it fails (EINTR included) or meets the end of
\* the connection, and the client is disconnected.
Transfer(t) ==
    /\ pc[t] = "transfer"
    /\ Return(t) \/ Goto(t, "disconnect")
    /\ UNCHANGED <<m_mtx, listenVars, m_next_client_id, clientVars,
                   callbackVars, connects, historyVars>>

\* A user calls disconnect, with any client there is or has been.
DisconnectCall(t, i) ==
    /\ pc[t] = "idle"
    /\ i < m_next_client_id
    /\ client' = [client EXCEPT ![t] = i]
    /\ pc' = [pc EXCEPT ![t] = "disconnect"]
    /\ UNCHANGED <<m_mtx, listenVars, m_next_client_id, clientVars,
                   callbackVars, conn, snap, lsock, connects, historyVars>>

\* A wrong disconnect that notifies whether or not the client was there.
disconnectAlwaysNotify(t) ==
    /\ pc[t] = "disconnect"
    /\ LockFree
    /\ IF m_disconnect THEN Goto(t, "notify") ELSE Return(t)
    /\ IF client[t] \in Connected
       THEN /\ close_socket({m_clients[client[t]]})
            /\ m_clients' = [m_clients EXCEPT ![client[t]] = 0]
       ELSE UNCHANGED clientVars
    /\ UNCHANGED <<m_mtx, listenVars, m_next_client_id, callbackVars, connects,
                   historyVars>>

\* Under the lock: the client is erased if it is there ...
disconnect(t) ==
    /\ pc[t] = "disconnect"
    /\ LockFree
    /\ IF client[t] \in Connected
       THEN /\ close_socket({m_clients[client[t]]})
            /\ m_clients' = [m_clients EXCEPT ![client[t]] = 0]
            /\ IF m_disconnect THEN Goto(t, "notify") ELSE Return(t)
       ELSE Return(t) /\ UNCHANGED clientVars
    /\ UNCHANGED <<m_mtx, listenVars, m_next_client_id, callbackVars, connects,
                   historyVars>>

\* ... and then on_disconnect is called without it.
Notify(t) ==
    /\ pc[t] = "notify"
    /\ notified' = [notified EXCEPT ![client[t]] = @ + 1]
    /\ Return(t)
    /\ UNCHANGED <<m_mtx, listenVars, m_next_client_id, clientVars,
                   callbackVars, connects, owner>>

disconnect_all ==
    /\ LockFree
    /\ close_socket({m_clients[i] : i \in Connected})
    /\ m_clients' = [i \in Ids |-> 0]
    /\ UNCHANGED <<m_mtx, listenVars, m_next_client_id, callbackVars, pc,
                   localVars, connects, historyVars>>

-----------------------------------------------------------------------------
\* A peer connects to the listening socket.
PeerConnects ==
    /\ bound
    /\ connects < MaxConnects
    /\ connects' = connects + 1
    /\ backlog' = backlog + 1
    /\ UNCHANGED <<m_mtx, m_socket, bound, m_port, listens, m_next_client_id,
                   clientVars, callbackVars, pc, localVars, historyVars>>

\* The steps of a call that has begun.
Running(t) ==
    \/ PollReturns(t) \/ Find(t)
    \/ AcceptLock(t) \/ AcceptFails(t) \/ AcceptFull(t) \/ AcceptClient(t)
    \/ AcceptNoDelayFails(t)
    \/ CallbackAccepts(t) \/ CallbackRefuses(t)
    \/ Transfer(t) \/ disconnect(t) \/ Notify(t)

Next ==
    \/ \E t \in Threads : PollStart(t)
    \/ \E t \in Threads : PollFails(t)
    \/ \E t \in Threads : Running(t)
    \/ \E t \in Threads, i \in Ids : TransferStart(t, i)
    \/ \E t \in Threads, i \in Ids : DisconnectCall(t, i)
    \/ disconnect_all
    \/ listen
    \/ unlisten
    \/ \E set \in BOOLEAN : on_connect(set)
    \/ \E set \in BOOLEAN : on_disconnect(set)
    \/ PeerConnects

Spec == Init /\ [][Next]_vars

\* Calls that have begun go on (callbacks return).  A poller calls poll in a
\* loop, whatever else it does between two polls, and not every one of its
\* polls is interrupted.
FairSpec ==
    /\ Spec
    /\ \A t \in Threads : WF_vars(Running(t))
    /\ \A t \in Pollers : SF_vars(PollStart(t)) /\ SF_vars(PollReturns(t))

-----------------------------------------------------------------------------
(* Properties.                                                             *)

AtCallback == {t \in Threads : pc[t] = "callback"}

\* A new client is counted against m_max_clients before on_connect runs and
\* entered after it, without another look: pollers can overrun the limit, but
\* by no more than the other pollers that are in the callback meanwhile.  With
\* one poller the limit is exact.
ClientsBounded ==
    Cardinality(Connected) + Cardinality(AtCallback)
        <= m_max_clients + Cardinality(Pollers) - 1

\* A port is reported only while a socket really listens on it, also when
\* listen fails at any of the steps of create_socket.
OnlyLivePortReported == m_port => m_socket # 0 /\ bound

\* Every connection that is open belongs to a client or to one that on_connect
\* is being asked about: no error path forgets to close one, and none closes a
\* connection that is still in use.
NoConnectionLeaks ==
    open = {m_clients[i] : i \in Connected} \cup {conn[t] : t \in AtCallback}

\* send and recv use the connection after the lock is released; nobody can
\* make its number stand for another client meanwhile.
OwnConnection ==
    \A t \in Threads : pc[t] = "transfer" => owner[conn[t]] = client[t]

\* However many threads find a client dead at the same time, on_disconnect is
\* called once for it, and only after it is gone for good.
DisconnectNotifiedOnce ==
    \A i \in Ids : notified[i] = 0 \/ (notified[i] = 1 /\ m_clients[i] = 0)

-----------------------------------------------------------------------------
(* What the safety properties rest on (see ServerSocketProofs).            *)

\* m_mtx is kept over a step only by the thread in ::accept; only pollers go
\* through the steps of poll; what waits to be accepted has a listening socket.
LockAndPollers ==
    /\ \A t \in Threads : m_mtx = t <=> pc[t] = "accepting"
    /\ \A t \in Threads :
         pc[t] \in {"polling", "accept", "accepting", "callback", "find"}
            => t \in Pollers
    /\ backlog > 0 => bound
    /\ bound => m_socket # 0

\* Ids are handed out one per connection, so there is always a number left.
Numbering ==
    /\ m_next_client_id + backlog <= connects
    /\ Cardinality(used) <= m_next_client_id
    /\ \A i \in Ids : i >= m_next_client_id => m_clients[i] = 0
    /\ \A t \in Threads :
         pc[t] \in {"callback", "transfer", "disconnect", "notify"}
            => client[t] < m_next_client_id

\* No two clients, entered or being asked about, share an id or a connection.
Distinct ==
    /\ open \subseteq used
    /\ \A i, j \in Connected : m_clients[i] = m_clients[j] => i = j
    /\ \A t \in AtCallback :
         /\ conn[t] # 0
         /\ m_clients[client[t]] = 0
         /\ \A i \in Connected : m_clients[i] # conn[t]
         /\ \A s \in AtCallback \ {t} :
              client[s] # client[t] /\ conn[s] # conn[t]

\* A connection that is open, or in use by send or recv, is its client's.
Owners ==
    /\ \A i \in Connected : owner[m_clients[i]] = i
    /\ \A t \in AtCallback : owner[conn[t]] = client[t]
    /\ \A t \in Threads :
         pc[t] = "transfer" => conn[t] \in used /\ owner[conn[t]] = client[t]

\* A client about to be notified is gone for good, and one thread has it.
Gone(i) ==
    /\ i < m_next_client_id
    /\ m_clients[i] = 0
    /\ \A t \in AtCallback : client[t] # i

Notifying == {t \in Threads : pc[t] = "notify"}

NotifiedOfGone ==
    /\ \A i \in Ids : notified[i] = 0 \/ (notified[i] = 1 /\ Gone(i))
    /\ \A t \in Notifying :
         /\ Gone(client[t])
         /\ notified[client[t]] = 0
         /\ \A s \in Notifying \ {t} : client[s] # client[t]

Inductive ==
    /\ LockAndPollers
    /\ Numbering
    /\ Distinct
    /\ NoConnectionLeaks
    /\ NotifiedOfGone
    /\ ClientsBounded
    /\ OnlyLivePortReported
    /\ ~ReuseFDs => Owners

-----------------------------------------------------------------------------
(* Liveness.                                                               *)

\* Nobody keeps the lock: with one poller and one listening socket ::accept is
\* only called when there is a connection to accept.
LockIsReleased == m_mtx # Nobody ~> m_mtx = Nobody

\* The comment in close_socket (socket_posix.cpp:207) wants unlisten to be
\* able to end an ::accept that is stuck, so unlisten must get the lock.
UnlistenGetsTheLock == []<>LockFree

\* A peer that waits is accepted or turned away, even if clients always have
\* something to read: poll looks at the listening socket first.
ConnectionsAreAccepted == backlog > 0 ~> backlog = 0
=============================================================================
