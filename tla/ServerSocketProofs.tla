------------------------- MODULE ServerSocketProofs -------------------------
(***************************************************************************)
(* Proofs about ServerSocket, for any threads, any number of pollers,      *)
(* clients, connections and listening sockets.                             *)
(***************************************************************************)
EXTENDS ServerSocket, FiniteSetTheorems, TLAPS

USE DEF listenVars, clientVars, callbackVars, historyVars, localVars,
        Goto, Return, LockFree, close_socket

-----------------------------------------------------------------------------
(* Sets of numbers.                                                        *)

\* A set of natural numbers that is not empty has a least element: of the
\* intervals from 0 to its elements, one contains no other.
LEMMA LeastElement ==
    ASSUME NEW S \in SUBSET Nat, S # {}
    PROVE  \E c \in S : \A d \in S : c <= d
<1> DEFINE Below == {0..c : c \in S}
<1>1. Below \subseteq FiniteSubsetsOf(Nat) /\ Below # {}
    <2>1. ASSUME NEW c \in S PROVE 0..c \in FiniteSubsetsOf(Nat)
        <3>1. IsFiniteSet(0..c)
            BY FS_Interval
        <3>2. QED
            BY <3>1 DEF FiniteSubsetsOf
    <2>2. QED
        BY <2>1
<1>2. IsWellFoundedOn(StrictSubsetOrdering(Nat), FiniteSubsetsOf(Nat))
    BY FS_StrictSubsetOrderingWellFounded
<1>3. PICK X \in Below : \A Y \in Below :
                           ~ (<<Y, X>> \in StrictSubsetOrdering(Nat))
    <2> HIDE DEF Below
    <2> QED
        BY <1>1, <1>2, WFMin
<1>4. PICK c \in S : X = 0..c
    OBVIOUS
<1>5. ASSUME NEW d \in S PROVE c <= d
    <2>1. CASE c <= d
        BY <2>1
    <2>2. CASE d < c
        <3>1. (0..d) \subseteq (0..c) /\ (0..d) # (0..c)
            <4>1. c \in 0..c /\ c \notin 0..d
                BY <2>2
            <4>2. QED
                BY <2>2, <4>1
        <3>2. <<0..d, X>> \in StrictSubsetOrdering(Nat)
            BY <1>4, <3>1 DEF StrictSubsetOrdering
        <3>3. QED
            BY <1>3, <3>2
    <2>3. QED
        BY <2>1, <2>2
<1>6. QED
    BY <1>5

\* The sets of connections are finite.
LEMMA FiniteConns ==
    /\ IsFiniteSet(Ids)
    /\ IsFiniteSet(Conns) /\ Cardinality(Conns) = MaxConnects
    /\ \A S \in SUBSET Conns : IsFiniteSet(S) /\ Cardinality(S) \in Nat
    /\ \A S \in SUBSET Ids : IsFiniteSet(S) /\ Cardinality(S) \in Nat
    /\ \A S \in SUBSET Pollers : /\ IsFiniteSet(S)
                                 /\ Cardinality(S) \in Nat
                                 /\ Cardinality(S) <= Cardinality(Pollers)
    /\ Cardinality(Pollers) \in Nat \ {0}
<1>1. IsFiniteSet(Ids) /\ IsFiniteSet(Conns)
    BY ServerSocketAssumption, FS_Interval DEF Ids, Conns
<1>2. Cardinality(Conns) = MaxConnects
    BY ServerSocketAssumption, FS_Interval DEF Conns
<1>3. Cardinality(Pollers) \in Nat \ {0}
    BY ServerSocketAssumption, FS_CardinalityType, FS_EmptySet
<1>4. QED
    BY <1>1, <1>2, <1>3, ServerSocketAssumption, FS_Subset, FS_CardinalityType

\* A set grows by at most one element when one is added.
LEMMA OneMore ==
    ASSUME NEW S, IsFiniteSet(S), NEW x
    PROVE  /\ IsFiniteSet(S \cup {x})
           /\ Cardinality(S) \in Nat /\ Cardinality(S \cup {x}) \in Nat
           /\ Cardinality(S \cup {x}) <= Cardinality(S) + 1
<1>1. Cardinality(S) \in Nat
    BY FS_CardinalityType
<1>2. /\ IsFiniteSet(S \cup {x})
      /\ \/ Cardinality(S \cup {x}) = Cardinality(S)
         \/ Cardinality(S \cup {x}) = Cardinality(S) + 1
    BY FS_AddElement
<1>3. QED
    BY <1>1, <1>2

\* When a connection waits to be accepted, an id and a number are left for it,
\* and the number the system hands out is one that is not in use.
LEMMA NumberLeft ==
    ASSUME TypeOK, Numbering, backlog > 0
    PROVE  m_next_client_id \in Ids /\ LowestFree \in Conns \ used
<1>1. m_next_client_id < MaxConnects /\ m_next_client_id \in Ids
    BY ServerSocketAssumption DEF TypeOK, Numbering, Ids
<1>2. Conns \ used # {}
    <2>1. used # Conns
        BY <1>1, FiniteConns DEF TypeOK, Numbering
    <2>2. QED
        BY <2>1 DEF TypeOK
<1>3. \E c \in Conns \ used : \A d \in Conns \ used : c <= d
    <2> DEFINE Free == Conns \ used
    <2>1. Free \in SUBSET Nat /\ Free # {}
        BY <1>2 DEF Conns
    <2> HIDE DEF Free
    <2>2. \E c \in Free : \A d \in Free : c <= d
        BY <2>1, LeastElement
    <2> QED
        BY <2>2 DEF Free
<1>4. LowestFree \in Conns \ used
    BY <1>3 DEF LowestFree
<1>5. QED
    BY <1>1, <1>4

-----------------------------------------------------------------------------
(* Every step keeps every variable in its range.                           *)

LEMMA TypeStep ==
    ASSUME TypeOK, Numbering, [Next]_vars
    PROVE  TypeOK'
<1> USE ServerSocketAssumption DEF TypeOK, PCs
<1>1. ASSUME NEW t \in Threads, PollStart(t) PROVE TypeOK'
    <2>1. {m_clients[i] : i \in Connected} \subseteq Conns
        BY DEF Connected, Conns
    <2>2. snap' \in [Threads -> SUBSET Conns]
        BY <1>1, <2>1 DEF PollStart
    <2>3. QED
        BY <1>1, <2>2 DEF PollStart
<1>2. ASSUME NEW t \in Threads, PollReturns(t) PROVE TypeOK'
    BY <1>2 DEF PollReturns
<1>3. ASSUME NEW t \in Threads, PollFails(t) PROVE TypeOK'
    BY <1>3 DEF PollFails
<1>4. ASSUME NEW t \in Threads, Find(t) PROVE TypeOK'
    BY <1>4 DEF Find
<1>5. ASSUME NEW t \in Threads, AcceptLock(t) PROVE TypeOK'
    BY <1>5 DEF AcceptLock
<1>6. ASSUME NEW t \in Threads, AcceptFails(t) \/ AcceptFull(t) PROVE TypeOK'
    BY <1>6 DEF AcceptFails, AcceptFull
<1>7. ASSUME NEW t \in Threads, AcceptClient(t) PROVE TypeOK'
    <2>1. backlog > 0
        BY <1>7 DEF AcceptClient
    <2>2. LowestFree \in Conns
        BY <2>1, NumberLeft
    <2>3. LowestFree \in 0..MaxConnects
        BY <2>2 DEF Conns
    <2>4. open' \in SUBSET Conns /\ used' \in SUBSET Conns
        BY <1>7, <2>2 DEF AcceptClient
    <2>5. QED
        BY <1>7, <2>2, <2>3, <2>4 DEF AcceptClient
<1>8. ASSUME NEW t \in Threads, AcceptNoDelayFails(t) PROVE TypeOK'
    <2>1. LowestFree \in Conns
        BY <1>8, NumberLeft DEF AcceptNoDelayFails
    <2>2. QED
        BY <1>8, <2>1 DEF AcceptNoDelayFails
<1>9. ASSUME NEW t \in Threads, CallbackAccepts(t) \/ CallbackRefuses(t)
      PROVE  TypeOK'
    BY <1>9 DEF CallbackAccepts, CallbackRefuses
<1>10. ASSUME NEW t \in Threads, Transfer(t) \/ disconnect(t) PROVE TypeOK'
    BY <1>10 DEF Transfer, disconnect
<1>11. ASSUME NEW t \in Threads, Notify(t) PROVE TypeOK'
    <2>1. \A i \in Ids : i = client[t] => notified[client[t]] + 1 \in Nat
        OBVIOUS
    <2>2. notified' = [i \in Ids |-> IF i = client[t]
                                     THEN notified[client[t]] + 1
                                     ELSE notified[i]]
        BY <1>11 DEF Notify
    <2>3. notified' \in [Ids -> Nat]
        BY <2>1, <2>2
    <2>4. QED
        BY <1>11, <2>3 DEF Notify
<1>12. ASSUME NEW t \in Threads, NEW i \in Ids, TransferStart(t, i)
       PROVE  TypeOK'
    BY <1>12 DEF TransferStart, Ids
<1>13. ASSUME NEW t \in Threads, NEW i \in Ids, DisconnectCall(t, i)
       PROVE  TypeOK'
    BY <1>13 DEF DisconnectCall, Ids
<1>14. CASE disconnect_all
    BY <1>14 DEF disconnect_all
<1>15. CASE listen
    <2>1. listens < MaxListens => listens + 1 \in 0..MaxListens
        OBVIOUS
    <2>2. listens' \in 0..MaxListens /\ 0 \in 0..MaxListens
        BY <1>15, <2>1 DEF listen
    <2>3. m_socket' \in 0..MaxListens /\ bound' \in BOOLEAN /\ m_port' \in BOOLEAN
        BY <1>15, <2>2 DEF listen
    <2>4. QED
        BY <1>15, <2>2, <2>3 DEF listen
<1>16. CASE unlisten
    <2>1. m_socket' \in 0..MaxListens /\ backlog' \in Nat
        BY <1>16 DEF unlisten
    <2>2. QED
        BY <1>16, <2>1 DEF unlisten
<1>17. ASSUME NEW set \in BOOLEAN, on_connect(set) \/ on_disconnect(set)
       PROVE  TypeOK'
    BY <1>17 DEF on_connect, on_disconnect
<1>18. CASE PeerConnects
    BY <1>18 DEF PeerConnects
<1>19. CASE UNCHANGED vars
    BY <1>19 DEF vars
<1>20. QED
    BY <1>1, <1>2, <1>3, <1>4, <1>5, <1>6, <1>7, <1>8, <1>9, <1>10, <1>11,
       <1>12, <1>13, <1>14, <1>15, <1>16, <1>17, <1>18, <1>19 DEF Next, Running

\* Who holds the lock, who polls, and what the waiting connections need.
LEMMA LockStep ==
    ASSUME TypeOK, LockAndPollers, [Next]_vars
    PROVE  LockAndPollers'
<1> USE ServerSocketAssumption DEF TypeOK, PCs, LockAndPollers
<1>1. ASSUME NEW t \in Threads,
             PollStart(t) \/ PollReturns(t) \/ PollFails(t) \/ Find(t)
      PROVE  LockAndPollers'
    BY <1>1 DEF PollStart, PollReturns, PollFails, Find
<1>2. ASSUME NEW t \in Threads, AcceptLock(t) PROVE LockAndPollers'
    BY <1>2 DEF AcceptLock
<1>3. ASSUME NEW t \in Threads, AcceptFails(t) \/ AcceptFull(t)
      PROVE  LockAndPollers'
    BY <1>3 DEF AcceptFails, AcceptFull
<1>4. ASSUME NEW t \in Threads, AcceptClient(t) \/ AcceptNoDelayFails(t)
      PROVE  LockAndPollers'
    BY <1>4 DEF AcceptClient, AcceptNoDelayFails
<1>5. ASSUME NEW t \in Threads, CallbackAccepts(t) \/ CallbackRefuses(t)
      PROVE  LockAndPollers'
    BY <1>5 DEF CallbackAccepts, CallbackRefuses
<1>6. ASSUME NEW t \in Threads, Transfer(t) \/ disconnect(t) \/ Notify(t)
      PROVE  LockAndPollers'
    BY <1>6 DEF Transfer, disconnect, Notify
<1>7. ASSUME NEW t \in Threads, NEW i \in Ids,
             TransferStart(t, i) \/ DisconnectCall(t, i)
      PROVE  LockAndPollers'
    BY <1>7 DEF TransferStart, DisconnectCall
<1>8. CASE disconnect_all
    BY <1>8 DEF disconnect_all
<1>9. CASE listen \/ unlisten
    BY <1>9 DEF listen, unlisten
<1>10. ASSUME NEW set \in BOOLEAN, on_connect(set) \/ on_disconnect(set)
       PROVE  LockAndPollers'
    BY <1>10 DEF on_connect, on_disconnect
<1>11. CASE PeerConnects
    BY <1>11 DEF PeerConnects
<1>12. CASE UNCHANGED vars
    BY <1>12 DEF vars
<1>13. QED
    BY <1>1, <1>2, <1>3, <1>4, <1>5, <1>6, <1>7, <1>8, <1>9, <1>10, <1>11,
       <1>12 DEF Next, Running

\* Numbering is kept when nothing new is put to use, and no thread starts to
\* work for a client that has not had its id yet.
LEMMA NumberingKept ==
    ASSUME TypeOK, Numbering,
           used' \in SUBSET used,
           m_next_client_id' = m_next_client_id,
           m_next_client_id + backlog' <= connects',
           \A i \in Ids : i >= m_next_client_id => m_clients'[i] = 0,
           \A t \in Threads :
             pc'[t] \in {"callback", "transfer", "disconnect", "notify"}
                => client'[t] < m_next_client_id
    PROVE  Numbering'
<1>1. Cardinality(used') <= Cardinality(used) /\ Cardinality(used) <= m_next_client_id
    BY FiniteConns, FS_Subset DEF TypeOK, Numbering
<1>2. /\ Cardinality(used') \in Nat /\ Cardinality(used) \in Nat
      /\ m_next_client_id \in Nat
    BY FiniteConns DEF TypeOK
<1>3. Cardinality(used') <= m_next_client_id
    BY <1>1, <1>2
<1>4. QED
    BY <1>3 DEF Numbering

\* Ids and numbers stay ahead of what is in use.
LEMMA NumberingStep ==
    ASSUME TypeOK, Numbering, [Next]_vars
    PROVE  Numbering'
<1>0. /\ m_next_client_id + backlog <= connects
      /\ backlog \in Nat /\ connects \in Nat /\ m_next_client_id \in Nat
      /\ \A i \in Ids : i >= m_next_client_id => m_clients[i] = 0
      /\ \A t \in Threads :
           pc[t] \in {"callback", "transfer", "disconnect", "notify"}
              => client[t] < m_next_client_id
      /\ pc \in [Threads -> PCs] /\ client \in [Threads -> Nat]
      /\ m_clients \in [Ids -> 0..MaxConnects]
      /\ \A i \in Ids : i \in Nat
    BY DEF TypeOK, Numbering, Ids
<1>1. ASSUME NEW t \in Threads,
             PollStart(t) \/ PollReturns(t) \/ PollFails(t) \/ Find(t)
      PROVE  Numbering'
    BY <1>0, <1>1, NumberingKept DEF PollStart, PollReturns, PollFails, Find
<1>2. ASSUME NEW t \in Threads,
             AcceptLock(t) \/ AcceptFails(t) \/ AcceptFull(t)
      PROVE  Numbering'
    BY <1>0, <1>2, NumberingKept DEF AcceptLock, AcceptFails, AcceptFull
<1>3. ASSUME NEW t \in Threads, AcceptClient(t) \/ AcceptNoDelayFails(t)
      PROVE  Numbering'
    <2>1. backlog > 0 /\ backlog' = backlog - 1
        BY <1>3 DEF AcceptClient, AcceptNoDelayFails
    <2>2. m_next_client_id' = m_next_client_id + 1 /\ connects' = connects
        BY <1>3 DEF AcceptClient, AcceptNoDelayFails
    <2>3. LowestFree \in Conns \ used
        BY <2>1, NumberLeft
    <2>4. used' = used \/ used' = used \cup {LowestFree}
        BY <1>3 DEF AcceptClient, AcceptNoDelayFails
    <2>5. Cardinality(used') \in Nat /\ Cardinality(used) \in Nat
          /\ Cardinality(used') <= Cardinality(used) + 1
        <3>1. IsFiniteSet(used)
            BY FiniteConns DEF TypeOK
        <3>2. /\ Cardinality(used) \in Nat
              /\ Cardinality(used \cup {LowestFree}) \in Nat
              /\ Cardinality(used \cup {LowestFree}) <= Cardinality(used) + 1
            BY <3>1, OneMore
        <3>3. Cardinality(used) <= Cardinality(used) + 1
            BY <3>2
        <3>4. CASE used' = used
            BY <3>2, <3>3, <3>4
        <3>5. CASE used' = used \cup {LowestFree}
            BY <3>2, <3>5
        <3>6. QED
            BY <2>4, <3>4, <3>5
    <2>6. Cardinality(used') <= m_next_client_id'
        BY <1>0, <2>2, <2>5 DEF Numbering
    <2>7. \A i \in Ids : i >= m_next_client_id' => m_clients'[i] = 0
        BY <1>0, <1>3, <2>2 DEF AcceptClient, AcceptNoDelayFails
    <2>8. \A u \in Threads :
            pc'[u] \in {"callback", "transfer", "disconnect", "notify"}
               => client'[u] < m_next_client_id'
        BY <1>0, <1>3, <2>2 DEF AcceptClient, AcceptNoDelayFails
    <2>9. m_next_client_id' + backlog' <= connects'
        BY <1>0, <2>1, <2>2
    <2>10. QED
        BY <2>6, <2>7, <2>8, <2>9 DEF Numbering
<1>4. ASSUME NEW t \in Threads, CallbackAccepts(t) \/ CallbackRefuses(t)
      PROVE  Numbering'
    BY <1>0, <1>4, NumberingKept DEF CallbackAccepts, CallbackRefuses
<1>5. ASSUME NEW t \in Threads, Transfer(t) \/ Notify(t)
      PROVE  Numbering'
    BY <1>0, <1>5, NumberingKept DEF Transfer, Notify
<1>6. ASSUME NEW t \in Threads, disconnect(t) PROVE Numbering'
    BY <1>0, <1>6, NumberingKept DEF disconnect
<1>7. ASSUME NEW t \in Threads, NEW i \in Ids,
             TransferStart(t, i) \/ DisconnectCall(t, i)
      PROVE  Numbering'
    BY <1>0, <1>7, NumberingKept DEF TransferStart, DisconnectCall, Connected
<1>8. CASE disconnect_all
    BY <1>0, <1>8, NumberingKept DEF disconnect_all
<1>9. CASE listen \/ unlisten \/ PeerConnects
    BY <1>0, <1>9, NumberingKept DEF listen, unlisten, PeerConnects
<1>10. ASSUME NEW set \in BOOLEAN, on_connect(set) \/ on_disconnect(set)
       PROVE  Numbering'
    BY <1>0, <1>10, NumberingKept DEF on_connect, on_disconnect
<1>11. CASE UNCHANGED vars
    BY <1>0, <1>11, NumberingKept DEF vars
<1>12. QED
    BY <1>1, <1>2, <1>3, <1>4, <1>5, <1>6, <1>7, <1>8, <1>9, <1>10, <1>11
    DEF Next, Running

\* Whoever works for a client works for one that has had an id.
LEMMA CallersKnown ==
    ASSUME TypeOK, Numbering
    PROVE  \A t \in Threads :
             pc[t] \in {"callback", "transfer", "disconnect", "notify"}
                => client[t] \in Ids
BY ServerSocketAssumption DEF TypeOK, Numbering, Ids

-----------------------------------------------------------------------------
(* Connections: NoConnectionLeaks, together with Distinct.                 *)

\* Both are about m_clients, open, used and the threads in the callback.
LEMMA ConnectionsKept ==
    ASSUME Distinct, NoConnectionLeaks,
           UNCHANGED clientVars,
           \A t \in Threads :
             /\ pc'[t] = "callback" <=> pc[t] = "callback"
             /\ pc[t] = "callback" =>
                    client'[t] = client[t] /\ conn'[t] = conn[t]
    PROVE  Distinct' /\ NoConnectionLeaks'
<1>1. AtCallback' = AtCallback /\ Connected' = Connected
    BY DEF AtCallback, Connected
<1>2. Distinct'
    BY <1>1 DEF Distinct, AtCallback
<1>3. {conn'[t] : t \in AtCallback'} = {conn[t] : t \in AtCallback}
    BY <1>1 DEF AtCallback
<1>4. NoConnectionLeaks'
    BY <1>1, <1>3 DEF NoConnectionLeaks
<1>5. QED
    BY <1>2, <1>4

\* A client that is accepted gets an id and a connection that nobody has.
LEMMA ConnectionsAccept ==
    ASSUME TypeOK, Numbering, Distinct, NoConnectionLeaks,
           NEW t \in Threads, AcceptClient(t)
    PROVE  Distinct' /\ NoConnectionLeaks'
<1> DEFINE c == LowestFree
           n == m_next_client_id
<1>1. n \in Ids /\ c \in Conns /\ c \notin used
    BY NumberLeft DEF AcceptClient
<1>2. m_clients[n] = 0 /\ n \notin Connected /\ c # 0
    BY <1>1 DEF Numbering, Connected, Ids, Conns
<1>3. \A i \in Connected : m_clients[i] \in open /\ m_clients[i] # c
    BY <1>1 DEF NoConnectionLeaks, Distinct
<1>4. \A s \in AtCallback : conn[s] \in open /\ conn[s] # c /\ client[s] # n
    <2>1. \A s \in AtCallback : client[s] < n
        BY DEF Numbering, AtCallback
    <2>2. QED
        BY <1>1, <2>1 DEF NoConnectionLeaks, Distinct, TypeOK
<1>5. open' = open \cup {c} /\ used' = used \cup {c} /\ pc[t] = "accepting"
    BY DEF AcceptClient
<1>6. CASE m_connect
    <2>1. /\ AtCallback' = AtCallback \cup {t} /\ t \notin AtCallback
          /\ m_clients' = m_clients /\ Connected' = Connected
          /\ client'[t] = n /\ conn'[t] = c
          /\ \A s \in AtCallback : client'[s] = client[s] /\ conn'[s] = conn[s]
        BY <1>5, <1>6 DEF AcceptClient, AtCallback, Connected, TypeOK
    <2>2. Distinct'
        BY <1>2, <1>3, <1>4, <1>5, <2>1 DEF Distinct
    <2>3. {conn'[s] : s \in AtCallback'} = {conn[s] : s \in AtCallback} \cup {c}
        BY <2>1
    <2>4. NoConnectionLeaks'
        BY <1>5, <2>1, <2>3 DEF NoConnectionLeaks
    <2>5. QED
        BY <2>2, <2>4
<1>7. CASE ~m_connect
    <2>1. /\ m_clients' = [m_clients EXCEPT ![n] = c]
          /\ client' = client /\ conn' = conn
          /\ AtCallback' = AtCallback
        BY <1>5, <1>7 DEF AcceptClient, AtCallback, TypeOK
    <2>2. Connected' = Connected \cup {n}
        BY <1>1, <1>2, <2>1 DEF Connected, TypeOK
    <2>3. m_clients'[n] = c /\ \A i \in Connected : m_clients'[i] = m_clients[i]
        BY <1>1, <1>2, <2>1 DEF Connected, TypeOK
    <2>4. \A s \in AtCallback : m_clients'[client[s]] = 0
        BY <1>1, <1>4, <2>1 DEF Distinct, TypeOK
    <2>5. Distinct'
        BY <1>3, <1>4, <1>5, <2>1, <2>2, <2>3, <2>4 DEF Distinct
    <2>6. {m_clients'[i] : i \in Connected'}
             = {m_clients[i] : i \in Connected} \cup {c}
        BY <2>2, <2>3
    <2>7. NoConnectionLeaks'
        BY <1>5, <2>1, <2>6 DEF NoConnectionLeaks
    <2>8. QED
        BY <2>5, <2>7
<1>8. QED
    BY <1>6, <1>7

\* The end of the callback enters the client or closes its connection.
LEMMA ConnectionsCallback ==
    ASSUME TypeOK, Numbering, Distinct, NoConnectionLeaks,
           NEW t \in Threads, CallbackAccepts(t) \/ CallbackRefuses(t)
    PROVE  Distinct' /\ NoConnectionLeaks'
<1>1. /\ t \in AtCallback /\ AtCallback' = AtCallback \ {t}
      /\ client' = client \/ t \notin AtCallback'
      /\ \A s \in AtCallback' : client'[s] = client[s] /\ conn'[s] = conn[s]
    BY DEF CallbackAccepts, CallbackRefuses, AtCallback, TypeOK
<1>2. /\ conn[t] # 0 /\ conn[t] \in open
      /\ \A i \in Connected : m_clients[i] # conn[t]
      /\ \A s \in AtCallback' : client[s] # client[t] /\ conn[s] # conn[t]
    BY <1>1 DEF Distinct, NoConnectionLeaks
<1>3. CASE CallbackAccepts(t)
    <2>1. client[t] \in Ids
        BY <1>1, CallersKnown DEF AtCallback
    <2>2. m_clients[client[t]] = 0
        BY <1>1 DEF Distinct
    <2>3. m_clients' = [m_clients EXCEPT ![client[t]] = conn[t]]
        BY <1>3 DEF CallbackAccepts
    <2>4. Connected' = Connected \cup {client[t]} /\ client[t] \notin Connected
        BY <1>2, <2>1, <2>2, <2>3 DEF Connected, TypeOK
    <2>5. /\ m_clients'[client[t]] = conn[t]
          /\ \A i \in Connected : m_clients'[i] = m_clients[i]
        BY <2>1, <2>3, <2>4 DEF Connected, TypeOK
    <2>6. open' = open /\ used' = used
        BY <1>3 DEF CallbackAccepts
    <2>7. \A s \in AtCallback' : m_clients'[client'[s]] = 0
        BY <1>1, <1>2, <2>3 DEF Distinct, TypeOK
    <2>8. Distinct'
        BY <1>1, <1>2, <2>4, <2>5, <2>6, <2>7 DEF Distinct
    <2>9. /\ {m_clients'[i] : i \in Connected'}
                = {m_clients[i] : i \in Connected} \cup {conn[t]}
          /\ {conn[s] : s \in AtCallback}
                = {conn'[s] : s \in AtCallback'} \cup {conn[t]}
        BY <1>1, <2>4, <2>5
    <2>10. NoConnectionLeaks'
        BY <2>6, <2>9 DEF NoConnectionLeaks
    <2>11. QED
        BY <2>8, <2>10
<1>4. CASE CallbackRefuses(t)
    <2>1. m_clients' = m_clients /\ Connected' = Connected
        BY <1>4 DEF CallbackRefuses, Connected
    <2>2. open' = open \ {conn[t]} /\ used' \in {used, used \ {conn[t]}}
        BY <1>4 DEF CallbackRefuses
    <2>3. Distinct'
        BY <1>1, <2>1, <2>2 DEF Distinct
    <2>4. {conn'[s] : s \in AtCallback'} = {conn[s] : s \in AtCallback} \ {conn[t]}
        BY <1>1, <1>2
    <2>5. {m_clients[i] : i \in Connected} \ {conn[t]}
             = {m_clients[i] : i \in Connected}
        BY <1>2
    <2>6. NoConnectionLeaks'
        BY <2>1, <2>2, <2>4, <2>5 DEF NoConnectionLeaks
    <2>7. QED
        BY <2>3, <2>6
<1>5. QED
    BY <1>3, <1>4

\* A client that is disconnected takes its connection, and no other, with it.
LEMMA ConnectionsDisconnect ==
    ASSUME TypeOK, Numbering, Distinct, NoConnectionLeaks,
           NEW t \in Threads, disconnect(t)
    PROVE  Distinct' /\ NoConnectionLeaks'
<1>1. \A s \in Threads :
        /\ pc'[s] = "callback" <=> pc[s] = "callback"
        /\ pc[s] = "callback" => client'[s] = client[s] /\ conn'[s] = conn[s]
    BY DEF disconnect, TypeOK
<1>2. CASE client[t] \notin Connected
    BY <1>1, <1>2, ConnectionsKept DEF disconnect
<1>3. CASE client[t] \in Connected
    <2> DEFINE i == client[t]
               c == m_clients[i]
    <2>1. /\ m_clients' = [m_clients EXCEPT ![i] = 0]
          /\ open' = open \ {c} /\ used' \in {used, used \ {c}}
        BY <1>3 DEF disconnect
    <2>2. Connected' = Connected \ {i} /\ AtCallback' = AtCallback
        BY <1>1, <1>3, <2>1 DEF Connected, AtCallback, TypeOK
    <2>3. \A j \in Connected' : m_clients'[j] = m_clients[j] /\ m_clients[j] # c
        BY <1>3, <2>1, <2>2 DEF Connected, Distinct, TypeOK
    <2>4. \A s \in AtCallback : /\ client'[s] = client[s] /\ conn'[s] = conn[s]
                                /\ conn[s] # c /\ client[s] # i
        BY <1>1, <1>3 DEF AtCallback, Distinct, Connected
    <2>5. \A s \in AtCallback : m_clients'[client[s]] = 0
        <3>1. \A s \in AtCallback : client[s] \in Ids
            BY CallersKnown DEF AtCallback
        <3>2. QED
            BY <2>1, <2>4, <3>1 DEF Distinct, TypeOK
    <2>6. open' \subseteq used'
        BY <2>1 DEF Distinct
    <2>7. Distinct'
        BY <2>2, <2>3, <2>4, <2>5, <2>6 DEF Distinct
    <2>8. /\ {m_clients'[j] : j \in Connected'}
                = {m_clients[j] : j \in Connected} \ {c}
          /\ {conn'[s] : s \in AtCallback'} = {conn[s] : s \in AtCallback}
          /\ {conn[s] : s \in AtCallback} \ {c} = {conn[s] : s \in AtCallback}
        BY <1>3, <2>2, <2>3, <2>4
    <2>9. NoConnectionLeaks'
        BY <2>1, <2>8 DEF NoConnectionLeaks
    <2>10. QED
        BY <2>7, <2>9
<1>4. QED
    BY <1>2, <1>3

\* All of them together leave open what is in the callback.
LEMMA ConnectionsDisconnectAll ==
    ASSUME TypeOK, Numbering, Distinct, NoConnectionLeaks, disconnect_all
    PROVE  Distinct' /\ NoConnectionLeaks'
<1> DEFINE cs == {m_clients[i] : i \in Connected}
<1>1. /\ m_clients' = [i \in Ids |-> 0] /\ Connected' = {}
      /\ open' = open \ cs /\ used' \in {used, used \ cs}
      /\ AtCallback' = AtCallback /\ client' = client /\ conn' = conn
    BY DEF disconnect_all, Connected, AtCallback
<1>2. \A t \in AtCallback : conn[t] \notin cs
    BY DEF Distinct
<1>3. \A t \in AtCallback : m_clients'[client[t]] = 0
    <2>1. \A t \in AtCallback : client[t] \in Ids
        BY CallersKnown DEF AtCallback
    <2>2. QED
        BY <1>1, <2>1
<1>4. Distinct'
    BY <1>1, <1>3 DEF Distinct
<1>5. {conn[t] : t \in AtCallback} \ cs = {conn[t] : t \in AtCallback}
    BY <1>2
<1>6. NoConnectionLeaks'
    BY <1>1, <1>5 DEF NoConnectionLeaks
<1>7. QED
    BY <1>4, <1>6

\* Every step keeps the connections in order.
LEMMA ConnectionsStep ==
    ASSUME TypeOK, Numbering, Distinct, NoConnectionLeaks,
           [Next]_vars
    PROVE  Distinct' /\ NoConnectionLeaks'
<1>0. /\ pc \in [Threads -> PCs] /\ client \in [Threads -> Nat]
      /\ conn \in [Threads -> 0..MaxConnects]
    BY DEF TypeOK
<1>1. ASSUME NEW t \in Threads,
             PollStart(t) \/ PollReturns(t) \/ PollFails(t) \/ Find(t)
      PROVE  Distinct' /\ NoConnectionLeaks'
    BY <1>0, <1>1, ConnectionsKept
    DEF PollStart, PollReturns, PollFails, Find
<1>2. ASSUME NEW t \in Threads,
             AcceptLock(t) \/ AcceptFails(t) \/ AcceptFull(t)
      PROVE  Distinct' /\ NoConnectionLeaks'
    BY <1>0, <1>2, ConnectionsKept DEF AcceptLock, AcceptFails, AcceptFull
<1>3. ASSUME NEW t \in Threads, AcceptNoDelayFails(t)
      PROVE  Distinct' /\ NoConnectionLeaks'
    <2>1. /\ used \subseteq used' /\ open' = open /\ m_clients' = m_clients
          /\ Connected' = Connected
        BY <1>3 DEF AcceptNoDelayFails, Connected
    <2>2. /\ AtCallback' = AtCallback
          /\ \A s \in AtCallback : client'[s] = client[s] /\ conn'[s] = conn[s]
        BY <1>0, <1>3 DEF AcceptNoDelayFails, AtCallback
    <2>3. {conn'[s] : s \in AtCallback} = {conn[s] : s \in AtCallback}
        BY <2>2
    <2>4. QED
        BY <2>1, <2>2, <2>3 DEF Distinct, NoConnectionLeaks
<1>4. ASSUME NEW t \in Threads, Transfer(t) \/ Notify(t)
      PROVE  Distinct' /\ NoConnectionLeaks'
    BY <1>0, <1>4, ConnectionsKept DEF Transfer, Notify
<1>5. ASSUME NEW t \in Threads, NEW i \in Ids,
             TransferStart(t, i) \/ DisconnectCall(t, i)
      PROVE  Distinct' /\ NoConnectionLeaks'
    BY <1>0, <1>5, ConnectionsKept DEF TransferStart, DisconnectCall
<1>6. CASE listen \/ unlisten \/ PeerConnects
    BY <1>6, ConnectionsKept DEF listen, unlisten, PeerConnects
<1>7. ASSUME NEW set \in BOOLEAN, on_connect(set) \/ on_disconnect(set)
      PROVE  Distinct' /\ NoConnectionLeaks'
    BY <1>7, ConnectionsKept DEF on_connect, on_disconnect
<1>8. CASE UNCHANGED vars
    BY <1>8, ConnectionsKept DEF vars
<1>9. QED
    BY <1>1, <1>2, <1>3, <1>4, <1>5, <1>6, <1>7, <1>8, ConnectionsAccept,
       ConnectionsCallback, ConnectionsDisconnect, ConnectionsDisconnectAll
    DEF Next, Running

-----------------------------------------------------------------------------
(* Owners: needs that no number is handed out twice (~ReuseFDs).           *)

\* Owners is kept when numbers stay used, and their owners with them.
LEMMA OwnersKept ==
    ASSUME Owners,
           used \subseteq used',
           \A c \in used : owner'[c] = owner[c],
           \A i \in Connected : m_clients[i] \in used,
           \A t \in AtCallback : conn[t] \in used,
           Connected' \subseteq Connected,
           \A i \in Connected' : m_clients'[i] = m_clients[i],
           \A t \in Threads : pc'[t] \in {"callback", "transfer"} =>
               /\ pc[t] = pc'[t]
               /\ client'[t] = client[t] /\ conn'[t] = conn[t]
    PROVE  Owners'
BY DEF Owners, AtCallback

\* Every connection that may be used, closed or not, stays its client's.
LEMMA OwnersStep ==
    ASSUME TypeOK, Numbering, Distinct, NoConnectionLeaks,
           ~ReuseFDs, Owners, [Next]_vars
    PROVE  Owners'
<1>0. /\ pc \in [Threads -> PCs] /\ client \in [Threads -> Nat]
      /\ conn \in [Threads -> 0..MaxConnects]
      /\ m_clients \in [Ids -> 0..MaxConnects]
      /\ used \in SUBSET Conns
      /\ owner \in [Conns -> Nat]
      /\ \A i \in Connected : m_clients[i] \in used
      /\ \A t \in AtCallback : conn[t] \in used
    BY DEF TypeOK, NoConnectionLeaks, Distinct
<1>1. ASSUME NEW t \in Threads,
             PollStart(t) \/ PollReturns(t) \/ PollFails(t) \/ Find(t)
      PROVE  Owners'
    BY <1>0, <1>1, OwnersKept
    DEF PollStart, PollReturns, PollFails, Find, Connected
<1>2. ASSUME NEW t \in Threads,
             AcceptLock(t) \/ AcceptFails(t) \/ AcceptFull(t)
      PROVE  Owners'
    BY <1>0, <1>2, OwnersKept DEF AcceptLock, AcceptFails, AcceptFull, Connected
<1>3. ASSUME NEW t \in Threads, AcceptNoDelayFails(t) PROVE Owners'
    BY <1>0, <1>3, OwnersKept DEF AcceptNoDelayFails, Connected
<1>4. ASSUME NEW t \in Threads, AcceptClient(t) PROVE Owners'
    <2> DEFINE c == LowestFree
               n == m_next_client_id
    <2>1. n \in Ids /\ c \in Conns /\ c \notin used
        BY <1>4, NumberLeft DEF AcceptClient
    <2>2. /\ used' = used \cup {c} /\ owner' = [owner EXCEPT ![c] = n]
          /\ pc[t] = "accepting"
        BY <1>4 DEF AcceptClient
    <2>3. /\ owner'[c] = n
          /\ \A d \in used : owner'[d] = owner[d]
        BY <1>0, <2>1, <2>2
    <2>4. \A u \in Threads : pc'[u] = "transfer" =>
            pc[u] = "transfer" /\ conn'[u] = conn[u] /\ client'[u] = client[u]
        BY <1>0, <1>4 DEF AcceptClient
    <2>5. \A u \in AtCallback' :
            \/ u \in AtCallback /\ conn'[u] = conn[u] /\ client'[u] = client[u]
            \/ conn'[u] = c /\ client'[u] = n
        BY <1>0, <1>4 DEF AcceptClient, AtCallback
    <2>6. \A i \in Connected' :
            \/ i \in Connected /\ m_clients'[i] = m_clients[i]
            \/ i = n /\ m_clients'[i] = c
        BY <1>0, <1>4, <2>1 DEF AcceptClient, Connected
    <2>7. \A i \in Connected' : owner'[m_clients'[i]] = i
        BY <1>0, <2>3, <2>6 DEF Owners
    <2>8. \A u \in AtCallback' : owner'[conn'[u]] = client'[u]
        BY <1>0, <2>3, <2>5 DEF Owners
    <2>9. \A u \in Threads : pc'[u] = "transfer" =>
            conn'[u] \in used' /\ owner'[conn'[u]] = client'[u]
        BY <2>2, <2>3, <2>4 DEF Owners
    <2>10. QED
        BY <2>7, <2>8, <2>9 DEF Owners
<1>5. ASSUME NEW t \in Threads, CallbackAccepts(t) PROVE Owners'
    <2>1. /\ t \in AtCallback /\ AtCallback' = AtCallback \ {t}
          /\ client' = client /\ conn' = conn
          /\ used' = used /\ owner' = owner
        BY <1>0, <1>5 DEF CallbackAccepts, AtCallback
    <2>2. \A i \in Connected' :
            \/ i \in Connected /\ m_clients'[i] = m_clients[i]
            \/ i = client[t] /\ m_clients'[i] = conn[t]
        BY <1>0, <1>5 DEF CallbackAccepts, Connected
    <2>3. \A u \in Threads : pc'[u] = "transfer" => pc[u] = "transfer"
        BY <1>0, <1>5 DEF CallbackAccepts
    <2>4. QED
        BY <2>1, <2>2, <2>3 DEF Owners
<1>6. ASSUME NEW t \in Threads, CallbackRefuses(t) PROVE Owners'
    BY <1>0, <1>6, OwnersKept DEF CallbackRefuses, Connected
<1>7. ASSUME NEW t \in Threads, Transfer(t) \/ Notify(t) PROVE Owners'
    BY <1>0, <1>7, OwnersKept DEF Transfer, Notify, Connected
<1>8. ASSUME NEW t \in Threads, disconnect(t) PROVE Owners'
    BY <1>0, <1>8, OwnersKept DEF disconnect, Connected
<1>9. CASE disconnect_all
    BY <1>0, <1>9, OwnersKept DEF disconnect_all, Connected
<1>10. ASSUME NEW t \in Threads, NEW i \in Ids, TransferStart(t, i)
       PROVE  Owners'
    <2>1. /\ i \in Connected
          /\ pc' = [pc EXCEPT ![t] = "transfer"]
          /\ client' = [client EXCEPT ![t] = i]
          /\ conn' = [conn EXCEPT ![t] = m_clients[i]]
          /\ UNCHANGED <<m_clients, used, owner>>
        BY <1>10 DEF TransferStart
    <2>2. owner[m_clients[i]] = i /\ m_clients[i] \in used
        BY <1>0, <2>1 DEF Owners
    <2>3. \A u \in Threads :
            \/ u = t /\ pc'[u] = "transfer" /\ client'[u] = i /\ conn'[u] = m_clients[i]
            \/ pc'[u] = pc[u] /\ client'[u] = client[u] /\ conn'[u] = conn[u]
        BY <1>0, <2>1
    <2>4. QED
        BY <2>1, <2>2, <2>3 DEF Owners, AtCallback, Connected
<1>11. ASSUME NEW t \in Threads, NEW i \in Ids, DisconnectCall(t, i)
       PROVE  Owners'
    BY <1>0, <1>11, OwnersKept DEF DisconnectCall, Connected
<1>12. CASE listen \/ unlisten \/ PeerConnects
    BY <1>0, <1>12, OwnersKept DEF listen, unlisten, PeerConnects, Connected
<1>13. ASSUME NEW set \in BOOLEAN, on_connect(set) \/ on_disconnect(set)
       PROVE  Owners'
    BY <1>0, <1>13, OwnersKept DEF on_connect, on_disconnect, Connected
<1>14. CASE UNCHANGED vars
    BY <1>0, <1>14, OwnersKept DEF vars, Connected
<1>15. QED
    BY <1>1, <1>2, <1>3, <1>4, <1>5, <1>6, <1>7, <1>8, <1>9, <1>10, <1>11,
       <1>12, <1>13, <1>14 DEF Next, Running

-----------------------------------------------------------------------------
(* DisconnectNotifiedOnce, from NotifiedOfGone.                            *)

\* Ids are not handed out twice: a client that is gone does not come back.
LEMMA GoneForGood ==
    ASSUME TypeOK, Numbering, Distinct, [Next]_vars, NEW i \in Ids, Gone(i)
    PROVE  Gone(i)'
<1>0. /\ pc \in [Threads -> PCs] /\ client \in [Threads -> Nat]
      /\ m_clients \in [Ids -> 0..MaxConnects] /\ m_clients[i] = 0
      /\ m_next_client_id \in Nat /\ i \in Nat /\ i < m_next_client_id
      /\ \A t \in Threads : pc[t] = "callback" => client[t] # i
    BY DEF TypeOK, Gone, AtCallback, Ids
<1>1. ASSUME NEW t \in Threads,
             PollStart(t) \/ PollReturns(t) \/ PollFails(t) \/ Find(t)
      PROVE  Gone(i)'
    BY <1>0, <1>1
    DEF PollStart, PollReturns, PollFails, Find, Gone, AtCallback
<1>2. ASSUME NEW t \in Threads,
             AcceptLock(t) \/ AcceptFails(t) \/ AcceptFull(t)
      PROVE  Gone(i)'
    BY <1>0, <1>2 DEF AcceptLock, AcceptFails, AcceptFull, Gone, AtCallback
<1>3. ASSUME NEW t \in Threads, AcceptClient(t) \/ AcceptNoDelayFails(t)
      PROVE  Gone(i)'
    <2>1. m_next_client_id' = m_next_client_id + 1
        BY <1>3 DEF AcceptClient, AcceptNoDelayFails
    <2>2. m_clients'[i] = 0
        BY <1>0, <1>3 DEF AcceptClient, AcceptNoDelayFails
    <2>3. \A u \in Threads : pc'[u] = "callback" => client'[u] # i
        BY <1>0, <1>3 DEF AcceptClient, AcceptNoDelayFails
    <2>4. QED
        BY <1>0, <2>1, <2>2, <2>3 DEF Gone, AtCallback
<1>4. ASSUME NEW t \in Threads, CallbackAccepts(t) \/ CallbackRefuses(t)
      PROVE  Gone(i)'
    BY <1>0, <1>4 DEF CallbackAccepts, CallbackRefuses, Gone, AtCallback
<1>5. ASSUME NEW t \in Threads, Transfer(t) \/ Notify(t) PROVE Gone(i)'
    BY <1>0, <1>5 DEF Transfer, Notify, Gone, AtCallback
<1>6. ASSUME NEW t \in Threads, disconnect(t) PROVE Gone(i)'
    BY <1>0, <1>6 DEF disconnect, Gone, AtCallback
<1>7. ASSUME NEW t \in Threads, NEW j \in Ids,
             TransferStart(t, j) \/ DisconnectCall(t, j)
      PROVE  Gone(i)'
    BY <1>0, <1>7 DEF TransferStart, DisconnectCall, Gone, AtCallback
<1>8. CASE disconnect_all
    BY <1>0, <1>8 DEF disconnect_all, Gone, AtCallback
<1>9. CASE listen \/ unlisten \/ PeerConnects
    BY <1>0, <1>9 DEF listen, unlisten, PeerConnects, Gone, AtCallback
<1>10. ASSUME NEW set \in BOOLEAN, on_connect(set) \/ on_disconnect(set)
       PROVE  Gone(i)'
    BY <1>0, <1>10 DEF on_connect, on_disconnect, Gone, AtCallback
<1>11. CASE UNCHANGED vars
    BY <1>0, <1>11 DEF vars, Gone, AtCallback
<1>12. QED
    BY <1>1, <1>2, <1>3, <1>4, <1>5, <1>6, <1>7, <1>8, <1>9, <1>10, <1>11
    DEF Next, Running

\* NotifiedOfGone is kept when no notification begins or ends.
LEMMA NotifiedKept ==
    ASSUME TypeOK, Numbering, Distinct, NotifiedOfGone, [Next]_vars,
           notified' = notified,
           \A t \in Threads : pc'[t] = "notify" =>
               pc[t] = "notify" /\ client'[t] = client[t]
    PROVE  NotifiedOfGone'
<1>1. \A t \in Notifying' :
        t \in Notifying /\ client'[t] = client[t] /\ client[t] \in Ids
    BY CallersKnown DEF Notifying
<1>2. \A t \in Notifying' : Gone(client[t])'
    BY <1>1, GoneForGood DEF NotifiedOfGone
<1>3. \A i \in Ids : notified'[i] = 0 \/ (notified'[i] = 1 /\ Gone(i)')
    BY GoneForGood DEF NotifiedOfGone
<1>4. \A t \in Notifying' :
        /\ notified'[client'[t]] = 0
        /\ \A s \in Notifying' \ {t} : client'[s] # client'[t]
    BY <1>1 DEF NotifiedOfGone
<1>5. QED
    BY <1>2, <1>3, <1>4 DEF NotifiedOfGone

\* A thread that has erased a client is the only one to notify of it, once.
LEMMA NotifiedStep ==
    ASSUME TypeOK, Numbering, Distinct, NotifiedOfGone, [Next]_vars
    PROVE  NotifiedOfGone'
<1>0. /\ pc \in [Threads -> PCs] /\ client \in [Threads -> Nat]
      /\ m_clients \in [Ids -> 0..MaxConnects]
      /\ notified \in [Ids -> Nat]
    BY DEF TypeOK
<1>1. ASSUME NEW t \in Threads,
             PollStart(t) \/ PollReturns(t) \/ PollFails(t) \/ Find(t)
      PROVE  NotifiedOfGone'
    BY <1>0, <1>1, NotifiedKept DEF PollStart, PollReturns, PollFails, Find
<1>2. ASSUME NEW t \in Threads,
             AcceptLock(t) \/ AcceptFails(t) \/ AcceptFull(t)
      PROVE  NotifiedOfGone'
    BY <1>0, <1>2, NotifiedKept DEF AcceptLock, AcceptFails, AcceptFull
<1>3. ASSUME NEW t \in Threads, AcceptClient(t) \/ AcceptNoDelayFails(t)
      PROVE  NotifiedOfGone'
    BY <1>0, <1>3, NotifiedKept DEF AcceptClient, AcceptNoDelayFails
<1>4. ASSUME NEW t \in Threads, CallbackAccepts(t) \/ CallbackRefuses(t)
      PROVE  NotifiedOfGone'
    BY <1>0, <1>4, NotifiedKept DEF CallbackAccepts, CallbackRefuses
<1>5. ASSUME NEW t \in Threads, Transfer(t) PROVE NotifiedOfGone'
    BY <1>0, <1>5, NotifiedKept DEF Transfer
<1>6. ASSUME NEW t \in Threads, disconnect(t) PROVE NotifiedOfGone'
    <2>1. notified' = notified
        BY <1>6 DEF disconnect
    <2>2. CASE client[t] \in Connected /\ m_disconnect
        <3> DEFINE i == client[t]
        <3>1. /\ m_clients' = [m_clients EXCEPT ![i] = 0]
              /\ pc' = [pc EXCEPT ![t] = "notify"] /\ client' = client
              /\ pc[t] = "disconnect"
              /\ m_next_client_id' = m_next_client_id
            BY <1>6, <2>2 DEF disconnect
        <3>2. i \in Ids /\ m_clients[i] # 0
            BY <2>2 DEF Connected
        <3>3. notified[i] = 0 /\ \A s \in Notifying : client[s] # i
            BY <3>2 DEF NotifiedOfGone, Gone
        <3>4. \A s \in AtCallback' : s \in AtCallback /\ client[s] # i
            BY <1>0, <3>1, <3>2 DEF AtCallback, Distinct
        <3>5. i < m_next_client_id /\ m_clients'[i] = 0
            BY <1>0, <3>1, <3>2 DEF Numbering
        <3>6. Gone(client[t])'
            BY <3>1, <3>4, <3>5 DEF Gone
        <3>7. Notifying' = Notifying \cup {t}
            BY <1>0, <3>1 DEF Notifying
        <3>8. \A s \in Notifying : Gone(client[s])'
            <4>1. \A s \in Notifying : client[s] \in Ids /\ Gone(client[s])
                BY CallersKnown DEF Notifying, NotifiedOfGone
            <4>2. QED
                BY <3>1, <4>1, GoneForGood
        <3>9. \A j \in Ids : notified[j] = 0 \/ (notified[j] = 1 /\ Gone(j)')
            BY GoneForGood DEF NotifiedOfGone
        <3>10. \A s \in Notifying' : Gone(client[s])'
            BY <3>6, <3>7, <3>8
        <3>11. \A s \in Notifying' :
                /\ notified'[client'[s]] = 0
                /\ \A r \in Notifying' \ {s} : client'[r] # client'[s]
            BY <2>1, <3>1, <3>3, <3>7 DEF NotifiedOfGone
        <3>12. QED
            BY <2>1, <3>9, <3>10, <3>11 DEF NotifiedOfGone
    <2>3. CASE ~(client[t] \in Connected /\ m_disconnect)
        BY <1>0, <1>6, <2>1, <2>3, NotifiedKept DEF disconnect
    <2>4. QED
        BY <2>2, <2>3
<1>7. ASSUME NEW t \in Threads, Notify(t) PROVE NotifiedOfGone'
    <2> DEFINE i == client[t]
    <2>1. /\ t \in Notifying /\ i \in Ids /\ Gone(i) /\ notified[i] = 0
          /\ \A s \in Notifying \ {t} : client[s] # i
        BY <1>7, CallersKnown DEF Notify, Notifying, NotifiedOfGone
    <2>2. notified' = [notified EXCEPT ![i] = @ + 1]
        BY <1>7 DEF Notify
    <2>3. notified'[i] = 1 /\ \A j \in Ids \ {i} : notified'[j] = notified[j]
        BY <1>0, <2>1, <2>2
    <2>4. /\ Notifying' = Notifying \ {t}
          /\ \A s \in Notifying' : client'[s] = client[s] /\ client[s] \in Ids
        BY <1>0, <1>7, CallersKnown DEF Notify, Notifying
    <2>5. \A j \in Ids : notified'[j] = 0 \/ (notified'[j] = 1 /\ Gone(j)')
        BY <2>1, <2>3, GoneForGood DEF NotifiedOfGone
    <2>6. \A s \in Notifying' : Gone(client[s])'
        <3>1. \A s \in Notifying' : Gone(client[s])
            BY <2>4 DEF NotifiedOfGone
        <3>2. QED
            BY <2>4, <3>1, GoneForGood
    <2>7. \A s \in Notifying' :
            /\ notified'[client'[s]] = 0
            /\ \A r \in Notifying' \ {s} : client'[r] # client'[s]
        BY <2>1, <2>3, <2>4 DEF NotifiedOfGone
    <2>8. QED
        BY <2>5, <2>6, <2>7 DEF NotifiedOfGone
<1>8. ASSUME NEW t \in Threads, NEW i \in Ids,
             TransferStart(t, i) \/ DisconnectCall(t, i)
      PROVE  NotifiedOfGone'
    BY <1>0, <1>8, NotifiedKept DEF TransferStart, DisconnectCall
<1>9. CASE disconnect_all
    BY <1>0, <1>9, NotifiedKept DEF disconnect_all
<1>10. CASE listen \/ unlisten \/ PeerConnects
    BY <1>0, <1>10, NotifiedKept DEF listen, unlisten, PeerConnects
<1>11. ASSUME NEW set \in BOOLEAN, on_connect(set) \/ on_disconnect(set)
       PROVE  NotifiedOfGone'
    BY <1>0, <1>11, NotifiedKept DEF on_connect, on_disconnect
<1>12. CASE UNCHANGED vars
    BY <1>0, <1>12, NotifiedKept DEF vars
<1>13. QED
    BY <1>1, <1>2, <1>3, <1>4, <1>5, <1>6, <1>7, <1>8, <1>9, <1>10, <1>11,
       <1>12 DEF Next, Running

-----------------------------------------------------------------------------
(* ClientsBounded.                                                         *)

\* Nothing that lets go of clients breaks the bound.
LEMMA BoundKept ==
    ASSUME TypeOK, LockAndPollers, ClientsBounded,
           Connected' \subseteq Connected, AtCallback' \subseteq AtCallback
    PROVE  ClientsBounded'
<1>1. AtCallback \in SUBSET Pollers /\ Connected \in SUBSET Ids
    BY DEF LockAndPollers, AtCallback, Connected
<1>2. /\ Cardinality(Connected') <= Cardinality(Connected)
      /\ Cardinality(AtCallback') <= Cardinality(AtCallback)
    BY <1>1, FiniteConns, FS_Subset
<1>3. /\ Cardinality(Connected') \in Nat /\ Cardinality(Connected) \in Nat
      /\ Cardinality(AtCallback') \in Nat /\ Cardinality(AtCallback) \in Nat
      /\ Cardinality(Pollers) \in Nat /\ m_max_clients \in Nat
    BY <1>1, FiniteConns, ServerSocketAssumption
<1>4. QED
    BY <1>2, <1>3 DEF ClientsBounded

\* The limit is checked when a client is accepted; whoever is in the callback
\* then was in it before, and the poller that accepts is not among them.
LEMMA BoundAccept ==
    ASSUME TypeOK, LockAndPollers, Numbering,
           NEW t \in Threads, AcceptClient(t)
    PROVE  ClientsBounded'
<1>0. /\ pc \in [Threads -> PCs] /\ m_clients \in [Ids -> 0..MaxConnects]
      /\ pc[t] = "accepting" /\ t \in Pollers
      /\ Cardinality(Connected) < m_max_clients
    BY DEF AcceptClient, TypeOK, LockAndPollers
<1>1. /\ AtCallback \in SUBSET (Pollers \ {t})
      /\ Connected \in SUBSET Ids
      /\ m_next_client_id \in Ids
    BY <1>0, NumberLeft DEF LockAndPollers, AtCallback, Connected, AcceptClient
<1>2. /\ IsFiniteSet(Pollers \ {t})
      /\ Cardinality(Pollers \ {t}) = Cardinality(Pollers) - 1
    BY <1>0, ServerSocketAssumption, FS_RemoveElement
<1>3. Cardinality(AtCallback) <= Cardinality(Pollers) - 1
    BY <1>1, <1>2, FS_Subset
<1>4. /\ Cardinality(Connected) \in Nat /\ Cardinality(AtCallback) \in Nat
      /\ Cardinality(Pollers) \in Nat /\ m_max_clients \in Nat
      /\ IsFiniteSet(Connected) /\ IsFiniteSet(AtCallback)
    BY <1>1, FiniteConns, ServerSocketAssumption
<1>5. CASE m_connect
    <2>1. Connected' = Connected /\ AtCallback' = AtCallback \cup {t}
        BY <1>0, <1>5 DEF AcceptClient, Connected, AtCallback
    <2>2. /\ Cardinality(AtCallback \cup {t}) <= Cardinality(AtCallback) + 1
          /\ Cardinality(AtCallback \cup {t}) \in Nat
        BY <1>4, OneMore
    <2>3. QED
        BY <1>0, <1>3, <1>4, <2>1, <2>2 DEF ClientsBounded
<1>6. CASE ~m_connect
    <2>1. /\ Connected' \subseteq Connected \cup {m_next_client_id}
          /\ AtCallback' = AtCallback
        BY <1>0, <1>1, <1>6 DEF AcceptClient, Connected, AtCallback
    <2>2. /\ IsFiniteSet(Connected \cup {m_next_client_id})
          /\ Cardinality(Connected \cup {m_next_client_id})
                <= Cardinality(Connected) + 1
        BY <1>4, OneMore
    <2>3. /\ Cardinality(Connected')
                <= Cardinality(Connected \cup {m_next_client_id})
          /\ Cardinality(Connected') \in Nat
          /\ Cardinality(Connected \cup {m_next_client_id}) \in Nat
        BY <2>1, <2>2, FS_Subset, FS_CardinalityType
    <2>4. Cardinality(Connected') <= m_max_clients
        BY <1>0, <1>4, <2>2, <2>3
    <2>5. QED
        BY <1>3, <1>4, <2>1, <2>3, <2>4 DEF ClientsBounded
<1>7. QED
    BY <1>5, <1>6

\* A client that on_connect accepts moves from the one count to the other.
LEMMA BoundCallback ==
    ASSUME TypeOK, LockAndPollers, ClientsBounded,
           NEW t \in Threads, CallbackAccepts(t)
    PROVE  ClientsBounded'
<1>1. /\ t \in AtCallback /\ AtCallback' = AtCallback \ {t}
      /\ Connected' \subseteq Connected \cup {client[t]}
    BY DEF CallbackAccepts, AtCallback, Connected, TypeOK
<1>2. AtCallback \in SUBSET Pollers /\ Connected \in SUBSET Ids
    BY DEF LockAndPollers, AtCallback, Connected
<1>3. /\ Cardinality(Connected) \in Nat /\ Cardinality(AtCallback) \in Nat
      /\ Cardinality(Pollers) \in Nat /\ m_max_clients \in Nat
      /\ IsFiniteSet(Connected) /\ IsFiniteSet(AtCallback)
    BY <1>2, FiniteConns, ServerSocketAssumption
<1>4. Cardinality(AtCallback \ {t}) = Cardinality(AtCallback) - 1
    BY <1>1, <1>3, FS_RemoveElement
<1>5. /\ IsFiniteSet(Connected \cup {client[t]})
      /\ Cardinality(Connected \cup {client[t]}) <= Cardinality(Connected) + 1
    BY <1>3, OneMore
<1>6. /\ Cardinality(Connected') <= Cardinality(Connected \cup {client[t]})
      /\ Cardinality(Connected') \in Nat
      /\ Cardinality(Connected \cup {client[t]}) \in Nat
    BY <1>1, <1>5, FS_Subset, FS_CardinalityType
<1>7. QED
    BY <1>1, <1>3, <1>4, <1>5, <1>6 DEF ClientsBounded

\* Every step respects the bound.
LEMMA BoundStep ==
    ASSUME TypeOK, LockAndPollers, Numbering, ClientsBounded, [Next]_vars
    PROVE  ClientsBounded'
<1>0. /\ pc \in [Threads -> PCs] /\ m_clients \in [Ids -> 0..MaxConnects]
    BY DEF TypeOK
<1>1. ASSUME NEW t \in Threads,
             PollStart(t) \/ PollReturns(t) \/ PollFails(t) \/ Find(t)
      PROVE  ClientsBounded'
    BY <1>0, <1>1, BoundKept
    DEF PollStart, PollReturns, PollFails, Find, Connected, AtCallback
<1>2. ASSUME NEW t \in Threads,
             AcceptLock(t) \/ AcceptFails(t) \/ AcceptFull(t)
             \/ AcceptNoDelayFails(t)
      PROVE  ClientsBounded'
    BY <1>0, <1>2, BoundKept
    DEF AcceptLock, AcceptFails, AcceptFull, AcceptNoDelayFails, Connected,
        AtCallback
<1>3. ASSUME NEW t \in Threads, CallbackRefuses(t) PROVE ClientsBounded'
    BY <1>0, <1>3, BoundKept DEF CallbackRefuses, Connected, AtCallback
<1>4. ASSUME NEW t \in Threads, Transfer(t) \/ disconnect(t) \/ Notify(t)
      PROVE  ClientsBounded'
    BY <1>0, <1>4, BoundKept
    DEF Transfer, disconnect, Notify, Connected, AtCallback
<1>5. ASSUME NEW t \in Threads, NEW i \in Ids,
             TransferStart(t, i) \/ DisconnectCall(t, i)
      PROVE  ClientsBounded'
    BY <1>0, <1>5, BoundKept
    DEF TransferStart, DisconnectCall, Connected, AtCallback
<1>6. CASE disconnect_all
    BY <1>0, <1>6, BoundKept DEF disconnect_all, Connected, AtCallback
<1>7. CASE listen \/ unlisten \/ PeerConnects
    BY <1>7, BoundKept DEF listen, unlisten, PeerConnects, Connected, AtCallback
<1>8. ASSUME NEW set \in BOOLEAN, on_connect(set) \/ on_disconnect(set)
      PROVE  ClientsBounded'
    BY <1>8, BoundKept DEF on_connect, on_disconnect, Connected, AtCallback
<1>9. CASE UNCHANGED vars
    BY <1>9, BoundKept DEF vars, Connected, AtCallback
<1>10. QED
    BY <1>1, <1>2, <1>3, <1>4, <1>5, <1>6, <1>7, <1>8, <1>9, BoundAccept,
       BoundCallback DEF Next, Running

-----------------------------------------------------------------------------
(* OnlyLivePortReported.                                                   *)

\* A port is only set together with bound, and a socket goes with its port.
LEMMA PortStep ==
    ASSUME TypeOK, OnlyLivePortReported, [Next]_vars
    PROVE  OnlyLivePortReported'
<1>1. \/ UNCHANGED <<m_socket, bound, m_port>>
      \/ m_port' = FALSE
      \/ m_socket' = listens + 1 /\ bound' = TRUE
    BY DEF Next, Running, vars, PollStart, PollReturns, PollFails, Find,
           AcceptLock, AcceptFails, AcceptFull, AcceptClient,
           AcceptNoDelayFails, CallbackAccepts, CallbackRefuses, TransferStart,
           Transfer, DisconnectCall, disconnect, Notify, disconnect_all,
           listen, unlisten, on_connect, on_disconnect, PeerConnects
<1>2. listens + 1 # 0
    BY ServerSocketAssumption DEF TypeOK
<1>3. QED
    BY <1>1, <1>2 DEF OnlyLivePortReported

-----------------------------------------------------------------------------
(* The theorems.                                                           *)

LEMMA InitialState == Init => TypeOK /\ Inductive
<1> SUFFICES ASSUME Init PROVE TypeOK /\ Inductive
    OBVIOUS
<1>1. TypeOK
    <2>1. 0 \in 0..MaxListens /\ 0 \in 0..MaxConnects
        BY ServerSocketAssumption
    <2>2. QED
        BY <2>1 DEF Init, TypeOK, PCs
<1>2. Connected = {} /\ AtCallback = {} /\ Notifying = {}
    BY DEF Init, Connected, AtCallback, Notifying
<1>3. LockAndPollers
    BY ServerSocketAssumption DEF Init, LockAndPollers
<1>4. Numbering
    BY FS_EmptySet DEF Init, Numbering
<1>5. Distinct /\ NoConnectionLeaks /\ NotifiedOfGone /\ Owners
    BY <1>2 DEF Init, Distinct, NoConnectionLeaks, NotifiedOfGone, Owners
<1>6. ClientsBounded
    BY <1>2, FiniteConns, ServerSocketAssumption, FS_EmptySet DEF ClientsBounded
<1>7. OnlyLivePortReported
    BY DEF Init, OnlyLivePortReported
<1>8. QED
    BY <1>1, <1>3, <1>4, <1>5, <1>6, <1>7 DEF Inductive

LEMMA StepKeepsInductive ==
    TypeOK /\ Inductive /\ [Next]_vars => TypeOK' /\ Inductive'
BY TypeStep, LockStep, NumberingStep, ConnectionsStep, OwnersStep,
   NotifiedStep, BoundStep, PortStep DEF Inductive

\* The inductive invariant of the server: Inductive, with the types.
THEOREM InductiveHolds == Spec => [](TypeOK /\ Inductive)
BY InitialState, StepKeepsInductive, PTL DEF Spec

\* Every step of every call keeps every variable in its range.
THEOREM TypeCorrect == Spec => []TypeOK
BY InductiveHolds, PTL

\* However many pollers accept at the same time, m_max_clients is overrun by
\* no more than the pollers there are besides one.
THEOREM LimitOverrunIsBounded == Spec => []ClientsBounded
<1>1. Inductive => ClientsBounded
    BY DEF Inductive
<1>2. QED
    BY <1>1, InductiveHolds, PTL

\* A port is reported only while a socket listens on it.
THEOREM PortIsLive == Spec => []OnlyLivePortReported
<1>1. Inductive => OnlyLivePortReported
    BY DEF Inductive
<1>2. QED
    BY <1>1, InductiveHolds, PTL

\* No call, and no order of calls, leaks or closes a connection wrongly.
THEOREM ConnectionsAccounted == Spec => []NoConnectionLeaks
<1>1. Inductive => NoConnectionLeaks
    BY DEF Inductive
<1>2. QED
    BY <1>1, InductiveHolds, PTL

\* Where close_socket does not free the number of a connection (Linux), send
\* and recv never act on a connection of another client than their own.
THEOREM TransfersKeepTheirConnection ==
    ASSUME ~ReuseFDs
    PROVE  Spec => []OwnConnection
<1>1. Inductive => OwnConnection
    BY DEF Inductive, Owners, OwnConnection
<1>2. QED
    BY <1>1, InductiveHolds, PTL

\* on_disconnect is called at most once for a client, however many threads
\* disconnect it, and only after the client is gone.
THEOREM NotifiedOnce == Spec => []DisconnectNotifiedOnce
<1>1. Inductive => DisconnectNotifiedOnce
    BY DEF Inductive, NotifiedOfGone, Gone, DisconnectNotifiedOnce
<1>2. QED
    BY <1>1, InductiveHolds, PTL

=============================================================================
