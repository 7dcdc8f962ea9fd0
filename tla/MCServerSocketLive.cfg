\* One poller, one listening socket, one more thread that uses the clients.
SPECIFICATION FairSpec
CONSTANTS
    Threads = {t1, t2}
    Pollers = {t1}
    Nobody = Nobody
    m_max_clients = 1
    MaxConnects = 2
    MaxListens = 1
    ReuseFDs = FALSE
PROPERTIES
    LockIsReleased
    ConnectionsAreAccepted
CHECK_DEADLOCK FALSE
