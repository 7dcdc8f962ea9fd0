\* One poller, and a listening socket that is replaced while it polls.
SPECIFICATION FairSpec
CONSTANTS
    Threads = {t1}
    Pollers = {t1}
    Nobody = Nobody
    m_max_clients = 1
    MaxConnects = 1
    MaxListens = 2
    ReuseFDs = FALSE
PROPERTY UnlistenGetsTheLock
CHECK_DEADLOCK FALSE
