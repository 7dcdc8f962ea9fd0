\* Any calls at the same time.
SPECIFICATION Spec
CONSTANTS
    Threads = {t1, t2, t3}
    Nobody = Nobody
    MaxAddrs = 2
    MaxSockets = 4
SYMMETRY ThreadSymmetry
INVARIANT DataRaceFree
