\* Two threads log reports at the same time.
SPECIFICATION Spec
CONSTANTS
    Threads = {t1, t2}
    Publishers = {p1}
    NUM_LOG_LEVELS = 1
    Msgs = {a}
    MaxFilters = 0
    NoMsg = NoMsg
INVARIANT ReportsPrintSource
