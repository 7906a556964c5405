SPECIFICATION StoreSpec
CONSTANTS
    p1 = p1
    Free = Free
    Runs = {1, 2, 3}
    Procs = {p1}
    Threads = {t1, t2}
    ProcOf <- OneProcess
    Readers = {t1}
    MaxEntries = 3
    MaxFaults = 0
    MaxCrashes = 0
INVARIANT NoLostRun
