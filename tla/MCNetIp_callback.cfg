CONSTANTS
    Udps = {1}
    Connectors = {2}
    Acceptors = {3}
    AppThreads = {t1, t2}
    Main = t1
    Run = run
    MaxEnts = 2
    Programs <- MCCallbackPrograms
SPECIFICATION Spec
CHECK_DEADLOCK FALSE
INVARIANTS NoCyclicWait
