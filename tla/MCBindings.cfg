CONSTANTS
    t1 = t1
    t2 = t2
    Main = Main
    Thread = {t1, t2}
    Hosts = {"rust", "c", "python", "node"}
    MaxCalls = 4
SPECIFICATION Spec
INVARIANTS NoCircularWait CloseFlushes
PROPERTIES EveryCallReturns NoCommitAfterClose
CHECK_DEADLOCK FALSE
