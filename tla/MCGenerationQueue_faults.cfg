CONSTANTS
    s1 = s1
    s2 = s2
    s3 = s3
    w1 = w1
    w2 = w2
    NoJob = NoJob
    Submissions = {s1, s2, s3}
    Keys = {"k1", "k2"}
    KeyOf <- TwoBriefs
    Editors = {s1, s2}
    Workers = {w1, w2}
    MaxTries = 3
    Faults = {"redis", "web", "crash", "stall", "timeout", "shutdown", "database", "commit"}
    MaxFaults = 3
SPECIFICATION Spec
SYMMETRY WorkerSymmetry
INVARIANTS RowConsistent SameKeySameJob CallbackTruth CompletedHasDocument
PROPERTIES TerminalFinality RefinesLifecycle
CHECK_DEADLOCK FALSE
