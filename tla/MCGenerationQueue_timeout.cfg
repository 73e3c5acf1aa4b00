CONSTANTS
    s1 = s1
    s2 = s2
    s3 = s3
    w1 = w1
    w2 = w2
    NoJob = NoJob
    Submissions = {s1, s2}
    Keys = {"k1"}
    KeyOf <- OneBrief
    Editors = {s1, s2}
    Workers = {w1, w2}
    MaxTries = 3
    Faults = {"timeout"}
    MaxFaults = 1
SPECIFICATION FairSpec
PROPERTY KeysProgress
CHECK_DEADLOCK FALSE
