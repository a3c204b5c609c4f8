CONSTANTS
    s1 = s1  s2 = s2  k1 = k1  k2 = k2  t1 = t1  t2 = t2
    Empty = Empty  Masked = Masked  Torn = Torn  Null = Null
    Stores = {"file", "k8s"}
    Saves = {s1, s2}
    Keys = {k1, k2}
    Tokens = {t1, t2}
    Faults = {"write", "torn", "answer"}
    MaxSaves = 2
    MaxCallbacks = 2
    MaxCrashes = 1
SPECIFICATION Spec
SYMMETRY MCSymmetry
INVARIANTS SecretsInForce SecretsLast 
CHECK_DEADLOCK FALSE
