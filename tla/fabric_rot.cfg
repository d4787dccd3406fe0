SPECIFICATION Spec
CONSTANTS
    None = None
    t1 = t1  t2 = t2
    Threads = {t1, t2}
    Nodes = {1, 2}
    Guarded = {1, 2}
    Writable = {1, 2}
    Accepting = {1, 2}
    Flaky = {2}
    Corruptible = {1}
    Sources = {None}
    ClientVersions = {}
    Resending = FALSE
    MaxRecords = 1
    MaxLate = 1
SYMMETRY ThreadSymmetry
PROPERTY HealthyReplicaWins
