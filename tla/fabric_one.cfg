SPECIFICATION Spec
CONSTANTS
    None = None
    t1 = t1  t2 = t2
    Threads = {t1, t2}
    Nodes = {1}
    Guarded = {1}
    Writable = {1}
    Accepting = {1}
    Flaky = {1}
    Corruptible = {1}
    Sources = {None}
    ClientVersions = {1, 2}
    Resending = TRUE
    MaxRecords = 2
    MaxLate = 1
SYMMETRY ThreadSymmetry
INVARIANTS TypeOK ReportedIsKept OneRecordPerVersion
PROPERTY ImplementsRegister
