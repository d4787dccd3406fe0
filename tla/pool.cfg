SPECIFICATION Spec
CONSTANTS
    None = None
    t1 = t1  t2 = t2
    Threads = {t1, t2}
    Metrics = {"calls"}
    FirstHealth = {"UNKNOWN", "HEALTHY"}
    Observations <- Reports
    MaxClock = 2
SYMMETRY ThreadSymmetry
INVARIANTS VerdictHonest LoneObservationKept
