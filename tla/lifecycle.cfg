SPECIFICATION Spec
CONSTANTS
    None = None
    c1 = c1  c2 = c2  r1 = r1  r2 = r2  t1 = t1  t2 = t2
    Candidates = {c1, c2}
    Resources = {r1, r2}
    Catalog = {r1}
    Checks = {"terms", "quota"}
    Draft <- BothProposeR2
    Claim <- SecondClaimsHealthy
    Observations <- R1Refused
    Threads = {t1, t2}
    MaxRecords <- TwoOfR1
SYMMETRY AnyThread
INVARIANTS TypeOK OfficialHasEvidence SchedulableWasSeen LostSavesAreKnown
