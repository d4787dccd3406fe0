SPECIFICATION Spec
CONSTANTS
    None = None
    t1 = t1  t2 = t2
    RateLimitCooldown = 3
    QuotaCooldown = 4
    TemporaryCooldown = 1
    CircuitBreakerSeconds = 2
    CircuitBreakerFailures = 2
    RateWindow = 2
    Threads = {t1, t2}
    Descriptors <- Registered
    FailureModes <- Failures
    MaxClock = 5
SYMMETRY ThreadSymmetry
INVARIANTS ClosedCanReopen LongRunRate
PROPERTIES QuietRefusalHonoured MethodsAloneAreWhole
