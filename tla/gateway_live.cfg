SPECIFICATION BusySpec
CONSTANTS
    None = None
    p1 = p1  p2 = p2  t1 = t1  t2 = t2
    RateLimitCooldown = 2
    QuotaCooldown = 2
    TemporaryCooldown = 1
    CircuitBreakerSeconds = 1
    CircuitBreakerFailures = 2
    RateWindow = 2
    Threads = {t1}
    Providers = {p1, p2}
    Adapters = {p1, p2}
    RateLimit <- ClosedAndOne
    FirstQuota <- NoneAndOne
    ProbeResults = {"HEALTHY"}
    Routes <- AnyRoute
    BlankTask = {TRUE, FALSE}
    FailureModes <- CircuitFailures
    QuotaObservations <- SomeObservations
    Interleaved = FALSE
PROPERTIES RateLimitHonoured ImplementsContract RequestsFinish CircuitReopens PoolReopens
