SPECIFICATION Spec
CONSTANTS
    None = None
    p1 = p1  p2 = p2  t1 = t1  t2 = t2
    RateLimitCooldown = 2
    QuotaCooldown = 2
    TemporaryCooldown = 1
    CircuitBreakerSeconds = 1
    CircuitBreakerFailures = 2
    RateWindow = 2
    Threads = {t1, t2}
    Providers = {p1}
    Adapters = {p1}
    RateLimit <- NoLimit
    FirstQuota <- NoQuota
    ProbeResults = {"HEALTHY"}
    Routes <- AnyRoute
    BlankTask = {FALSE}
    FailureModes <- CapacityFailures
    QuotaObservations <- NoObservations
    Interleaved = FALSE
PROPERTY RateLimitHonoured
