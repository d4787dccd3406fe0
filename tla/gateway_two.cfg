SPECIFICATION Spec
CONSTANTS
    None = None
    p1 = p1  p2 = p2  t1 = t1  t2 = t2
    RateLimitCooldown = 2
    QuotaCooldown = 3
    TemporaryCooldown = 1
    CircuitBreakerSeconds = 1
    CircuitBreakerFailures = 2
    RateWindow = 2
    Threads = {t1, t2}
    Providers = {p1, p2}
    Adapters = {p1}
    RateLimit <- OneAWindow
    FirstQuota <- NoQuota
    ProbeResults = {"HEALTHY"}
    Routes <- AnyRoute
    BlankTask = {FALSE}
    FailureModes <- SomeFailures
    QuotaObservations <- NoObservations
    Interleaved = TRUE
INVARIANTS CircuitConsistent RefusalsHeld
PROPERTY LoneRefusalHonoured
