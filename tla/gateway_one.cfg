SPECIFICATION Spec
CONSTANTS
    None = None
    p1 = p1  p2 = p2  t1 = t1  t2 = t2
    RateLimitCooldown = 3
    QuotaCooldown = 4
    TemporaryCooldown = 1
    CircuitBreakerSeconds = 2
    CircuitBreakerFailures = 3
    RateWindow = 2
    Threads = {t1}
    Providers = {p1, p2}
    Adapters = {p1, p2}
    RateLimit <- OneAndNone
    FirstQuota <- NoQuota
    ProbeResults <- AllFindings
    Routes <- EveryRoute
    BlankTask = {FALSE}
    FailureModes <- AllFailures
    QuotaObservations <- NoObservations
    Interleaved = FALSE
INVARIANTS TypeOK AttemptsHonest EveryCallBilled ProjectedDeadline
PROPERTIES RateLimitHonoured ExhaustedNeedsEvidence TransientsComeWithDeadlines
