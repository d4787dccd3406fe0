--------------------------- MODULE ProviderRegistry ---------------------------
(***************************************************************************)
(* The per-provider circuit state of intelligence/registry.py, as pure     *)
(* operators on one ProviderHealth record.  A method of ProviderRegistry   *)
(* mutates the record in place; here it maps the record before the call to *)
(* the record after it.                                                    *)
(*                                                                         *)
(* Time.  The code keeps absolute monotonic instants and compares them     *)
(* with the clock.  A record here keeps what the comparisons can tell      *)
(* apart: the time left until a deadline (0 once it has passed) and the    *)
(* age of the rate window (RateWindow once it is over).  Elapse is one     *)
(* unit of time.                                                           *)
(***************************************************************************)
EXTENDS Optionals

CONSTANTS
    RateLimitCooldown,      \* 120 s
    QuotaCooldown,          \* 900 s
    TemporaryCooldown,      \* 20 s
    CircuitBreakerSeconds,  \* 30 s
    CircuitBreakerFailures, \* 3 failures in a row open the circuit
    RateWindow              \* 60 s, the window of rate_limit_per_minute

ASSUME CooldownAssumption ==
    /\ RateLimitCooldown \in Nat \ {0}
    /\ QuotaCooldown \in Nat \ {0}
    /\ TemporaryCooldown \in Nat \ {0}
    /\ CircuitBreakerSeconds \in Nat \ {0}
    /\ CircuitBreakerFailures \in Nat \ {0}
    /\ RateWindow \in Nat \ {0}

HealthStates == {"healthy", "degraded", "unavailable", "auth_required",
                 "rate_limited", "quota_exhausted", "cooldown"}

FailureKinds == {"authentication", "rate_limit", "quota", "timeout", "network",
                 "provider_unavailable", "invalid_request", "provider_error"}

\* The states in which a provider may be called, and those a deadline ends.
OpenStates == {"healthy", "degraded"}
CoolingStates == {"rate_limited", "quota_exhausted", "cooldown"}

\* What the circuit reads of ProviderHealth: the totals and the average latency
\* only feed the route's score.  failures is consecutive_failures, counted up
\* to CircuitBreakerFailures, beyond which the code does not look.
Health == [state    : HealthStates,
           failures : 0 .. CircuitBreakerFailures,
           until    : Optional(Nat),
           quota    : Optional(Nat),
           age      : Optional(0 .. RateWindow),
           used     : Nat]

\* The record register() creates: nothing asked of the provider yet.
NewHealth(availability, quota) ==
    [state |-> availability, failures |-> 0, until |-> None,
     quota |-> quota, age |-> None, used |-> 0]

\* A bug the checks must catch: the time left is not floored at zero.
ElapseUnfloored(h) ==
    [h EXCEPT !.until = IF @ = None THEN @ ELSE @ - 1,
              !.age   = IF @ \in {None, RateWindow} THEN @ ELSE @ + 1]

\* One unit of time.
Elapse(h) ==
    [h EXCEPT !.until = IF @ \in {None, 0} THEN @ ELSE @ - 1,
              !.age   = IF @ \in {None, RateWindow} THEN @ ELSE @ + 1]

-----------------------------------------------------------------------------
\* The state a provider leaves a cooldown in.
Recovered(h) == IF h.failures > 0 THEN "degraded" ELSE "healthy"

\* A bug: the deadline is cleared and the state it was to end is kept.
RefreshedKeepsState(h) == IF h.until = 0 THEN [h EXCEPT !.until = None] ELSE h

\* _refresh_cooldown, which health() runs before anybody reads the record.
Refreshed(h) ==
    IF h.until = 0
    THEN [h EXCEPT !.until = None,
                   !.state = IF @ \in CoolingStates THEN Recovered(h) ELSE @]
    ELSE h

QuotaSpent(h) == h.quota # None /\ h.quota <= 0

-----------------------------------------------------------------------------
(***************************************************************************)
(* reserve_request.  A refusal for the state or the quota is decided by    *)
(* the first half; the window half runs only under a positive limit.  The  *)
(* call of time.monotonic() between them is where another thread can run.  *)
(***************************************************************************)
\* The refusal for a spent quota leaves no deadline behind.
QuotaRefused(h) == [h EXCEPT !.state = "quota_exhausted"]

\* A limit of zero or less closes the provider for one window.
LimitRefused(h) == [h EXCEPT !.state = "rate_limited", !.until = RateWindow]

\* The window the request falls in, started over when there is none or it ended.
CurrentWindow(h) ==
    IF h.age \in {None, RateWindow} THEN [h EXCEPT !.age = 0, !.used = 0] ELSE h

WindowFull(h, limit) == CurrentWindow(h).used >= limit

WindowRefused(h) ==
    LET w == CurrentWindow(h)
    IN  [w EXCEPT !.state = "rate_limited", !.until = RateWindow - w.age]

WindowTaken(h) == LET w == CurrentWindow(h) IN [w EXCEPT !.used = @ + 1]

-----------------------------------------------------------------------------
\* Python's "retry_after or default": a hint of 0 seconds is no hint.
OrDefault(retry, default) == IF retry \in {None, 0} THEN default ELSE retry

Transient(kind) == kind \in {"timeout", "network", "provider_unavailable"}

\* The state record_failure moves to, given the failures in a row with this one.
FailedState(kind, failures) ==
    CASE kind = "authentication" -> "auth_required"
      [] kind = "rate_limit"     -> "rate_limited"
      [] kind = "quota"          -> "quota_exhausted"
      [] Transient(kind)         -> "cooldown"
      [] OTHER -> IF failures >= CircuitBreakerFailures THEN "cooldown"
                                                        ELSE "degraded"

\* A bug: one default for every kind, the shortest.
FailedCooldownAlike(kind, failures, retry) ==
    CASE kind \in {"rate_limit", "quota"} \/ Transient(kind) ->
           OrDefault(retry, TemporaryCooldown)
      [] kind \in {"invalid_request", "provider_error"}
           /\ failures >= CircuitBreakerFailures -> CircuitBreakerSeconds
      [] OTHER -> None

\* The cooldown record_failure starts; None leaves the deadline as it was.
FailedCooldown(kind, failures, retry) ==
    CASE kind = "rate_limit" -> OrDefault(retry, RateLimitCooldown)
      [] kind = "quota"      -> OrDefault(retry, QuotaCooldown)
      [] Transient(kind)     -> OrDefault(retry, TemporaryCooldown)
      [] kind \in {"invalid_request", "provider_error"}
           /\ failures >= CircuitBreakerFailures -> CircuitBreakerSeconds
      [] OTHER -> None

\* A bug: a success resets the state and forgets the deadline.
AfterSuccessKeepsDeadline(h) ==
    [Refreshed(h) EXCEPT !.failures = 0, !.state = "healthy"]

AfterSuccess(h) ==
    [Refreshed(h) EXCEPT !.failures = 0, !.until = None, !.state = "healthy"]

AfterFailure(h, kind, retry) ==
    LET r == Refreshed(h)
        n == IF r.failures < CircuitBreakerFailures THEN r.failures + 1
                                                     ELSE r.failures
        c == FailedCooldown(kind, n, retry)
    IN  [r EXCEPT !.failures = n,
                  !.state    = FailedState(kind, n),
                  !.until    = IF c = None THEN @ ELSE c]

\* update_quota: spent quota closes the provider, with a deadline only if the
\* caller gives one; any other observation ends a quota closure.
AfterQuota(h, remaining, reset) ==
    LET q == [Refreshed(h) EXCEPT !.quota = remaining]
    IN  IF QuotaSpent(q)
        THEN [q EXCEPT !.state = "quota_exhausted",
                       !.until = IF reset = None THEN @ ELSE reset]
        ELSE IF q.state = "quota_exhausted"
             THEN [q EXCEPT !.until = None, !.state = Recovered(q)]
             ELSE q
=============================================================================
