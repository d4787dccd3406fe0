----------------------------- MODULE ResourceState -----------------------------
(***************************************************************************)
(* One entry of the canonical Resource Pool (resources/model.py) as the    *)
(* Gateway's bridge (intelligence/resource_pool.py) reads and writes it:   *)
(* its health and its cooldown_until, which is kept as the time left.      *)
(***************************************************************************)
EXTENDS Optionals

ResourceHealth == {"HEALTHY", "DEGRADED", "RATE_LIMITED", "EXHAUSTED", "DOWN",
                   "DISABLED", "UNKNOWN"}

\* What eligible() refuses: the blocked states, and UNKNOWN since the bridge
\* never passes allow_unknown_health.
Unschedulable == {"RATE_LIMITED", "EXHAUSTED", "DOWN", "DISABLED", "UNKNOWN"}

\* The states _refresh_transient_cooldown may end.
TransientHealth == {"RATE_LIMITED", "DOWN"}

Resource == [health : ResourceHealth, until : Optional(Nat)]

\* A bug: the time left is not floored at zero.
ElapseResourceUnfloored(r) ==
    [r EXCEPT !.until = IF @ = None THEN @ ELSE @ - 1]

\* One unit of time.
ElapseResource(r) ==
    [r EXCEPT !.until = IF @ \in {None, 0} THEN @ ELSE @ - 1]

\* A bug: only a rate limit ends with its deadline, an outage does not.
ReopenedFromLimit(r) ==
    IF r.health = "RATE_LIMITED" /\ r.until = 0
    THEN [health |-> "DEGRADED", until |-> None]
    ELSE r

\* A bug: any deadline reopens a resource, that of a spent quota too.
ReopenedByTime(r) ==
    IF r.until = 0 THEN [health |-> "DEGRADED", until |-> None] ELSE r

\* _refresh_transient_cooldown, which get(), all() and eligible() run.
Reopened(r) ==
    IF r.health \in TransientHealth /\ r.until = 0
    THEN [health |-> "DEGRADED", until |-> None]
    ELSE r

Schedulable(r) == r.health \notin Unschedulable

\* The health the bridge's record_failure reports for a failure.
ReportedHealth(kind) ==
    CASE kind = "rate_limit" -> "RATE_LIMITED"
      [] kind = "quota" -> "EXHAUSTED"
      [] kind \in {"network", "provider_unavailable"} -> "DOWN"
      [] kind \in {"authentication", "timeout", "provider_error"} -> "DEGRADED"

\* ResourcePoolStateManager.apply: the observation replaces health and deadline.
AppliedSuccess(r) == [health |-> "HEALTHY", until |-> None]

\* A bug: the bridge does not pass the cooldown on.
AppliedFailureOpenEnded(r, kind, retry) ==
    IF kind = "invalid_request"
    THEN Reopened(r)
    ELSE [health |-> ReportedHealth(kind), until |-> None]

\* A bug: the bridge starts a timer of its own.
AppliedFailureOwnTimer(r, kind, retry) ==
    IF kind = "invalid_request"
    THEN Reopened(r)
    ELSE [health |-> ReportedHealth(kind), until |-> 1]

\* An invalid request is the caller's fault and is not reported.
AppliedFailure(r, kind, retry) ==
    IF kind = "invalid_request"
    THEN Reopened(r)
    ELSE [health |-> ReportedHealth(kind), until |-> retry]

\* A startup probe's observation of a failed provider has no deadline.
Probed(health) == [health |-> health, until |-> None]
=============================================================================
