--------------------------- MODULE OpenAICompatible ---------------------------
(***************************************************************************)
(* The adapter of intelligence/openai_compatible.py: what the gateway gets *)
(* to see of a provider's reply, and what a startup probe makes of it.     *)
(***************************************************************************)
EXTENDS ProviderRegistry, ResourceState

\* A provider's reply: its HTTP status, whether its error text speaks of quota,
\* credit or balance, its Retry-After in seconds, and whether it has no choices,
\* choices without a text, or a text.
Reply == [status : Nat, spent : BOOLEAN, after : Optional(Int),
          body : {"none", "choices", "text"}]

Failure(kind, retry) == [kind |-> kind, retry |-> retry]

\* A negative Retry-After is taken as zero.
RetryAfter(r) == IF r.after # None /\ r.after < 0 THEN 0 ELSE r.after

Answered(r) == r.status \in 200 .. 299

\* _provider_error_for.  Of these only invalid_request is not retryable.
ErrorFor(r) ==
    CASE r.status \in {401, 403} -> Failure("authentication", None)
      [] r.status = 408 -> Failure("timeout", RetryAfter(r))
      [] r.status = 429 -> Failure(IF r.spent THEN "quota" ELSE "rate_limit",
                                   RetryAfter(r))
      [] r.status = 402 -> Failure("quota", RetryAfter(r))
      [] r.status >= 500 -> Failure("provider_unavailable", RetryAfter(r))
      [] r.status \in (400 .. 499) \ {401, 402, 403, 408, 429} ->
             Failure("invalid_request", None)
      [] OTHER -> Failure("provider_error", None)

\* The failures without a reply: no credential, and the transport's two.
Unanswered == {Failure("authentication", None), Failure("timeout", None),
               Failure("network", None)}

\* What complete() may raise when the provider's replies are those given.
Failures(replies) ==
    Unanswered
      \cup {ErrorFor(r) : r \in {s \in replies : ~Answered(s)}}
      \cup {Failure("provider_error", None) :
                r \in {s \in replies : Answered(s) /\ s.body # "text"}}

\* The health a failed startup probe leaves the resource in.
ProbedHealth(kind) ==
    CASE kind = "rate_limit" -> "RATE_LIMITED"
      [] kind = "quota" -> "EXHAUSTED"
      [] kind \in {"authentication", "network", "provider_unavailable"} -> "DOWN"
      [] OTHER -> "DEGRADED"

\* A probe is content with choices, whether or not they hold a text.
Convincing(r) == Answered(r) /\ r.body # "none"

\* The health a startup probe may find.
ProbeFindings(replies) ==
    {ProbedHealth(f.kind) : f \in Failures({r \in replies : ~Convincing(r)})}
      \cup {"HEALTHY" : r \in {s \in replies : Convincing(s)}}
=============================================================================
