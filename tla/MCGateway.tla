------------------------------- MODULE MCGateway -------------------------------
(***************************************************************************)
(* Instances of the Gateway for TLC: providers p1 and p2, threads t1 and   *)
(* t2, and cooldowns of one to three units in the order of the code's.     *)
(***************************************************************************)
EXTENDS GatewayProperties, OpenAICompatible

CONSTANTS p1, p2, t1, t2

\* No limit, one call a window, no call at all.
NoLimit == [p \in Providers |-> None]
OneAWindow == [p \in Providers |-> 1]
OneAndNone == [p \in Providers |-> IF p = p1 THEN 1 ELSE None]
ClosedAndOne == [p \in Providers |-> IF p = p1 THEN 0 ELSE 1]

NoQuota == [p \in Providers |-> None]
NoneAndOne == [p \in Providers |-> IF p = p1 THEN None ELSE 1]

AnyRoute == {Providers}
EveryRoute == SUBSET Providers

\* Replies of every class: with no Retry-After, one that is too late and one that is
\* not, and with no choices, no text or a text.
Replies ==
    [status : {200, 302, 400, 401, 402, 408, 429, 503}, spent : BOOLEAN,
     after : {None, -1, 1}, body : {"none", "choices", "text"}]

\* All that the adapter may raise.
AllFailures == Failures(Replies)

\* All that a startup probe may find.
AllFindings == ProbeFindings(Replies)

SomeFailures ==
    {Failure("rate_limit", None), Failure("quota", 1), Failure("network", None),
     Failure("provider_error", None), Failure("invalid_request", None)}

\* The failures the pool closes a resource for.
CapacityFailures ==
    {Failure("rate_limit", None), Failure("quota", None), Failure("network", None)}

\* Failures that close a circuit in each of its ways: a limit, an outage, the breaker.
CircuitFailures ==
    {Failure("rate_limit", None), Failure("network", None), Failure("provider_error", None)}

NoObservations == {}
SomeObservations == {[remaining |-> 0, reset |-> 1], [remaining |-> 1, reset |-> None]}
=============================================================================
