---------------------------- MODULE MCSharedCircuit ----------------------------
(***************************************************************************)
(* Instances of the shared circuit for TLC: two threads; a provider with   *)
(* no limit, closed, or with one call a window, and one without quota.     *)
(***************************************************************************)
EXTENDS CircuitRefinement, TLC

CONSTANTS t1, t2

Registered == [limit : {None, 0, 1}, quota : {None}]
                \cup {[limit |-> None, quota |-> 0]}

\* A refusal with and without a hint, an outage, and what the breaker counts.
Failures ==
    {[kind |-> "rate_limit", retry |-> 1], [kind |-> "rate_limit", retry |-> None],
     [kind |-> "network", retry |-> None], [kind |-> "provider_error", retry |-> None]}

\* The threads differ in nothing.
ThreadSymmetry == Permutations({t1, t2})
=============================================================================
