--------------------------- MODULE GatewayProperties ---------------------------
(***************************************************************************)
(* What the Gateway promises its callers and the Resource Pool.            *)
(***************************************************************************)
EXTENDS Gateway

(***************************************************************************)
(* The circuit, whatever the threads do.  A provider closed for a rate     *)
(* limit or a cooldown has a deadline, so health() can end it (registry.py *)
(* 217-226 ends nothing without one); a healthy one has neither failures   *)
(* in a row nor a deadline pending; a degraded one has failed last.        *)
(***************************************************************************)
Consistent(h) ==
    /\ h.state \in {"rate_limited", "cooldown"} => h.until # None
    /\ h.state = "healthy" => h.failures = 0 /\ h.until = None
    /\ h.state = "degraded" => h.failures > 0

CircuitConsistent == \A p \in Providers : Consistent(health[p])

(***************************************************************************)
(* The attempts a caller is shown.  No provider is tried twice, nothing is *)
(* tried after an answer or a failure that is not retryable, and a request *)
(* that ended with "ok" is exactly one whose last attempt succeeded.       *)
(***************************************************************************)
AttemptsHonest ==
    \A t \in Threads :
      LET a == req[t].attempts
      IN  /\ \A i, j \in 1 .. Len(a) : i # j => a[i].provider # a[j].provider
          /\ \A i \in 1 .. Len(a) :
               a[i].outcome \in {"success", "invalid_request"}
                 => i = Len(a) /\ At(t, "idle")
          /\ req[t].result = "ok"
               <=> a # <<>> /\ a[Len(a)].outcome = "success"

\* A usage event as it should be for an adapter call that ended with `outcome`.
Bill(c) == [provider |-> c.provider,
            status |-> IF c.outcome = "success" THEN "succeeded" ELSE "failed"]

(***************************************************************************)
(* "Zero-euro execution still records consumption": once a request is over *)
(* the ledger holds one event for each adapter call it made, in order and  *)
(* with the outcome the provider gave.                                     *)
(***************************************************************************)
EveryCallBilled ==
    \A t \in Threads :
      At(t, "idle") =>
        req[t].events = [i \in 1 .. Len(req[t].calls) |-> Bill(req[t].calls[i])]

(***************************************************************************)
(* complete(), with all that its threads share, implements RequestContract *)
(* for each of them.                                                       *)
(***************************************************************************)
ContractView ==
    [t \in Threads |-> [phase |-> IF At(t, "idle") THEN "over" ELSE "running",
                        calls |-> req[t].calls, billed |-> req[t].events,
                        result |-> req[t].result]]

Contract == INSTANCE RequestContract
                WITH request <- ContractView, Unbillable <- TRUE \in BlankTask

ImplementsContract == Contract!Spec

(***************************************************************************)
(* A provider that refused a request for its rate limit is not called      *)
(* again before the cooldown of that refusal is over.                      *)
(***************************************************************************)
Starts(t) == ~At(t, "calling") /\ req'[t].at = "calling"

RateLimitHonoured ==
    [][\A t \in Threads :
         Starts(t) => refusal[req'[t].provider].left = 0]_vars

(***************************************************************************)
(* The same for concurrent requests, as far as the code goes: every thread *)
(* honours a refusal that came while no other call to the provider was     *)
(* under way.                                                              *)
(***************************************************************************)
LoneRefusalHonoured ==
    [][\A t \in Threads :
         Starts(t) => \/ refusal[req'[t].provider].left = 0
                      \/ ~refusal[req'[t].provider].alone]_vars

(***************************************************************************)
(* Why they can: while such a refusal runs, the circuit is closed for the  *)
(* rest of exactly its cooldown, and no thread has a call under way whose  *)
(* outcome could still open it.                                            *)
(***************************************************************************)
RefusalHeld(p) ==
    refusal[p].left > 0 /\ refusal[p].alone =>
      /\ health[p].state = "rate_limited"
      /\ health[p].until = refusal[p].left
      /\ \A t \in Threads : ~Using(t, p)

RefusalsHeld == \A p \in Providers : RefusalHeld(p)

(***************************************************************************)
(* "EXHAUSTED --time alone--> EXHAUSTED": no step of a request, of a       *)
(* status read or of time reopens an exhausted resource.  (Fresh quota     *)
(* evidence reaches the pool through a probe, which these steps are not.)  *)
(***************************************************************************)
ExhaustedNeedsEvidence ==
    [][\A p \in Providers :
         pool[p].health = "EXHAUSTED" => pool'[p].health = "EXHAUSTED"]_vars

(***************************************************************************)
(* "Transient provider states carry an explicit cooldown_until": without   *)
(* one a RATE_LIMITED or DOWN resource is never selected again.            *)
(***************************************************************************)
TransientHasDeadline ==
    \A p \in Providers :
      pool[p].health \in TransientHealth => pool[p].until # None

(***************************************************************************)
(* No step closes a resource for a while without saying for how long.  (A  *)
(* startup probe may have: what it left may stay.)                         *)
(***************************************************************************)
TransientsComeWithDeadlines ==
    [][\A p \in Providers :
         pool'[p].health \in TransientHealth /\ pool'[p].until = None
           => pool'[p] = pool[p]]_vars

AllIdle == \A t \in Threads : At(t, "idle")

(***************************************************************************)
(* "The remaining cooldown is projected into the canonical Resource Pool   *)
(* instead of starting a second independent timer": between requests a     *)
(* resource and a circuit that are both in a cooldown reopen together.     *)
(***************************************************************************)
ProjectedDeadline ==
    AllIdle =>
      \A p \in Providers :
        pool[p].health \in TransientHealth
            /\ health[p].state \in {"rate_limited", "cooldown"}
          => pool[p].until = health[p].until

\* Every request ends: with an answer, as unavailable, or with an error.
RequestsFinish == \A t \in Threads : ~At(t, "idle") ~> At(t, "idle")

\* While clients keep asking, no circuit stays closed for a rate limit or a
\* cooldown, and no resource stays RATE_LIMITED or DOWN.
CircuitReopens ==
    \A p \in Providers :
      health[p].state \in {"rate_limited", "cooldown"}
        ~> health[p].state \notin {"rate_limited", "cooldown"}

PoolReopens ==
    \A p \in Providers :
      pool[p].health \in TransientHealth ~> pool[p].health \notin TransientHealth
=============================================================================
