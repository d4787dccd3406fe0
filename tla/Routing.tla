-------------------------------- MODULE Routing --------------------------------
(***************************************************************************)
(* IntelligenceRouter.route (intelligence/router.py) on the state it       *)
(* finds: whom it rejects and why, and in what order it would try the      *)
(* others.  The Resource Pool is asked first, through the bridge           *)
(* (intelligence/resource_pool.py), and decides by ResourceRegistry's      *)
(* eligible() (resources/model.py); the router's own policy comes after,   *)
(* on a descriptor the bridge made of the pool's entry at startup.         *)
(*                                                                         *)
(* A gateway g is what it knows: g.pooled, whether there is a pool, and of *)
(* every provider g.entry, its pool entry or None, g.descriptor and        *)
(* g.circuit.  Shares are in hundredths.                                   *)
(***************************************************************************)
EXTENDS ResourceState

CONSTANTS
    Providers,    \* numbers, in the order of the providers' names
    Capabilities  \* the capability registry, by capability_id

Environments == {"personal", "development", "production", "commercial"}

\* Where a resource marked development_only may not be used.
Sold == {"production", "commercial"}

PrivacyRank == [standard |-> 0, no_training |-> 1, local_only |-> 2]

\* The access classes that spend nothing.
FreeAccess == {"recurring_free", "development_free", "account_dependent_free"}

\* A point of the score, which is kept in thousandths.
Point == 1000

Larger(a, b) == IF a >= b THEN a ELSE b
Smaller(a, b) == IF a <= b THEN a ELSE b

-----------------------------------------------------------------------------
(***************************************************************************)
(* The pool.  An entry's capabilities are the gateway's whose resource     *)
(* class it has, its usage the environments it allows, or "prototyping".   *)
(***************************************************************************)

RequireFree(policy) == policy.free_only \/ ~policy.paid_allowed

\* eligible() lists the entry.
Admits(e, r) ==
    /\ r.capability \in e.capabilities
    /\ RequireFree(r.policy) => e.free_tier
    /\ r.policy.environment \in e.usage
    /\ ~(e.development_only /\ r.policy.environment \in Sold)
    /\ Schedulable(e)
    /\ ~e.spent

\* What the bridge finds to say of an entry eligible() left out.
PoolFailures(e, r) ==
    [resource_usage_class      |-> r.policy.environment \notin e.usage,
     resource_development_only |-> e.development_only /\ r.policy.environment \in Sold,
     resource_health           |-> ~Schedulable(e),
     resource_quota_exhausted  |-> e.spent,
     resource_not_free         |-> RequireFree(r.policy) /\ ~e.free_tier]

\* A bug: that an entry is not free is no reason.
PoolReasonsButCost(e, r) ==
    IF e = None THEN {"resource_unregistered"}
    ELSE IF r.capability \notin e.capabilities THEN {"resource_capability_mismatch"}
    ELSE {f \in DOMAIN PoolFailures(e, r) \ {"resource_not_free"} :
            ~Admits(e, r) /\ PoolFailures(e, r)[f]}

\* rejection_reasons: eligible() decides, and the reasons are given for its no.
PoolReasons(e, r) ==
    IF e = None THEN {"resource_unregistered"}
    ELSE IF r.capability \notin e.capabilities THEN {"resource_capability_mismatch"}
    ELSE {f \in DOMAIN PoolFailures(e, r) :
            ~Admits(e, r) /\ PoolFailures(e, r)[f]}

\* A bug: what an entry is for is taken as it stands, development_only or not.
DescribedForAnyUse(e, b) ==
    [capabilities |-> b.capabilities \cap e.capabilities,
     environments |-> e.usage \cap Environments,
     commercial   |-> "commercial" \in e.usage,
     cost         |-> IF e.free_tier THEN "free" ELSE "unknown",
     access       |-> b.access,
     privacy      |-> "standard",
     context      |-> b.context,
     latency      |-> b.latency,
     error        |-> b.error,
     quality      |-> b.quality,
     priority     |-> 50]

\* provider_descriptor_from_resource: entry e bound to an endpoint by b.
Described(e, b) ==
    LET environments ==
          {x \in Environments :
             \/ x \in e.usage /\ ~(x \in Sold /\ e.development_only)
             \/ x = "development" /\ "prototyping" \in e.usage}
    IN  [capabilities |-> b.capabilities \cap e.capabilities,
         environments |-> environments,
         commercial   |-> "commercial" \in environments,
         cost         |-> IF e.free_tier THEN "free" ELSE "unknown",
         access       |-> b.access,
         privacy      |-> "standard",
         context      |-> b.context,
         latency      |-> b.latency,
         error        |-> b.error,
         quality      |-> b.quality,
         priority     |-> 50]

-----------------------------------------------------------------------------
(***************************************************************************)
(* The router.                                                             *)
(***************************************************************************)
SpendSafe(d) == d.cost = "free" \/ d.access \in FreeAccess

\* _rejection_reasons, of a descriptor d whose circuit is h.
PolicyFailures(d, h, r) ==
    LET policy == r.policy
        capability == Capabilities[r.capability]
        freeOnly == capability.free_only \/ policy.free_only
    IN  [health             |-> h.state \notin {"healthy", "degraded"},
         context_window     |-> d.context < Larger(r.context, capability.context),
         environment        |-> policy.environment \notin d.environments,
         commercial_policy  |-> /\ policy.environment = "commercial"
                                /\ ~(capability.commercial /\ d.commercial),
         privacy            |-> PrivacyRank[d.privacy] < PrivacyRank[policy.privacy],
         capability_privacy |-> PrivacyRank[d.privacy] < PrivacyRank[capability.privacy],
         free_only          |-> freeOnly /\ ~SpendSafe(d),
         spend_policy       |-> ~freeOnly /\ ~policy.paid_allowed /\ ~SpendSafe(d),
         quota_exhausted    |-> h.quota # None /\ h.quota <= 0,
         latency_limit      |-> /\ capability.latency # None
                                /\ d.latency # None
                                /\ d.latency > capability.latency]

\* Why provider p is not a candidate.
Reasons(g, p, r) ==
    LET d == g.descriptor[p]
        policy == PolicyFailures(d, g.circuit[p], r)
        pool == IF g.pooled THEN PoolReasons(g.entry[p], r) ELSE {}
    IN  IF r.capability \notin d.capabilities THEN {"capability_mismatch"}
        ELSE IF pool # {} THEN pool
        ELSE {f \in DOMAIN policy : policy[f]}

Candidates(g, r) == {p \in Providers : Reasons(g, p, r) = {}}

\* A bug: being free counts for no more than access that is.
FreeBonusAlike(d, r) ==
    IF r.policy.free_first /\ SpendSafe(d) THEN 500 * Point ELSE 0

FreeBonus(d, r) ==
    IF ~r.policy.free_first THEN 0
    ELSE IF d.cost = "free" THEN 800 * Point
    ELSE IF d.access \in FreeAccess THEN 500 * Point ELSE 0

\* The observed latency, unless there is none, and an average of zero is none.
LatencyPenalty(d, h) ==
    LET latency == IF h.latency \in {None, 0} THEN d.latency ELSE h.latency
    IN  IF latency = None THEN 0 ELSE Smaller(120 * Point, 2 * latency)

\* The pool's priority goes before the descriptor's.
PriorityBonus(g, p) ==
    LET priority == IF g.pooled THEN g.entry[p].priority ELSE g.descriptor[p].priority
    IN  Point * Larger(0, 100 - priority)

QuotaBonus(h) == IF h.quota = None THEN 0 ELSE Point * Smaller(50, Larger(0, h.quota))

Quality(d, r) == d.quality * (1200 + 12 * r.complexity)

Score(g, p, r) ==
    LET d == g.descriptor[p]
        h == g.circuit[p]
    IN  100 * Point + FreeBonus(d, r) + Quality(d, r) + 600 * h.success
          - LatencyPenalty(d, h) - Point * d.error + PriorityBonus(g, p) + QuotaBonus(h)

\* Candidate p is tried before candidate q.
Before(g, r, p, q) ==
    \/ Score(g, p, r) > Score(g, q, r)
    \/ Score(g, p, r) = Score(g, q, r) /\ p < q
=============================================================================
