----------------------------- MODULE MCSharedPool -----------------------------
(***************************************************************************)
(* Instances of the shared pool entry for TLC: two threads, one metric; a  *)
(* resource that starts unknown, as the catalog's do, or healthy.          *)
(***************************************************************************)
EXTENDS SharedPool, TLC

CONSTANTS t1, t2

Observation(health, cooldown, quota) ==
    [health |-> health, cooldown |-> cooldown, quota |-> quota]

NoQuota == [m \in {} |-> None]

\* What the bridge reports of a success, of a refusal with and without a hint and of
\* a spent quota; what a probe may add to them: the quota seen, one that is spent,
\* and one of a metric the resource does not have.
Reports ==
    {Observation("HEALTHY", None, NoQuota),
     Observation("RATE_LIMITED", 1, NoQuota),
     Observation("DOWN", None, NoQuota),
     Observation("HEALTHY", None, [m \in {"calls"} |-> 1]),
     Observation("EXHAUSTED", None, [m \in {"calls"} |-> 0]),
     Observation("HEALTHY", None, [m \in {"other"} |-> 1])}

\* The threads differ in nothing.
ThreadSymmetry == Permutations({t1, t2})
=============================================================================
