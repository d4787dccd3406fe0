-------------------------- MODULE MCResourceLifecycle --------------------------
(***************************************************************************)
(* Instances of the resource lifecycle for TLC: a catalog resource r1, a   *)
(* resource r2 two candidates propose, one of which claims it is healthy,  *)
(* and two threads, which are alike.  The catalog resource is refused its  *)
(* provider for a while, twice at most, at the same time or one after the  *)
(* other; the proposed one is found healthy, once.                         *)
(***************************************************************************)
EXTENDS ResourceLifecycle, TLC

CONSTANTS c1, c2, r1, r2, t1, t2

BothProposeR2 == [c \in Candidates |-> r2]
SecondClaimsHealthy == [c \in Candidates |-> IF c = c2 THEN "HEALTHY" ELSE "UNKNOWN"]

Healthy == [health |-> "HEALTHY", until |-> None]
Refused == [health |-> "RATE_LIMITED", until |-> 1]

R1Refused == [r \in Resources |-> IF r = r1 THEN {Refused} ELSE {Healthy}]

TwoOfR1 == [r \in Resources |-> IF r = r1 THEN 2 ELSE 1]

AnyThread == Permutations(Threads)
=============================================================================
