----------------------------- MODULE GatewayProofs -----------------------------
(***************************************************************************)
(* Theorems about the Gateway, for every set of threads and providers and  *)
(* every value of the cooldowns.                                           *)
(***************************************************************************)
EXTENDS GatewayProperties, TLAPS, OpenAICompatible

-----------------------------------------------------------------------------
(***************************************************************************)
(* Each operation on a health record yields a health record and keeps it   *)
(* consistent.                                                             *)
(***************************************************************************)
LEMMA NewHealthOK ==
    ASSUME NEW q \in Optional(Nat)
    PROVE  NewHealth("healthy", q) \in Health /\ Consistent(NewHealth("healthy", q))
BY CooldownAssumption, NoneAssumption
   DEF NewHealth, Health, HealthStates, Optional, Consistent

LEMMA ElapseOK ==
    ASSUME NEW h \in Health, Consistent(h)
    PROVE  Elapse(h) \in Health /\ Consistent(Elapse(h))
<1> DEFINE u == IF h.until \in {None, 0} THEN h.until ELSE h.until - 1
           a == IF h.age \in {None, RateWindow} THEN h.age ELSE h.age + 1
<1>1. u \in Optional(Nat) /\ (u = None <=> h.until = None)
  BY NoneAssumption DEF Health, Optional
<1>2. a \in Optional(0 .. RateWindow)
  BY CooldownAssumption DEF Health, Optional
<1>3. Elapse(h) = [h EXCEPT !.until = u, !.age = a]
  BY DEF Elapse, Health
<1> QED
  BY <1>1, <1>2, <1>3 DEF Health, Consistent

LEMMA RefreshedOK ==
    ASSUME NEW h \in Health, Consistent(h)
    PROVE  Refreshed(h) \in Health /\ Consistent(Refreshed(h))
<1> DEFINE s == IF h.state \in CoolingStates THEN Recovered(h) ELSE h.state
<1>1. CASE h.until = 0
  <2>1. s \in HealthStates /\ s \notin {"rate_limited", "cooldown"}
    BY DEF Recovered, CoolingStates, Health, HealthStates
  <2>2. /\ s = "healthy" => h.failures = 0
        /\ s = "degraded" => h.failures > 0
    BY <1>1, CooldownAssumption DEF Recovered, CoolingStates, Health, Consistent
  <2>3. Refreshed(h) = [h EXCEPT !.state = s, !.until = None]
    BY <1>1 DEF Refreshed, Health
  <2> QED
    BY <2>1, <2>2, <2>3 DEF Health, Consistent, Optional
<1>2. CASE h.until # 0
  BY <1>2 DEF Refreshed
<1> QED
  BY <1>1, <1>2

LEMMA RefusedOK ==
    ASSUME NEW h \in Health, Consistent(h)
    PROVE  /\ QuotaRefused(h) \in Health /\ Consistent(QuotaRefused(h))
           /\ LimitRefused(h) \in Health /\ Consistent(LimitRefused(h))
<1>1. QuotaRefused(h) = [h EXCEPT !.state = "quota_exhausted", !.until = h.until]
  BY DEF QuotaRefused, Health
<1>2. LimitRefused(h) = [h EXCEPT !.state = "rate_limited", !.until = RateWindow]
  BY DEF LimitRefused
<1>3. RateWindow \in Optional(Nat) /\ RateWindow # None /\ h.until \in Optional(Nat)
  BY CooldownAssumption, NoneAssumption DEF Health, Optional
<1>4. {"quota_exhausted", "rate_limited"} \subseteq HealthStates
  BY DEF HealthStates
<1> QED
  BY <1>1, <1>2, <1>3, <1>4 DEF Health, Consistent

LEMMA WindowOK ==
    ASSUME NEW h \in Health, Consistent(h)
    PROVE  /\ WindowRefused(h) \in Health /\ Consistent(WindowRefused(h))
           /\ WindowTaken(h) \in Health /\ Consistent(WindowTaken(h))
<1> DEFINE w == CurrentWindow(h)
<1>1. w \in Health /\ Consistent(w) /\ w.age \in 0 .. RateWindow
  <2>1. CASE h.age \in {None, RateWindow}
    <3>1. w = [h EXCEPT !.age = 0, !.used = 0]
      BY <2>1 DEF CurrentWindow
    <3>2. 0 \in 0 .. RateWindow /\ 0 \in Optional(0 .. RateWindow)
      BY CooldownAssumption DEF Optional
    <3> HIDE DEF w
    <3> QED
      BY <3>1, <3>2 DEF Health, Consistent
  <2>2. CASE h.age \notin {None, RateWindow}
    BY <2>2 DEF CurrentWindow, Health, Optional
  <2> QED
    BY <2>1, <2>2
<1>2. RateWindow - w.age \in Nat
  BY <1>1, CooldownAssumption
<1> HIDE DEF w
<1>3. /\ [w EXCEPT !.state = "rate_limited", !.until = RateWindow - w.age] \in Health
      /\ Consistent([w EXCEPT !.state = "rate_limited", !.until = RateWindow - w.age])
  <2>1. RateWindow - w.age \in Optional(Nat) /\ RateWindow - w.age # None
    BY <1>2, NoneAssumption DEF Optional
  <2>2. "rate_limited" \in HealthStates
    BY DEF HealthStates
  <2> QED
    BY <1>1, <2>1, <2>2 DEF Health, Consistent
<1>4. [w EXCEPT !.used = @ + 1] \in Health /\ Consistent([w EXCEPT !.used = @ + 1])
  BY <1>1 DEF Health, Consistent
<1> QED
  BY <1>3, <1>4 DEF WindowRefused, WindowTaken, w

LEMMA AfterSuccessOK ==
    ASSUME NEW h \in Health, Consistent(h)
    PROVE  AfterSuccess(h) \in Health /\ Consistent(AfterSuccess(h))
<1>1. Refreshed(h) \in Health
  BY RefreshedOK
<1>2. /\ "healthy" \in HealthStates
      /\ None \in Optional(Nat)
      /\ 0 \in 0 .. CircuitBreakerFailures
  BY CooldownAssumption DEF HealthStates, Optional
<1> HIDE DEF Refreshed
<1> QED
  BY <1>1, <1>2 DEF AfterSuccess, Health, Consistent

LEMMA FailedCooldownOK ==
    ASSUME NEW kind \in FailureKinds, NEW n \in Nat, NEW retry \in Optional(Nat)
    PROVE  /\ FailedCooldown(kind, n, retry) \in Optional(Nat)
           /\ FailedState(kind, n) \in {"rate_limited", "cooldown"}
                => FailedCooldown(kind, n, retry) # None
           /\ FailedState(kind, n) \in HealthStates \ {"healthy"}
BY CooldownAssumption, NoneAssumption
   DEF FailedCooldown, FailedState, Transient, FailureKinds, HealthStates,
       OrDefault, Optional

LEMMA AfterFailureOK ==
    ASSUME NEW h \in Health, Consistent(h),
           NEW kind \in FailureKinds, NEW retry \in Optional(Nat)
    PROVE  AfterFailure(h, kind, retry) \in Health
           /\ Consistent(AfterFailure(h, kind, retry))
<1> DEFINE r == Refreshed(h)
           n == IF r.failures < CircuitBreakerFailures THEN r.failures + 1
                                                       ELSE r.failures
           c == FailedCooldown(kind, n, retry)
           s == FailedState(kind, n)
<1>1. r \in Health /\ Consistent(r)
  BY RefreshedOK
<1>2. n \in 0 .. CircuitBreakerFailures /\ n > 0
  BY <1>1, CooldownAssumption DEF Health
<1>3. /\ c \in Optional(Nat)
      /\ s \in {"rate_limited", "cooldown"} => c # None
      /\ s \in HealthStates \ {"healthy"}
  BY <1>2, FailedCooldownOK, CooldownAssumption
<1> HIDE DEF r, n, c, s
<1>4. AfterFailure(h, kind, retry)
        = [r EXCEPT !.failures = n, !.state = s,
                    !.until = IF c = None THEN @ ELSE c]
  BY DEF AfterFailure, r, n, c, s
<1>5. AfterFailure(h, kind, retry) \in Health
  BY <1>1, <1>2, <1>3, <1>4 DEF Health
<1>6. Consistent(AfterFailure(h, kind, retry))
  BY <1>1, <1>2, <1>3, <1>4 DEF Health, Consistent
<1> QED
  BY <1>5, <1>6

LEMMA AfterQuotaOK ==
    ASSUME NEW h \in Health, Consistent(h),
           NEW remaining \in Optional(Nat), NEW reset \in Optional(Nat)
    PROVE  AfterQuota(h, remaining, reset) \in Health
           /\ Consistent(AfterQuota(h, remaining, reset))
<1> DEFINE q == [Refreshed(h) EXCEPT !.quota = remaining]
<1>1. q \in Health /\ Consistent(q)
  BY RefreshedOK DEF Health, Consistent
<1> HIDE DEF q
<1>2. CASE QuotaSpent(q)
  <2>1. AfterQuota(h, remaining, reset)
          = [q EXCEPT !.state = "quota_exhausted",
                      !.until = IF reset = None THEN @ ELSE reset]
    BY <1>2 DEF AfterQuota, q
  <2>2. /\ "quota_exhausted" \in HealthStates
        /\ (IF reset = None THEN q.until ELSE reset) \in Optional(Nat)
    BY <1>1 DEF HealthStates, Health
  <2> QED
    BY <1>1, <2>1, <2>2 DEF Health, Consistent
<1>3. CASE ~QuotaSpent(q)
  <2>1. AfterQuota(h, remaining, reset)
          = IF q.state = "quota_exhausted"
            THEN [q EXCEPT !.until = None, !.state = Recovered(q)] ELSE q
    BY <1>3 DEF AfterQuota, q
  <2>2. /\ Recovered(q) \in HealthStates \ {"rate_limited", "cooldown"}
        /\ Recovered(q) = "healthy" => q.failures = 0
        /\ Recovered(q) = "degraded" => q.failures > 0
        /\ None \in Optional(Nat)
    BY <1>1, CooldownAssumption DEF Recovered, Health, HealthStates, Optional
  <2> QED
    BY <1>1, <2>1, <2>2 DEF Health, Consistent
<1> QED
  BY <1>2, <1>3

-----------------------------------------------------------------------------
(***************************************************************************)
(* The same for the pool's entries.                                        *)
(***************************************************************************)
LEMMA ResourceOK ==
    ASSUME NEW r \in Resource
    PROVE  /\ ElapseResource(r) \in Resource
           /\ Reopened(r) \in Resource
           /\ AppliedSuccess(r) \in Resource
<1>1. (IF r.until \in {None, 0} THEN r.until ELSE r.until - 1) \in Optional(Nat)
  BY DEF Resource, Optional
<1>2. None \in Optional(Nat) /\ {"DEGRADED", "HEALTHY"} \subseteq ResourceHealth
  BY DEF Optional, ResourceHealth
<1> QED
  BY <1>1, <1>2 DEF ElapseResource, Reopened, AppliedSuccess, Resource

LEMMA AppliedFailureOK ==
    ASSUME NEW r \in Resource, NEW kind \in FailureKinds, NEW retry \in Optional(Nat)
    PROVE  AppliedFailure(r, kind, retry) \in Resource
<1>1. CASE kind = "invalid_request"
  BY <1>1, ResourceOK DEF AppliedFailure
<1>2. CASE kind # "invalid_request"
  <2>1. ReportedHealth(kind) \in ResourceHealth
    BY <1>2 DEF ReportedHealth, FailureKinds, ResourceHealth
  <2> QED
    BY <1>2, <2>1 DEF AppliedFailure, Resource
<1> QED
  BY <1>1, <1>2

-----------------------------------------------------------------------------
(***************************************************************************)
(* What a thread's frame holds at each place, beyond its type: the         *)
(* candidate it works on, and the failure it is about to report.           *)
(***************************************************************************)
FrameOK(r) ==
    /\ r.at \notin {"idle", "pick"} => r.provider \in Providers
    /\ r.at \in {"record", "usage"} => r.status \in {"succeeded", "failed"}
    /\ r.at = "refused" => r.status = "skipped"
    /\ r.at = "project" => r.status \in {"failed", "skipped"}
    /\ r.at = "report" => r.status # "none"
    /\ r.at \in {"record", "project", "report", "usage"} /\ r.status # "succeeded"
         => r.kind \in FailureKinds

TypeInv ==
    /\ TypeOK
    /\ CircuitConsistent
    /\ \A t \in Threads : FrameOK(req[t])

\* One thread moves, the others keep their frames.
LEMMA FrameStep ==
    ASSUME TypeInv, NEW t \in Threads, NEW r \in Request, FrameOK(r),
           req' = [req EXCEPT ![t] = r]
    PROVE  req' \in [Threads -> Request] /\ \A u \in Threads : FrameOK(req'[u])
BY DEF TypeInv, TypeOK

\* One provider's circuit changes.
LEMMA CircuitStep ==
    ASSUME TypeInv, NEW p \in Providers, NEW h \in Health, Consistent(h),
           health' = [health EXCEPT ![p] = h]
    PROVE  health' \in [Providers -> Health] /\ CircuitConsistent'
BY DEF TypeInv, TypeOK, CircuitConsistent

LEMMA InitTypeInv == Init => TypeInv
<1> SUFFICES ASSUME Init PROVE TypeInv
  OBVIOUS
<1>1. health \in [Providers -> Health] /\ CircuitConsistent
  BY NewHealthOK, GatewayAssumption DEF Init, CircuitConsistent
<1>2. pool \in [Providers -> Resource]
  BY GatewayAssumption DEF Init, Probed, Resource, Optional
<1>3. NewRequest \in Request /\ FrameOK(NewRequest)
  BY DEF NewRequest, Request, FrameOK, Places, Statuses, Results, Optional
<1>4. refusal \in [Providers -> [left : Nat, alone : BOOLEAN]]
  BY DEF Init
<1> QED
  BY <1>1, <1>2, <1>3, <1>4 DEF Init, TypeInv, TypeOK

-----------------------------------------------------------------------------
(***************************************************************************)
(* The steps that choose a candidate.                                      *)
(***************************************************************************)
LEMMA RouteTyped ==
    ASSUME TypeInv, NEW t \in Threads, Route(t)
    PROVE  TypeInv'
<1>1. PICK admitted \in Routes, blank \in BlankTask :
        LET fresh == [p \in Providers |-> Reopened(pool[p])]
            allowed == {p \in admitted : ~PoolRejects(fresh[p])}
            circuit == [p \in Providers |-> IF p \in allowed
                                            THEN Refreshed(health[p])
                                            ELSE health[p]]
            candidates == {p \in allowed : Routable(circuit[p])}
        IN  /\ pool' = IF admitted = {} THEN pool ELSE fresh
            /\ health' = circuit
            /\ req' = [req EXCEPT ![t] =
                         [NewRequest EXCEPT
                            !.blank = blank,
                            !.todo = candidates,
                            !.at = IF candidates = {} THEN "idle" ELSE "pick",
                            !.result = IF candidates = {} THEN "unavailable"
                                                          ELSE "none"]]
  BY DEF Route
<1> DEFINE fresh == [p \in Providers |-> Reopened(pool[p])]
           allowed == {p \in admitted : ~PoolRejects(fresh[p])}
           circuit == [p \in Providers |-> IF p \in allowed
                                           THEN Refreshed(health[p])
                                           ELSE health[p]]
           candidates == {p \in allowed : Routable(circuit[p])}
           r == [NewRequest EXCEPT
                   !.blank = blank,
                   !.todo = candidates,
                   !.at = IF candidates = {} THEN "idle" ELSE "pick",
                   !.result = IF candidates = {} THEN "unavailable" ELSE "none"]
<1>2. pool' \in [Providers -> Resource]
  BY <1>1, ResourceOK DEF TypeInv, TypeOK
<1>3. health' \in [Providers -> Health] /\ CircuitConsistent'
  BY <1>1, RefreshedOK DEF TypeInv, TypeOK, CircuitConsistent
<1>4. candidates \in SUBSET Providers /\ blank \in BOOLEAN
  BY GatewayAssumption
<1>5. req' = [req EXCEPT ![t] = r]
  BY <1>1
<1> HIDE DEF candidates
<1>6. r \in Request /\ FrameOK(r)
  <2>1. NewRequest \in Request
    BY DEF NewRequest, Request, Places, Statuses, Results, Optional
  <2>2. r.at \in {"idle", "pick"} /\ r.result \in {"none", "unavailable"}
    BY DEF NewRequest
  <2>3. {"idle", "pick"} \subseteq Places /\ {"none", "unavailable"} \subseteq Results
    BY DEF Places, Results
  <2> QED
    BY <1>4, <2>1, <2>2, <2>3 DEF Request, FrameOK
<1> HIDE DEF r
<1>7. req' \in [Threads -> Request] /\ \A u \in Threads : FrameOK(req'[u])
  BY <1>5, <1>6, FrameStep
<1>8. UNCHANGED refusal
  BY DEF Route
<1> QED
  BY <1>2, <1>3, <1>7, <1>8 DEF TypeInv, TypeOK

LEMMA LoopTyped ==
    ASSUME TypeInv, NEW t \in Threads, GiveUp(t) \/ SkipCandidate(t)
    PROVE  TypeInv'
<1>1. req[t] \in Request /\ FrameOK(req[t])
  BY DEF TypeInv, TypeOK
<1>2. UNCHANGED <<health, pool, refusal>>
  BY DEF GiveUp, SkipCandidate
<1>3. CASE GiveUp(t)
  <2> DEFINE r == [req[t] EXCEPT !.at = "idle", !.result = "unavailable"]
  <2>1. req' = [req EXCEPT ![t] = r]
    BY <1>3 DEF GiveUp
  <2>2. r \in Request /\ FrameOK(r)
    BY <1>1 DEF Request, FrameOK, Places, Results
  <2> HIDE DEF r
  <2> QED
    BY <1>2, <2>1, <2>2, FrameStep DEF TypeInv, TypeOK, CircuitConsistent
<1>4. CASE SkipCandidate(t)
  <2>1. PICK p \in req[t].todo : req' = [req EXCEPT ![t].todo = @ \ {p}]
    BY <1>4 DEF SkipCandidate
  <2> DEFINE r == [req[t] EXCEPT !.todo = @ \ {p}]
  <2>2. req' = [req EXCEPT ![t] = r]
    BY <2>1
  <2>3. r \in Request /\ FrameOK(r)
    BY <1>1 DEF Request, FrameOK
  <2> HIDE DEF r
  <2> QED
    BY <1>2, <2>2, <2>3, FrameStep DEF TypeInv, TypeOK, CircuitConsistent
<1> QED
  BY <1>3, <1>4

LEMMA TakeTyped ==
    ASSUME TypeInv, NEW t \in Threads, NEW p \in Providers,
           NEW place \in {"refused", "calling", "window"}, Take(t, p, place)
    PROVE  req' \in [Threads -> Request] /\ \A u \in Threads : FrameOK(req'[u])
<1> DEFINE r == [req[t] EXCEPT
                   !.todo = @ \ {p}, !.provider = p,
                   !.status = IF place = "refused" THEN "skipped" ELSE "none",
                   !.kind = None, !.retry = None, !.at = place]
<1>1. req' = [req EXCEPT ![t] = r]
  BY DEF Take
<1>2. req[t] \in Request
  BY DEF TypeInv, TypeOK
<1>3. r \in Request /\ FrameOK(r)
  BY <1>2 DEF Request, FrameOK, Places, Statuses, Optional
<1> HIDE DEF r
<1> QED
  BY <1>1, <1>3, FrameStep

LEMMA ReserveTyped ==
    ASSUME TypeInv, NEW t \in Threads, Reserve(t)
    PROVE  TypeInv'
<1>1. PICK p \in req[t].todo \cap Adapters :
        \E h \in {Refreshed(health[p]), QuotaRefused(Refreshed(health[p])),
                  LimitRefused(Refreshed(health[p]))},
           place \in {"refused", "calling", "window"} :
          health' = [health EXCEPT ![p] = h] /\ Take(t, p, place)
  BY DEF Reserve
<1>2. p \in Providers
  BY GatewayAssumption
<1>3. PICK h \in {Refreshed(health[p]), QuotaRefused(Refreshed(health[p])),
                  LimitRefused(Refreshed(health[p]))},
           place \in {"refused", "calling", "window"} :
        health' = [health EXCEPT ![p] = h] /\ Take(t, p, place)
  BY <1>1
<1>4. health[p] \in Health /\ Consistent(health[p])
  BY <1>2 DEF TypeInv, TypeOK, CircuitConsistent
<1>5. h \in Health /\ Consistent(h)
  BY <1>4, RefreshedOK, RefusedOK
<1>6. health' \in [Providers -> Health] /\ CircuitConsistent'
  BY <1>2, <1>3, <1>5, CircuitStep
<1>7. req' \in [Threads -> Request] /\ \A u \in Threads : FrameOK(req'[u])
  BY <1>2, <1>3, TakeTyped
<1>8. UNCHANGED <<pool, refusal>>
  BY DEF Reserve
<1> QED
  BY <1>6, <1>7, <1>8 DEF TypeInv, TypeOK

LEMMA WindowTyped ==
    ASSUME TypeInv, NEW t \in Threads, ReserveInWindow(t)
    PROVE  TypeInv'
<1> DEFINE p == req[t].provider
<1>1. req[t] \in Request /\ FrameOK(req[t]) /\ p \in Providers
  BY DEF TypeInv, TypeOK, FrameOK, ReserveInWindow, At
<1>2. health[p] \in Health /\ Consistent(health[p])
  BY <1>1 DEF TypeInv, TypeOK, CircuitConsistent
<1>3. PICK h \in {WindowRefused(health[p]), WindowTaken(health[p])} :
        health' = [health EXCEPT ![p] = h]
  BY DEF ReserveInWindow
<1>4. health' \in [Providers -> Health] /\ CircuitConsistent'
  BY <1>1, <1>2, <1>3, WindowOK, CircuitStep
<1>5. PICK r \in {[req[t] EXCEPT !.at = "refused", !.status = "skipped"],
                  [req[t] EXCEPT !.at = "calling"]} :
        req' = [req EXCEPT ![t] = r]
  BY DEF ReserveInWindow
<1>6. r \in Request /\ FrameOK(r)
  BY <1>1 DEF Request, FrameOK, Places, Statuses
<1>7. req' \in [Threads -> Request] /\ \A u \in Threads : FrameOK(req'[u])
  BY <1>5, <1>6, FrameStep
<1>8. UNCHANGED <<pool, refusal>>
  BY DEF ReserveInWindow
<1> QED
  BY <1>4, <1>7, <1>8 DEF TypeInv, TypeOK

-----------------------------------------------------------------------------
(***************************************************************************)
(* The steps from a refusal or an answer to the pool and the ledger.       *)
(***************************************************************************)
LEMMA ClassifyTyped ==
    ASSUME TypeInv, NEW t \in Threads, ClassifyRefusal(t) \/ ReadCooldown(t)
    PROVE  TypeInv'
<1> DEFINE p == req[t].provider
           h == Refreshed(health[p])
<1>1. req[t] \in Request /\ FrameOK(req[t])
  BY DEF TypeInv, TypeOK
<1>2. p \in Providers
  BY <1>1 DEF FrameOK, ClassifyRefusal, ReadCooldown, At
<1>3. h \in Health /\ Consistent(h)
  BY <1>2, RefreshedOK DEF TypeInv, TypeOK, CircuitConsistent
<1>4. health' = [health EXCEPT ![p] = h] /\ UNCHANGED <<pool, refusal>>
  BY DEF ClassifyRefusal, ReadCooldown
<1>5. PICK r : req' = [req EXCEPT ![t] = r] /\ r \in Request /\ FrameOK(r)
  <2>1. CASE ClassifyRefusal(t)
    <3> DEFINE k == IF h.state = "quota_exhausted" THEN "quota" ELSE "rate_limit"
               r == [req[t] EXCEPT !.kind = k, !.at = "project"]
    <3>1. req' = [req EXCEPT ![t] = r]
      BY <2>1 DEF ClassifyRefusal
    <3>2. k \in FailureKinds
      BY DEF FailureKinds
    <3>3. r \in Request /\ FrameOK(r)
      BY <1>1, <1>2, <2>1, <3>2
         DEF Request, FrameOK, Places, Optional, ClassifyRefusal, At
    <3> QED
      BY <3>1, <3>3
  <2>2. CASE ReadCooldown(t)
    <3> DEFINE r == [req[t] EXCEPT !.retry = h.until, !.at = "report"]
    <3>1. req' = [req EXCEPT ![t] = r]
      BY <2>2 DEF ReadCooldown
    <3>2. h.until \in Optional(Nat)
      BY <1>3 DEF Health
    <3>3. r \in Request /\ FrameOK(r)
      BY <1>1, <1>2, <2>2, <3>2 DEF Request, FrameOK, Places, ReadCooldown, At
    <3> QED
      BY <3>1, <3>3
  <2> QED
    BY <2>1, <2>2
<1>6. req' \in [Threads -> Request] /\ \A u \in Threads : FrameOK(req'[u])
  BY <1>5, FrameStep
<1>7. health' \in [Providers -> Health] /\ CircuitConsistent'
  BY <1>2, <1>3, <1>4, CircuitStep
<1> QED
  BY <1>4, <1>6, <1>7 DEF TypeInv, TypeOK

LEMMA ReturnTyped ==
    ASSUME TypeInv, NEW t \in Threads, Return(t)
    PROVE  TypeInv'
<1> DEFINE p == req[t].provider
<1>1. req[t] \in Request /\ FrameOK(req[t]) /\ p \in Providers
  BY DEF TypeInv, TypeOK, FrameOK, Return, At
<1>2. UNCHANGED <<health, pool, refusal>>
  BY DEF Return
<1>3. PICK r : req' = [req EXCEPT ![t] = r] /\ r \in Request /\ FrameOK(r)
  <2>1. ASSUME NEW c \in Attempt
        PROVE  Append(req[t].calls, c) \in Seq(Attempt)
    BY <1>1 DEF Request
  <2>2. CASE req' = [req EXCEPT
                       ![t].status = "succeeded", ![t].at = "record",
                       ![t].calls = Append(@, [provider |-> p, outcome |-> "success"])]
    <3> DEFINE c == [provider |-> p, outcome |-> "success"]
               r == [req[t] EXCEPT !.status = "succeeded", !.at = "record",
                                   !.calls = Append(@, c)]
    <3>1. req' = [req EXCEPT ![t] = r]
      BY <2>2
    <3>2. Append(req[t].calls, c) \in Seq(Attempt)
      BY <1>1, <2>1 DEF Attempt, Outcomes
    <3>3. r \in Request /\ FrameOK(r)
      BY <1>1, <3>2 DEF Request, FrameOK, Places, Statuses
    <3> QED
      BY <3>1, <3>3
  <2>3. ASSUME NEW f \in FailureModes,
               req' = [req EXCEPT
                         ![t].status = "failed", ![t].at = "record",
                         ![t].kind = f.kind, ![t].retry = f.retry,
                         ![t].calls = Append(@, [provider |-> p, outcome |-> f.kind])]
        PROVE  \E r : req' = [req EXCEPT ![t] = r] /\ r \in Request /\ FrameOK(r)
    <3> DEFINE c == [provider |-> p, outcome |-> f.kind]
               r == [req[t] EXCEPT !.status = "failed", !.at = "record",
                                   !.kind = f.kind, !.retry = f.retry,
                                   !.calls = Append(@, c)]
    <3>1. req' = [req EXCEPT ![t] = r]
      BY <2>3
    <3>2. f.kind \in FailureKinds /\ f.retry \in Optional(Nat)
      BY GatewayAssumption
    <3>3. Append(req[t].calls, c) \in Seq(Attempt)
      BY <1>1, <2>1, <3>2 DEF Attempt, Outcomes
    <3>4. r \in Request /\ FrameOK(r)
      BY <1>1, <3>2, <3>3 DEF Request, FrameOK, Places, Statuses, Optional
    <3> QED
      BY <3>1, <3>4
  <2> QED
    BY <2>2, <2>3 DEF Return
<1>4. req' \in [Threads -> Request] /\ \A u \in Threads : FrameOK(req'[u])
  BY <1>3, FrameStep
<1> QED
  BY <1>2, <1>4 DEF TypeInv, TypeOK, CircuitConsistent

LEMMA RecordTyped ==
    ASSUME TypeInv, NEW t \in Threads, RecordSuccess(t) \/ RecordFailure(t)
    PROVE  TypeInv'
<1> DEFINE p == req[t].provider
<1>1. req[t] \in Request /\ FrameOK(req[t]) /\ p \in Providers
  BY DEF TypeInv, TypeOK, FrameOK, RecordSuccess, RecordFailure, At
<1>2. health[p] \in Health /\ Consistent(health[p])
  BY <1>1 DEF TypeInv, TypeOK, CircuitConsistent
<1>3. CASE RecordSuccess(t)
  <2> DEFINE r == [req[t] EXCEPT !.at = "report"]
  <2>1. health' \in [Providers -> Health] /\ CircuitConsistent'
    BY <1>1, <1>2, <1>3, AfterSuccessOK, CircuitStep DEF RecordSuccess
  <2>2. req' = [req EXCEPT ![t] = r] /\ UNCHANGED <<pool, refusal>>
    BY <1>3 DEF RecordSuccess
  <2>3. r \in Request /\ FrameOK(r)
    BY <1>1, <1>3 DEF Request, FrameOK, Places, RecordSuccess, At
  <2> HIDE DEF r
  <2> QED
    BY <2>1, <2>2, <2>3, FrameStep DEF TypeInv, TypeOK
<1>4. CASE RecordFailure(t)
  <2> DEFINE r == [req[t] EXCEPT !.at = "project"]
             h == AfterFailure(health[p], req[t].kind, req[t].retry)
  <2>1. req[t].kind \in FailureKinds /\ req[t].retry \in Optional(Nat)
    BY <1>1, <1>4 DEF FrameOK, Request, RecordFailure, At
  <2>2. h \in Health /\ Consistent(h)
    BY <1>2, <2>1, AfterFailureOK
  <2>3. health' \in [Providers -> Health] /\ CircuitConsistent'
    BY <1>1, <1>4, <2>2, CircuitStep DEF RecordFailure
  <2>4. req' = [req EXCEPT ![t] = r] /\ UNCHANGED pool
    BY <1>4 DEF RecordFailure
  <2>5. r \in Request /\ FrameOK(r)
    BY <1>1, <1>4, <2>1 DEF Request, FrameOK, Places, RecordFailure, At
  <2>6. refusal' \in [Providers -> [left : Nat, alone : BOOLEAN]]
    <3>1. OrDefault(req[t].retry, RateLimitCooldown) \in Nat
      BY <2>1, CooldownAssumption DEF OrDefault, Optional
    <3> QED
      BY <1>4, <3>1 DEF RecordFailure, TypeInv, TypeOK
  <2> HIDE DEF r
  <2> QED
    BY <2>3, <2>4, <2>5, <2>6, FrameStep DEF TypeInv, TypeOK
<1> QED
  BY <1>3, <1>4

LEMMA ReportTyped ==
    ASSUME TypeInv, NEW t \in Threads, ReportSuccess(t) \/ ReportFailure(t)
    PROVE  TypeInv'
<1> DEFINE p == req[t].provider
<1>1. req[t] \in Request /\ FrameOK(req[t]) /\ p \in Providers
  BY DEF TypeInv, TypeOK, FrameOK, ReportSuccess, ReportFailure, At
<1>2. pool[p] \in Resource
  BY <1>1 DEF TypeInv, TypeOK
<1>3. UNCHANGED <<health, refusal>>
  BY DEF ReportSuccess, ReportFailure
<1>4. CASE ReportSuccess(t)
  <2> DEFINE r == [req[t] EXCEPT !.at = "usage"]
  <2>1. pool' \in [Providers -> Resource]
    BY <1>2, <1>4, ResourceOK DEF ReportSuccess, TypeInv, TypeOK
  <2>2. req' = [req EXCEPT ![t] = r]
    BY <1>4 DEF ReportSuccess
  <2>3. r \in Request /\ FrameOK(r)
    BY <1>1, <1>4 DEF Request, FrameOK, Places, ReportSuccess, At
  <2> HIDE DEF r
  <2> QED
    BY <1>3, <2>1, <2>2, <2>3, FrameStep DEF TypeInv, TypeOK, CircuitConsistent
<1>5. CASE ReportFailure(t)
  <2> DEFINE r == [req[t] EXCEPT !.at = IF req[t].status = "failed" THEN "usage"
                                                                    ELSE "pick"]
  <2>1. req[t].kind \in FailureKinds /\ req[t].retry \in Optional(Nat)
    BY <1>1, <1>5 DEF FrameOK, Request, ReportFailure, At
  <2>2. pool' \in [Providers -> Resource]
    BY <1>2, <1>5, <2>1, AppliedFailureOK DEF ReportFailure, TypeInv, TypeOK
  <2>3. req' = [req EXCEPT ![t] = r]
    BY <1>5 DEF ReportFailure
  <2>4. r \in Request /\ FrameOK(r)
    BY <1>1, <1>5 DEF Request, FrameOK, Places, ReportFailure, At
  <2> HIDE DEF r
  <2> QED
    BY <1>3, <2>2, <2>3, <2>4, FrameStep DEF TypeInv, TypeOK, CircuitConsistent
<1> QED
  BY <1>4, <1>5

LEMMA AccountTyped ==
    ASSUME TypeInv, NEW t \in Threads, Account(t) \/ AccountRaises(t)
    PROVE  TypeInv'
<1>1. req[t] \in Request /\ FrameOK(req[t]) /\ req[t].provider \in Providers
  BY DEF TypeInv, TypeOK, FrameOK, Account, AccountRaises, At
<1>2. UNCHANGED <<health, pool, refusal>>
  BY DEF Account, AccountRaises
<1>3. CASE Account(t)
  <2> DEFINE o == IF req[t].status = "succeeded" THEN "success" ELSE req[t].kind
             e == Ledger(req[t])
             a == Append(req[t].attempts,
                         [provider |-> req[t].provider, outcome |-> o])
             place == IF Final(o) THEN "idle" ELSE "pick"
             answer == CASE o = "success" -> "ok"
                         [] o = "invalid_request" -> "unavailable"
                         [] OTHER -> req[t].result
             r == [req[t] EXCEPT !.events = e, !.attempts = a,
                                 !.at = place, !.result = answer]
  <2>1. req' = [req EXCEPT ![t] = r]
    BY <1>3 DEF Account
  <2>2. o \in Outcomes /\ req[t].status \in {"succeeded", "failed"}
    BY <1>1, <1>3 DEF FrameOK, Account, At, Outcomes
  <2>3. e \in Seq(UsageEvent)
    BY <1>1, <2>2 DEF Ledger, Recorded, UsageEvent, Request
  <2>4. a \in Seq(Attempt)
    BY <1>1, <2>2 DEF Attempt, Request
  <2>5. place \in {"idle", "pick"} /\ answer \in Results
    BY <1>1 DEF Request, Results
  <2> HIDE DEF o, e, a, place, answer
  <2>6. r \in Request /\ FrameOK(r)
    BY <1>1, <2>3, <2>4, <2>5 DEF Request, FrameOK, Places
  <2> HIDE DEF r
  <2> QED
    BY <1>2, <2>1, <2>6, FrameStep DEF TypeInv, TypeOK, CircuitConsistent
<1>4. CASE AccountRaises(t)
  <2>1. PICK r \in {[req[t] EXCEPT !.status = "failed", !.kind = "provider_error",
                                   !.retry = None, !.at = "record"],
                    [req[t] EXCEPT !.at = "idle", !.result = "error"]} :
          req' = [req EXCEPT ![t] = r]
    BY <1>4 DEF AccountRaises
  <2>2. "provider_error" \in Optional(FailureKinds) /\ None \in Optional(Nat)
    BY DEF Optional, FailureKinds
  <2>3. CASE r = [req[t] EXCEPT !.status = "failed", !.kind = "provider_error",
                                !.retry = None, !.at = "record"]
    <3>1. r \in Request
      BY <1>1, <2>2, <2>3 DEF Request, Places, Statuses
    <3>2. FrameOK(r)
      BY <1>1, <1>4, <2>3, <3>1 DEF AccountRaises, FrameOK, Request, At, FailureKinds
    <3> QED
      BY <1>2, <2>1, <3>1, <3>2, FrameStep DEF TypeInv, TypeOK, CircuitConsistent
  <2>4. CASE r = [req[t] EXCEPT !.at = "idle", !.result = "error"]
    <3>1. r \in Request
      BY <1>1, <2>4 DEF Request, Places, Results
    <3>2. FrameOK(r)
      BY <1>1, <2>4, <3>1 DEF FrameOK, Request
    <3> QED
      BY <1>2, <2>1, <3>1, <3>2, FrameStep DEF TypeInv, TypeOK, CircuitConsistent
  <2> QED
    BY <2>1, <2>3, <2>4
<1> QED
  BY <1>3, <1>4

-----------------------------------------------------------------------------
(***************************************************************************)
(* The steps of the environment.                                           *)
(***************************************************************************)
LEMMA EnvironmentTyped ==
    ASSUME TypeInv, Tick \/ Snapshot \/ \E p \in Providers : ObserveQuota(p)
    PROVE  TypeInv'
<1>1. CASE Tick
  <2>1. health' \in [Providers -> Health] /\ CircuitConsistent'
    BY <1>1, ElapseOK DEF Tick, TypeInv, TypeOK, CircuitConsistent
  <2>2. pool' \in [Providers -> Resource]
    BY <1>1, ResourceOK DEF Tick, TypeInv, TypeOK
  <2>3. refusal' \in [Providers -> [left : Nat, alone : BOOLEAN]]
    <3> DEFINE new(p) == [refusal[p] EXCEPT !.left = IF @ = 0 THEN 0 ELSE @ - 1]
    <3>1. ASSUME NEW p \in Providers PROVE new(p) \in [left : Nat, alone : BOOLEAN]
      <4>1. refusal[p] \in [left : Nat, alone : BOOLEAN]
        BY DEF TypeInv, TypeOK
      <4>2. ASSUME NEW n \in Nat PROVE (IF n = 0 THEN 0 ELSE n - 1) \in Nat
        OBVIOUS
      <4> QED
        BY <4>1, <4>2
    <3>2. refusal' = [p \in Providers |-> new(p)]
      BY <1>1 DEF Tick
    <3> HIDE DEF new
    <3> QED
      BY <3>1, <3>2
  <2> QED
    BY <1>1, <2>1, <2>2, <2>3 DEF Tick, TypeInv, TypeOK
<1>2. CASE Snapshot
  <2>1. health' \in [Providers -> Health] /\ CircuitConsistent'
    BY <1>2, RefreshedOK DEF Snapshot, CircuitsRead, PoolRead, TypeInv, TypeOK, CircuitConsistent
  <2>2. pool' \in [Providers -> Resource]
    BY <1>2, ResourceOK DEF Snapshot, CircuitsRead, PoolRead, TypeInv, TypeOK
  <2> QED
    BY <1>2, <2>1, <2>2 DEF Snapshot, CircuitsRead, PoolRead, TypeInv, TypeOK
<1>3. ASSUME NEW p \in Providers, ObserveQuota(p) PROVE TypeInv'
  <2>1. PICK q \in QuotaObservations :
          health' = [health EXCEPT ![p] = AfterQuota(@, q.remaining, q.reset)]
    BY <1>3 DEF ObserveQuota
  <2>2. q.remaining \in Optional(Nat) /\ q.reset \in Optional(Nat)
    BY GatewayAssumption
  <2>3. health[p] \in Health /\ Consistent(health[p])
    BY DEF TypeInv, TypeOK, CircuitConsistent
  <2>4. health' \in [Providers -> Health] /\ CircuitConsistent'
    BY <2>1, <2>2, <2>3, AfterQuotaOK, CircuitStep
  <2> QED
    BY <1>3, <2>4 DEF ObserveQuota, TypeInv, TypeOK
<1> QED
  BY <1>1, <1>2, <1>3

LEMMA NextTypeInv == TypeInv /\ [Next]_vars => TypeInv'
<1> SUFFICES ASSUME TypeInv, [Next]_vars PROVE TypeInv'
  OBVIOUS
<1>1. ASSUME NEW t \in Threads, Route(t) \/ Advance(t) PROVE TypeInv'
  BY <1>1, RouteTyped, LoopTyped, ReserveTyped, WindowTyped, ClassifyTyped,
     ReturnTyped, RecordTyped, ReportTyped, AccountTyped DEF Advance
<1>2. CASE Tick \/ Snapshot \/ \E p \in Providers : ObserveQuota(p)
  BY <1>2, EnvironmentTyped
<1>3. CASE UNCHANGED vars
  BY <1>3 DEF vars, TypeInv, TypeOK, CircuitConsistent
<1> QED
  BY <1>1, <1>2, <1>3 DEF Next

(***************************************************************************)
(* The frames, the circuits, the pool and the history keep their types.    *)
(***************************************************************************)
THEOREM TypeCorrect == Spec => []TypeOK
<1>1. TypeInv => TypeOK
  BY DEF TypeInv
<1> QED
  BY <1>1, InitTypeInv, NextTypeInv, PTL DEF Spec

(***************************************************************************)
(* Whatever the threads do to it, a circuit closed for a rate limit or a   *)
(* cooldown has a deadline that ends it, and a healthy one has none.       *)
(***************************************************************************)
THEOREM CircuitsAreConsistent == Spec => []CircuitConsistent
<1>1. TypeInv => CircuitConsistent
  BY DEF TypeInv
<1> QED
  BY <1>1, InitTypeInv, NextTypeInv, PTL DEF Spec

-----------------------------------------------------------------------------
(***************************************************************************)
(* The gateway and its adapter.                                            *)
(***************************************************************************)
LEMMA ErrorIsAFailure ==
    ASSUME NEW r \in Reply
    PROVE  ErrorFor(r) \in [kind : FailureKinds, retry : Optional(Nat)]
<1>1. RetryAfter(r) \in Optional(Nat)
  BY NoneAssumption DEF RetryAfter, Reply, Optional
<1>2. None \in Optional(Nat)
  BY DEF Optional
<1> QED
  BY <1>1, <1>2 DEF ErrorFor, Failure, FailureKinds, Reply

(***************************************************************************)
(* Whatever a provider replies, the adapter keeps the gateway's            *)
(* assumptions: complete() raises failures of the kinds the registry and   *)
(* the bridge know, with a Retry-After that is absent or not negative, and *)
(* the startup probe leaves the resource in a health the pool knows.       *)
(***************************************************************************)
THEOREM AdapterFitsTheGateway ==
    ASSUME NEW replies \in SUBSET Reply
    PROVE  /\ Failures(replies) \subseteq [kind : FailureKinds, retry : Optional(Nat)]
           /\ ProbeFindings(replies) \subseteq ResourceHealth
<1>1. ASSUME NEW rs \in SUBSET Reply
      PROVE  Failures(rs) \subseteq [kind : FailureKinds, retry : Optional(Nat)]
  <2>1. Unanswered \cup {Failure("provider_error", None)}
          \subseteq [kind : FailureKinds, retry : Optional(Nat)]
    BY DEF Unanswered, Failure, FailureKinds, Optional
  <2> QED
    BY <2>1, ErrorIsAFailure DEF Failures
<1>2. \A kind \in FailureKinds : ProbedHealth(kind) \in ResourceHealth
  BY DEF ProbedHealth, ResourceHealth
<1>3. ProbeFindings(replies) \subseteq ResourceHealth
  <2>1. {r \in replies : ~Convincing(r)} \in SUBSET Reply
    OBVIOUS
  <2>2. \A f \in Failures({r \in replies : ~Convincing(r)}) :
          ProbedHealth(f.kind) \in ResourceHealth
    BY <1>1, <1>2, <2>1
  <2> QED
    BY <2>2 DEF ProbeFindings, ResourceHealth
<1> QED
  BY <1>1, <1>3
=============================================================================
