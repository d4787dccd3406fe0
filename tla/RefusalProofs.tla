----------------------------- MODULE RefusalProofs -----------------------------
(***************************************************************************)
(* How long a provider that refused or failed stays closed, in its circuit *)
(* and in the pool.                                                        *)
(*                                                                         *)
(* With any number of threads: a provider's rate limit refusal is honoured *)
(* by every thread when no other call to the provider was under way, as    *)
(* long as nobody writes quota observations into the circuits (nobody      *)
(* under src/airlab does).                                                 *)
(*                                                                         *)
(* With one request at a time: no step closes a resource for a while       *)
(* without a deadline, which is the circuit's, and an exhausted one stays  *)
(* closed.                                                                 *)
(***************************************************************************)
EXTENDS RequestProofs

\* A refusal is running that no other call can undo.
Running(p) == refusal[p].left > 0 /\ refusal[p].alone

\* Reading a circuit that is closed for a running refusal changes nothing.
LEMMA ReadingKeeps ==
    ASSUME TypeInv, RefusalsHeld, NEW p \in Providers, Running(p)
    PROVE  /\ Refreshed(health[p]) = health[p]
           /\ health[p].state = "rate_limited"
           /\ health[p].until = refusal[p].left
           /\ \A t \in Threads : ~Using(t, p)
<1>1. /\ health[p].state = "rate_limited"
      /\ health[p].until = refusal[p].left
      /\ \A t \in Threads : ~Using(t, p)
  BY DEF RefusalsHeld, RefusalHeld, Running
<1>2. health[p].until # 0
  BY <1>1 DEF Running
<1> QED
  BY <1>1, <1>2 DEF Refreshed

\* A step of thread t that starts no refusal keeps those that run, if it leaves
\* their circuits alone and does not take their providers up.
LEMMA ThreadStep ==
    ASSUME TypeInv, RefusalsHeld, NEW t \in Threads, UNCHANGED refusal,
           \A u \in Threads \ {t} : req'[u] = req[u],
           \A p \in Providers :
             Running(p) => health'[p] = health[p] /\ ~Using(t, p)'
    PROVE  RefusalsHeld'
<1> SUFFICES ASSUME NEW p \in Providers, Running(p)
             PROVE  /\ health'[p].state = "rate_limited"
                    /\ health'[p].until = refusal[p].left
                    /\ \A u \in Threads : ~Using(u, p)'
  BY DEF RefusalsHeld, RefusalHeld, Running
<1>1. health'[p] = health[p] /\ ~Using(t, p)'
  OBVIOUS
<1>2. ASSUME NEW u \in Threads, u # t PROVE ~Using(u, p)'
  <2>1. ~Using(u, p) /\ req'[u] = req[u]
    BY <1>2, ReadingKeeps
  <2> QED
    BY <2>1 DEF Using
<1> QED
  BY <1>1, <1>2, ReadingKeeps

-----------------------------------------------------------------------------
LEMMA InitHeld == Init => RefusalsHeld
BY DEF Init, RefusalsHeld, RefusalHeld

LEMMA ChooseHeld ==
    ASSUME TypeInv, RefusalsHeld, NEW t \in Threads,
           Route(t) \/ GiveUp(t) \/ SkipCandidate(t)
    PROVE  RefusalsHeld'
<1>1. CASE Route(t)
  <2>1. PICK allowed \in SUBSET Providers :
          health' = [p \in Providers |-> IF p \in allowed THEN Refreshed(health[p])
                                                          ELSE health[p]]
    BY <1>1, GatewayAssumption DEF Route
  <2>2. \E r : req' = [req EXCEPT ![t] = r] /\ r.at \in {"idle", "pick"}
    <3>1. PICK blank, candidates :
            req' = [req EXCEPT ![t] =
                      [NewRequest EXCEPT
                         !.blank = blank,
                         !.todo = candidates,
                         !.at = IF candidates = {} THEN "idle" ELSE "pick",
                         !.result = IF candidates = {} THEN "unavailable"
                                                       ELSE "none"]]
      BY <1>1, Zenon DEF Route
    <3> DEFINE r == [NewRequest EXCEPT
                       !.blank = blank,
                       !.todo = candidates,
                       !.at = IF candidates = {} THEN "idle" ELSE "pick",
                       !.result = IF candidates = {} THEN "unavailable" ELSE "none"]
    <3>2. r.at \in {"idle", "pick"}
      BY DEF NewRequest
    <3> QED
      BY <3>1, <3>2
  <2>3. req'[t].at \in {"idle", "pick"}
    BY <2>2 DEF TypeInv, TypeOK
  <2>4. \A u \in Threads \ {t} : req'[u] = req[u]
    BY <2>2 DEF TypeInv, TypeOK
  <2>5. UNCHANGED refusal
    BY <1>1 DEF Route
  <2>6. \A p \in Providers : Running(p) => health'[p] = health[p] /\ ~Using(t, p)'
    BY <2>1, <2>3, ReadingKeeps DEF Using
  <2> QED
    BY <2>4, <2>5, <2>6, ThreadStep
<1>2. CASE GiveUp(t) \/ SkipCandidate(t)
  <2>1. UNCHANGED <<health, refusal>> /\ \A u \in Threads \ {t} : req'[u] = req[u]
    BY <1>2 DEF GiveUp, SkipCandidate, TypeInv, TypeOK
  <2>2. req'[t].at \in {"idle", "pick"}
    <3>1. req[t] \in Request /\ req[t].at = "pick"
      BY <1>2 DEF GiveUp, SkipCandidate, At, TypeInv, TypeOK
    <3> QED
      BY <1>2, <3>1 DEF GiveUp, SkipCandidate, TypeInv, TypeOK, Request
  <2> QED
    BY <2>1, <2>2, ThreadStep DEF Using
<1> QED
  BY <1>1, <1>2

LEMMA ReserveHeld ==
    ASSUME TypeInv, RefusalsHeld, NEW t \in Threads, Reserve(t)
    PROVE  RefusalsHeld'
<1>1. PICK q \in req[t].todo \cap Adapters, place \in {"refused", "calling", "window"} :
        /\ Take(t, q, place)
        /\ place # "refused" => Routable(Refreshed(health[q]))
        /\ \/ health' = [health EXCEPT ![q] = Refreshed(@)]
           \/ /\ Refreshed(health[q]).state \in OpenStates
              /\ \E h \in Health : health' = [health EXCEPT ![q] = h]
  <2>1. PICK q \in req[t].todo \cap Adapters :
          LET h == Refreshed(health[q])
          IN  \/ /\ h.state \notin OpenStates
                 /\ health' = [health EXCEPT ![q] = h]
                 /\ Take(t, q, "refused")
              \/ /\ h.state \in OpenStates
                 /\ QuotaSpent(h)
                 /\ health' = [health EXCEPT ![q] = QuotaRefused(h)]
                 /\ Take(t, q, "refused")
              \/ /\ Routable(h)
                 /\ RateLimit[q] = None
                 /\ health' = [health EXCEPT ![q] = h]
                 /\ Take(t, q, "calling")
              \/ /\ Routable(h)
                 /\ RateLimit[q] = 0
                 /\ health' = [health EXCEPT ![q] = LimitRefused(h)]
                 /\ Take(t, q, "refused")
              \/ /\ Routable(h)
                 /\ RateLimit[q] \notin {None, 0}
                 /\ health' = [health EXCEPT ![q] = h]
                 /\ Take(t, q, "window")
    BY DEF Reserve
  <2>2. req[t].todo \subseteq Providers
    BY DEF TypeInv, TypeOK, Request
  <2>3. Refreshed(health[q]) \in Health /\ Consistent(Refreshed(health[q]))
    BY <2>2, RefreshedOK DEF TypeInv, TypeOK, CircuitConsistent
  <2>4. QuotaRefused(Refreshed(health[q])) \in Health
    BY <2>3 DEF QuotaRefused, Health, HealthStates
  <2>5. LimitRefused(Refreshed(health[q])) \in Health
    BY <2>3, CooldownAssumption DEF LimitRefused, Health, HealthStates, Optional
  <2> QED
    BY <2>1, <2>4, <2>5 DEF Routable
<1>2. q \in Providers /\ req[t] \in Request
  BY DEF TypeInv, TypeOK, Request
<1>3. UNCHANGED refusal /\ \A u \in Threads \ {t} : req'[u] = req[u]
  BY <1>1 DEF Reserve, Take, TypeInv, TypeOK
<1>4. req'[t].provider = q /\ req'[t].at = place
  BY <1>1, <1>2 DEF Take, TypeInv, TypeOK, Request
<1>5. ASSUME NEW p \in Providers, Running(p)
      PROVE  health'[p] = health[p] /\ ~Using(t, p)'
  <2>1. Refreshed(health[p]) = health[p] /\ health[p].state \notin OpenStates
    BY <1>5, ReadingKeeps DEF OpenStates
  <2>2. CASE p # q
    BY <1>1, <1>4, <2>2 DEF Using, TypeInv, TypeOK
  <2>3. CASE p = q
    <3>1. place = "refused"
      BY <1>1, <2>1, <2>3 DEF Routable
    <3> QED
      BY <1>1, <1>4, <2>1, <2>3, <3>1 DEF Using, TypeInv, TypeOK
  <2> QED
    BY <2>2, <2>3
<1> QED
  BY <1>3, <1>5, ThreadStep

LEMMA WindowHeld ==
    ASSUME TypeInv, RefusalsHeld, NEW t \in Threads,
           ReserveInWindow(t) \/ ClassifyRefusal(t) \/ ReadCooldown(t)
    PROVE  RefusalsHeld'
<1> DEFINE q == req[t].provider
<1>1. q \in Providers /\ req[t] \in Request /\ FrameOK(req[t])
  BY DEF TypeInv, TypeOK, FrameOK, ReserveInWindow, ClassifyRefusal, ReadCooldown, At
<1>2. UNCHANGED refusal /\ \A u \in Threads \ {t} : req'[u] = req[u]
  BY DEF ReserveInWindow, ClassifyRefusal, ReadCooldown, TypeInv, TypeOK
<1>3. CASE ReserveInWindow(t)
  <2>1. Using(t, q)
    BY <1>3 DEF ReserveInWindow, At, Using
  <2>2. req'[t].provider = q /\ \A p \in Providers \ {q} : health'[p] = health[p]
    BY <1>1, <1>3 DEF ReserveInWindow, TypeInv, TypeOK, Request
  <2>3. \A p \in Providers : Running(p) => p # q
    BY <2>1, ReadingKeeps
  <2> QED
    BY <1>2, <2>2, <2>3, ThreadStep DEF Using
<1>4. CASE ClassifyRefusal(t) \/ ReadCooldown(t)
  <2>1. health' = [health EXCEPT ![q] = Refreshed(@)]
    BY <1>4 DEF ClassifyRefusal, ReadCooldown
  <2>2. req'[t].at \in {"project", "report"} /\ req'[t].status # "succeeded"
    BY <1>1, <1>4 DEF ClassifyRefusal, ReadCooldown, At, FrameOK, TypeInv, TypeOK, Request
  <2>3. \A p \in Providers : Running(p) => health'[p] = health[p]
    BY <1>1, <2>1, ReadingKeeps DEF TypeInv, TypeOK
  <2> QED
    BY <1>2, <2>2, <2>3, ThreadStep DEF Using
<1> QED
  BY <1>3, <1>4

\* A failure may start a refusal: it is alone only if no other thread is using
\* the provider, and this one has just stopped.
LEMMA RecordHeld ==
    ASSUME TypeInv, RefusalsHeld, NEW t \in Threads,
           Return(t) \/ RecordSuccess(t) \/ RecordFailure(t)
    PROVE  RefusalsHeld'
<1> DEFINE q == req[t].provider
<1>1. q \in Providers /\ req[t] \in Request /\ FrameOK(req[t])
  BY DEF TypeInv, TypeOK, FrameOK, Return, RecordSuccess, RecordFailure, At
<1>2. Using(t, q) /\ \A p \in Providers : Running(p) => p # q
  <2>1. Using(t, q)
    BY DEF Return, RecordSuccess, RecordFailure, At, Using
  <2> QED
    BY <2>1, ReadingKeeps
<1>3. /\ req'[t].provider = q
      /\ \A u \in Threads \ {t} : req'[u] = req[u]
      /\ \A p \in Providers \ {q} : health'[p] = health[p]
  <2>1. /\ req'[t].provider = q
        /\ \A u \in Threads \ {t} : req'[u] = req[u]
    <3>1. CASE Return(t)
      <4>1. CASE req' = [req EXCEPT
                           ![t].status = "succeeded", ![t].at = "record",
                           ![t].calls = Append(@, [provider |-> q,
                                                   outcome |-> "success"])]
        BY <1>1, <4>1 DEF TypeInv, TypeOK, Request
      <4>2. ASSUME NEW f \in FailureModes,
                   req' = [req EXCEPT
                             ![t].status = "failed", ![t].at = "record",
                             ![t].kind = f.kind, ![t].retry = f.retry,
                             ![t].calls = Append(@, [provider |-> q,
                                                     outcome |-> f.kind])]
            PROVE  /\ req'[t].provider = q
                   /\ \A u \in Threads \ {t} : req'[u] = req[u]
        BY <1>1, <4>2 DEF TypeInv, TypeOK, Request
      <4> QED
        BY <3>1, <4>1, <4>2 DEF Return
    <3>2. CASE RecordSuccess(t)
      BY <1>1, <3>2 DEF RecordSuccess, TypeInv, TypeOK, Request
    <3>3. CASE RecordFailure(t)
      BY <1>1, <3>3 DEF RecordFailure, TypeInv, TypeOK, Request
    <3> QED
      BY <3>1, <3>2, <3>3
  <2>2. \A p \in Providers \ {q} : health'[p] = health[p]
    BY <1>1 DEF Return, RecordSuccess, RecordFailure, TypeInv, TypeOK
  <2> QED
    BY <2>1, <2>2
<1>4. CASE UNCHANGED refusal
  BY <1>2, <1>3, <1>4, ThreadStep DEF Using
<1>5. CASE RecordFailure(t) /\ req[t].kind = "rate_limit"
  <2>1. health'[q] = AfterFailure(health[q], "rate_limit", req[t].retry)
    BY <1>1, <1>5 DEF RecordFailure, TypeInv, TypeOK
  <2>2. refusal' = [refusal EXCEPT ![q] =
                      [left |-> OrDefault(req[t].retry, RateLimitCooldown),
                       alone |-> \A u \in Threads \ {t} : ~Using(u, q)]]
    BY <1>5 DEF RecordFailure
  <2>3. req'[t].at = "project"
    BY <1>1, <1>5 DEF RecordFailure, TypeInv, TypeOK, Request
  <2>4. \A u \in Threads, p \in Providers : u # t => Using(u, p)' = Using(u, p)
    BY <1>3 DEF Using
  <2>5. \A p \in Providers : ~Using(t, p)'
    BY <2>3 DEF Using
  <2>6. health'[q].state = "rate_limited"
        /\ health'[q].until = OrDefault(req[t].retry, RateLimitCooldown)
    <3>1. OrDefault(req[t].retry, RateLimitCooldown) # None
      BY <1>1, NoneAssumption, CooldownAssumption DEF OrDefault
    <3>2. health[q] \in Health /\ Refreshed(health[q]) \in Health
      BY <1>1, RefreshedOK DEF TypeInv, TypeOK, CircuitConsistent
    <3>3. \A n : FailedState("rate_limit", n) = "rate_limited"
      BY DEF FailedState, Transient
    <3>4. \A n : FailedCooldown("rate_limit", n, req[t].retry)
                   = OrDefault(req[t].retry, RateLimitCooldown)
      BY DEF FailedCooldown, Transient
    <3> QED
      BY <2>1, <3>1, <3>2, <3>3, <3>4 DEF AfterFailure, Health
  <2>7. ASSUME NEW p \in Providers, Running(p)'
        PROVE  /\ health'[p].state = "rate_limited"
               /\ health'[p].until = refusal'[p].left
               /\ \A u \in Threads \ {t} : ~Using(u, p)
    <3>1. CASE p = q
      <4>1. refusal'[q] = [left |-> OrDefault(req[t].retry, RateLimitCooldown),
                           alone |-> \A u \in Threads \ {t} : ~Using(u, q)]
        BY <1>1, <2>2 DEF TypeInv, TypeOK
      <4> QED
        BY <2>6, <2>7, <3>1, <4>1 DEF Running
    <3>2. CASE p # q
      <4>1. refusal'[p] = refusal[p] /\ health'[p] = health[p]
        BY <1>3, <2>2, <3>2 DEF TypeInv, TypeOK
      <4>2. Running(p)
        BY <2>7, <4>1 DEF Running
      <4> QED
        BY <4>1, <4>2, ReadingKeeps
    <3> QED
      BY <3>1, <3>2
  <2> QED
    BY <2>4, <2>5, <2>7 DEF RefusalsHeld, RefusalHeld, Running
<1> QED
  BY <1>4, <1>5 DEF Return, RecordSuccess, RecordFailure

LEMMA ReportHeld ==
    ASSUME TypeInv, RefusalsHeld, NEW t \in Threads,
           ReportSuccess(t) \/ ReportFailure(t) \/ Account(t) \/ AccountRaises(t)
    PROVE  RefusalsHeld'
<1> DEFINE q == req[t].provider
<1>1. req[t] \in Request /\ FrameOK(req[t])
  BY DEF TypeInv, TypeOK
<1>2. UNCHANGED <<health, refusal>> /\ \A u \in Threads \ {t} : req'[u] = req[u]
  BY DEF ReportSuccess, ReportFailure, Account, AccountRaises, TypeInv, TypeOK
<1>3. ASSUME NEW p \in Providers, Using(t, p)' PROVE Using(t, p)
  <2>1. CASE ReportSuccess(t)
    BY <1>1, <1>3, <2>1 DEF ReportSuccess, At, Using, TypeInv, TypeOK, Request
  <2>2. CASE ReportFailure(t)
    BY <1>1, <1>3, <2>2 DEF ReportFailure, At, Using, TypeInv, TypeOK, Request
  <2>3. CASE Account(t)
    <3>1. req'[t].at \in {"idle", "pick"}
      BY <1>1, <2>3 DEF Account, TypeInv, TypeOK, Request
    <3> QED
      BY <1>3, <3>1 DEF Using
  <2>4. CASE AccountRaises(t)
    BY <1>1, <1>3, <2>4 DEF AccountRaises, At, Using, TypeInv, TypeOK, Request
  <2> QED
    BY <2>1, <2>2, <2>3, <2>4
<1> QED
  BY <1>2, <1>3, ReadingKeeps, ThreadStep

LEMMA TimeHeld ==
    ASSUME TypeInv, RefusalsHeld, Tick \/ Snapshot
    PROVE  RefusalsHeld'
<1>1. UNCHANGED req
  BY DEF Tick, Snapshot
<1>2. \A t \in Threads, p \in Providers : Using(t, p)' = Using(t, p)
  BY <1>1 DEF Using
<1>3. ASSUME NEW p \in Providers, Running(p)'
      PROVE  /\ health'[p].state = "rate_limited"
             /\ health'[p].until = refusal'[p].left
             /\ Running(p)
  <2>1. refusal[p] \in [left : Nat, alone : BOOLEAN] /\ health[p] \in Health
    BY DEF TypeInv, TypeOK
  <2>2. CASE Snapshot
    BY <1>3, <2>2, ReadingKeeps DEF Snapshot, CircuitsRead, PoolRead, Running
  <2>3. CASE Tick
    <3>1. refusal'[p] = [refusal[p] EXCEPT !.left = IF @ = 0 THEN 0 ELSE @ - 1]
          /\ health'[p] = Elapse(health[p])
      BY <2>3 DEF Tick
    <3>2. /\ refusal[p].left > 1 /\ refusal'[p].left = refusal[p].left - 1
          /\ refusal[p].alone
      <4> DEFINE n == refusal[p].left
      <4>1. refusal'[p].left = (IF n = 0 THEN 0 ELSE n - 1)
            /\ refusal'[p].alone = refusal[p].alone
        BY <2>1, <3>1
      <4>2. n \in Nat
        BY <2>1
      <4> HIDE DEF n
      <4>3. n > 1 /\ refusal'[p].left = n - 1
        BY <1>3, <4>1, <4>2 DEF Running
      <4> QED
        BY <1>3, <4>1, <4>3 DEF n, Running
    <3>3. Running(p)
      BY <2>1, <3>2 DEF Running
    <3>4. health[p].state = "rate_limited" /\ health[p].until = refusal[p].left
      BY <3>3, ReadingKeeps
    <3>5. health[p].until \notin {None, 0}
      BY <2>1, <3>2, <3>4, NoneAssumption
    <3>6. health'[p].state = "rate_limited" /\ health'[p].until = health[p].until - 1
      BY <2>1, <3>1, <3>4, <3>5 DEF Elapse, Health
    <3> QED
      BY <3>2, <3>3, <3>4, <3>6
  <2> QED
    BY <2>2, <2>3
<1> QED
  BY <1>2, <1>3, ReadingKeeps DEF RefusalsHeld, RefusalHeld, Running

-----------------------------------------------------------------------------
LEMMA NextHeld ==
    ASSUME QuotaObservations = {}
    PROVE  TypeInv /\ RefusalsHeld /\ [Next]_vars => RefusalsHeld'
<1> SUFFICES ASSUME TypeInv, RefusalsHeld, [Next]_vars PROVE RefusalsHeld'
  OBVIOUS
<1>1. ASSUME NEW t \in Threads, Route(t) \/ Advance(t) PROVE RefusalsHeld'
  BY <1>1, ChooseHeld, ReserveHeld, WindowHeld, RecordHeld, ReportHeld DEF Advance
<1>2. CASE Tick \/ Snapshot
  BY <1>2, TimeHeld
<1>3. ASSUME NEW p \in Providers, ObserveQuota(p) PROVE FALSE
  BY <1>3 DEF ObserveQuota
<1>4. CASE UNCHANGED vars
  BY <1>4 DEF vars, RefusalsHeld, RefusalHeld, Using
<1> QED
  BY <1>1, <1>2, <1>3, <1>4 DEF Next

\* A thread that starts a call found the circuit open, so no refusal was running.
LEMMA StartHonours ==
    ASSUME TypeInv, RefusalsHeld, [Next]_vars, NEW t \in Threads, Starts(t)
    PROVE  \/ refusal[req'[t].provider].left = 0
           \/ ~refusal[req'[t].provider].alone
<1>1. Reserve(t) \/ ReserveInWindow(t)
  <2>1. ASSUME NEW u \in Threads, Route(u) \/ Advance(u),
               ~Reserve(u), ~ReserveInWindow(u)
        PROVE  req'[t].at # "calling" \/ req'[t] = req[t]
    <3>1. PICK r : req' = [req EXCEPT ![u] = r]
      BY <2>1, Zenon DEF Advance, Route, GiveUp, SkipCandidate, ClassifyRefusal, Return,
         RecordSuccess, RecordFailure, ReadCooldown, ReportSuccess, ReportFailure,
         Account, AccountRaises
    <3>2. req'[u].at # "calling"
      <4>1. req[u] \in Request
        BY DEF TypeInv, TypeOK
      <4>2. CASE Route(u)
        BY <4>2 DEF Route, NewRequest, TypeInv, TypeOK
      <4>3. CASE GiveUp(u) \/ SkipCandidate(u)
        <5>1. req[u].at = "pick"
          BY <4>3 DEF GiveUp, SkipCandidate, At
        <5>2. CASE GiveUp(u)
          BY <4>1, <5>2 DEF GiveUp, TypeInv, TypeOK, Request
        <5>3. CASE SkipCandidate(u)
          BY <4>1, <5>1, <5>3 DEF SkipCandidate, TypeInv, TypeOK, Request
        <5> QED
          BY <4>3, <5>2, <5>3
      <4>9. CASE ClassifyRefusal(u) \/ ReadCooldown(u)
        BY <4>1, <4>9 DEF ClassifyRefusal, ReadCooldown, TypeInv, TypeOK, Request
      <4>4. CASE Return(u)
        <5> DEFINE q == req[u].provider
        <5>1. CASE req' = [req EXCEPT
                             ![u].status = "succeeded", ![u].at = "record",
                             ![u].calls = Append(@, [provider |-> q,
                                                     outcome |-> "success"])]
          <6> DEFINE c == Append(req[u].calls, [provider |-> q, outcome |-> "success"])
          <6>1. req' = [req EXCEPT ![u].status = "succeeded", ![u].at = "record",
                                   ![u].calls = c]
            BY <5>1
          <6> HIDE DEF c
          <6> QED
            BY <4>1, <6>1 DEF TypeInv, TypeOK, Request
        <5>2. ASSUME NEW f \in FailureModes,
                     req' = [req EXCEPT
                               ![u].status = "failed", ![u].at = "record",
                               ![u].kind = f.kind, ![u].retry = f.retry,
                               ![u].calls = Append(@, [provider |-> q,
                                                       outcome |-> f.kind])]
              PROVE  req'[u].at # "calling"
          BY <4>1, <5>2 DEF TypeInv, TypeOK, Request
        <5> QED
          BY <4>4, <5>1, <5>2 DEF Return
      <4>5. CASE RecordSuccess(u) \/ RecordFailure(u) \/ ReportSuccess(u)
        BY <4>1, <4>5 DEF RecordSuccess, RecordFailure, ReportSuccess,
           TypeInv, TypeOK, Request
      <4>8. CASE ReportFailure(u)
        BY <4>1, <4>8 DEF ReportFailure, TypeInv, TypeOK, Request
      <4>6. CASE Account(u)
        BY <4>1, <4>6 DEF Account, TypeInv, TypeOK, Request
      <4>7. CASE AccountRaises(u)
        BY <4>1, <4>7 DEF AccountRaises, TypeInv, TypeOK, Request
      <4> QED
        BY <2>1, <4>2, <4>3, <4>4, <4>5, <4>6, <4>7, <4>8, <4>9 DEF Advance
    <3> QED
      BY <3>1, <3>2 DEF TypeInv, TypeOK
  <2>2. ASSUME NEW u \in Threads, u # t, Reserve(u) \/ ReserveInWindow(u)
        PROVE  req'[t] = req[t]
    <3>1. CASE Reserve(u)
      <4>1. \E q, place : Take(u, q, place)
        BY <3>1, Zenon DEF Reserve
      <4> QED
        BY <2>2, <4>1 DEF Take, TypeInv, TypeOK
    <3>2. CASE ReserveInWindow(u)
      BY <2>2, <3>2 DEF ReserveInWindow, TypeInv, TypeOK
    <3> QED
      BY <2>2, <3>1, <3>2
  <2>3. req'[t] # req[t] /\ req'[t].at = "calling"
    BY DEF Starts, At
  <2>4. UNCHANGED req => FALSE
    BY <2>3
  <2> QED
    BY <2>1, <2>2, <2>3, <2>4 DEF Next, Tick, Snapshot, CircuitsRead, PoolRead, ObserveQuota, vars
<1>2. req[t] \in Request /\ req'[t].at = "calling"
  BY DEF Starts, TypeInv, TypeOK
<1>3. CASE Reserve(t)
  <2>1. PICK q \in req[t].todo \cap Adapters, place \in {"refused", "calling", "window"} :
          Take(t, q, place) /\ (place # "refused" => Routable(Refreshed(health[q])))
    BY <1>3, Zenon DEF Reserve
  <2>2. req'[t].provider = q /\ req'[t].at = place
    BY <1>2, <2>1 DEF Take, TypeInv, TypeOK, Request
  <2>3. q \in Providers /\ refusal[q] \in [left : Nat, alone : BOOLEAN]
    BY <1>2, <2>1 DEF TypeInv, TypeOK, Request
  <2>4. Refreshed(health[q]).state \in OpenStates
    BY <1>2, <2>1, <2>2 DEF Routable
  <2>5. ~Running(q)
    BY <2>3, <2>4, ReadingKeeps DEF OpenStates
  <2> QED
    BY <2>2, <2>3, <2>5 DEF Running
<1>4. CASE ReserveInWindow(t)
  <2> DEFINE q == req[t].provider
  <2>1. Using(t, q) /\ q \in Providers
    BY <1>4 DEF ReserveInWindow, At, Using, TypeInv, FrameOK
  <2>2. req'[t].provider = q /\ refusal[q] \in [left : Nat, alone : BOOLEAN]
    BY <1>2, <1>4, <2>1 DEF ReserveInWindow, TypeInv, TypeOK, Request
  <2>3. ~Running(q)
    BY <2>1, ReadingKeeps
  <2> QED
    BY <2>2, <2>3 DEF Running
<1> QED
  BY <1>1, <1>3, <1>4

(***************************************************************************)
(* A refusal that came while no other call to the provider was under way   *)
(* closes the provider for the rest of its cooldown.                       *)
(***************************************************************************)
THEOREM RefusalsAreHeld ==
    ASSUME QuotaObservations = {}
    PROVE  Spec => []RefusalsHeld
<1>1. Init => TypeInv /\ RefusalsHeld
  BY InitTypeInv, InitHeld
<1>2. TypeInv /\ RefusalsHeld /\ [Next]_vars => (TypeInv /\ RefusalsHeld)'
  BY NextTypeInv, NextHeld
<1> QED
  BY <1>1, <1>2, PTL DEF Spec

(***************************************************************************)
(* So no thread calls a provider before the cooldown of such a refusal is  *)
(* over, however the requests interleave.                                  *)
(***************************************************************************)
THEOREM LoneRefusalsAreHonoured ==
    ASSUME QuotaObservations = {}
    PROVE  Spec => LoneRefusalHonoured
<1>1. Init => TypeInv /\ RefusalsHeld
  BY InitTypeInv, InitHeld
<1>2. TypeInv /\ RefusalsHeld /\ [Next]_vars => (TypeInv /\ RefusalsHeld)'
  BY NextTypeInv, NextHeld
<1>3. TypeInv /\ RefusalsHeld /\ [Next]_vars
        => [\A t \in Threads :
              Starts(t) => \/ refusal[req'[t].provider].left = 0
                           \/ ~refusal[req'[t].provider].alone]_vars
  BY StartHonours
<1> QED
  BY <1>1, <1>2, <1>3, PTL DEF Spec, LoneRefusalHonoured

-----------------------------------------------------------------------------
(***************************************************************************)
(* One request at a time.  Then a refusal is always alone.                 *)
(***************************************************************************)
LoneCaller == \A t, u \in Threads : t = u

AllAlone == \A p \in Providers : refusal[p].alone

LEMMA NextAlone == LoneCaller /\ TypeInv /\ AllAlone /\ [Next]_vars => AllAlone'
<1> SUFFICES ASSUME LoneCaller, TypeInv, AllAlone, [Next]_vars PROVE AllAlone'
  OBVIOUS
<1>1. CASE UNCHANGED refusal
  BY <1>1 DEF AllAlone
<1>2. CASE Tick
  BY <1>2 DEF Tick, AllAlone, TypeInv, TypeOK
<1>3. ASSUME NEW t \in Threads, RecordFailure(t) PROVE AllAlone'
  <2>1. Threads \ {t} = {}
    BY DEF LoneCaller
  <2>2. CASE req[t].kind # "rate_limit"
    BY <1>1, <1>3, <2>2 DEF RecordFailure
  <2>3. CASE req[t].kind = "rate_limit"
    <3>1. PICK left :
            refusal' = [refusal EXCEPT ![req[t].provider] =
                          [left |-> left, alone |-> \A u \in Threads \ {t} :
                                                      ~Using(u, req[t].provider)]]
      BY <1>3, <2>3 DEF RecordFailure
    <3>2. refusal' = [refusal EXCEPT ![req[t].provider] =
                        [left |-> left, alone |-> TRUE]]
      BY <2>1, <3>1
    <3> QED
      BY <3>2 DEF AllAlone, TypeInv, TypeOK
  <2> QED
    BY <2>2, <2>3
<1> QED
  BY <1>1, <1>2, <1>3
     DEF Next, Advance, Route, GiveUp, SkipCandidate, Reserve, ReserveInWindow,
         ClassifyRefusal, Return, RecordSuccess, ReadCooldown, ReportSuccess,
         ReportFailure, Account, AccountRaises, ObserveQuota, Snapshot, vars

(***************************************************************************)
(* A caller that is alone never has a provider called that refused it for  *)
(* its rate limit before the cooldown is over, even if time passes between *)
(* any two statements of complete().                                       *)
(***************************************************************************)
THEOREM LoneCallersAreHonoured ==
    ASSUME LoneCaller, QuotaObservations = {}
    PROVE  Spec => RateLimitHonoured
<1>1. Init => TypeInv /\ RefusalsHeld /\ AllAlone
  BY InitTypeInv, InitHeld DEF Init, AllAlone
<1>2. TypeInv /\ RefusalsHeld /\ AllAlone /\ [Next]_vars
        => (TypeInv /\ RefusalsHeld /\ AllAlone)'
  BY NextTypeInv, NextHeld, NextAlone
<1>3. TypeInv /\ RefusalsHeld /\ AllAlone /\ [Next]_vars
        => [\A t \in Threads :
              Starts(t) => refusal[req'[t].provider].left = 0]_vars
  <2> SUFFICES ASSUME TypeInv, RefusalsHeld, AllAlone, [Next]_vars, TypeInv',
                      NEW t \in Threads, Starts(t)
               PROVE  refusal[req'[t].provider].left = 0
    BY NextTypeInv
  <2>1. req'[t].provider \in Providers
    BY DEF Starts, TypeInv, FrameOK
  <2> QED
    BY <2>1, StartHonours DEF AllAlone
<1> QED
  BY <1>1, <1>2, <1>3, PTL DEF Spec, RateLimitHonoured

-----------------------------------------------------------------------------
(***************************************************************************)
(* What a request has ahead of it or in hand, its outcome not reported to  *)
(* the pool yet, is what the pool let it have: with nobody else to report  *)
(* on it, it is still schedulable.                                         *)
(***************************************************************************)
Ahead(t, p) == ~At(t, "idle") /\ p \in req[t].todo

InHandOf(t, p) ==
    /\ req[t].provider = p
    /\ \/ req[t].at \in {"window", "refused", "calling", "record", "project", "report"}
       \/ req[t].at = "usage" /\ req[t].status = "succeeded"

Engaged(t, p) == Ahead(t, p) \/ InHandOf(t, p)

EngagedAreSchedulable ==
    \A t \in Threads, p \in Providers : Engaged(t, p) => Schedulable(pool[p])

LEMMA EngagedShrinks ==
    ASSUME TypeInv, NEW t \in Threads, Advance(t), NEW p \in Providers, Engaged(t, p)'
    PROVE  Engaged(t, p)
<1>1. Moves(req[t], req'[t]) /\ FrameOK(req[t])
  BY EveryAdvanceMoves DEF TypeInv
<1>2. CASE Chooses(req[t], req'[t])
  BY <1>2 DEF Chooses, Engaged, Ahead, InHandOf, At
<1>3. CASE /\ Follows(req[t], req'[t])
           /\ req'[t].todo = req[t].todo /\ req'[t].provider = req[t].provider
  BY <1>1, <1>3 DEF Follows, FrameOK, Engaged, Ahead, InHandOf, At
<1> QED
  BY <1>1, <1>2, <1>3 DEF Moves

LEMMA StaysSchedulable ==
    ASSUME NEW r \in Resource, Schedulable(r)
    PROVE  Reopened(r) = r /\ Schedulable(ElapseResource(r))
BY DEF Schedulable, Unschedulable, Reopened, TransientHealth, ElapseResource, Resource

\* What a report on provider q leaves of the pool.
LEMMA ReportsTouchOne ==
    ASSUME TypeInv, RequestInv, NEW t \in Threads,
           ReportSuccess(t) \/ ReportFailure(t), NEW q, q = req[t].provider
    PROVE  /\ q \in Providers /\ InHandOf(t, q)
           /\ \A p \in Providers \ {q} : pool'[p] = pool[p]
           /\ ReportSuccess(t) => pool'[q] = AppliedSuccess(pool[q])
           /\ ReportFailure(t) =>
                /\ pool'[q] = AppliedFailure(pool[q], req[t].kind, req[t].retry)
                /\ ~Engaged(t, q)'
<1>1. req[t] \in Request /\ FrameOK(req[t]) /\ RequestOK(req[t]) /\ req[t].at = "report"
  BY DEF TypeInv, TypeOK, RequestInv, ReportSuccess, ReportFailure, At
<1>2. q \in Providers /\ InHandOf(t, q) /\ q \notin req[t].todo
  BY <1>1 DEF FrameOK, InHandOf, RequestOK
<1>3. /\ \A p \in Providers \ {q} : pool'[p] = pool[p]
      /\ ReportSuccess(t) => pool'[q] = AppliedSuccess(pool[q])
      /\ ReportFailure(t) =>
           pool'[q] = AppliedFailure(pool[q], req[t].kind, req[t].retry)
  BY <1>2 DEF ReportSuccess, ReportFailure, TypeInv, TypeOK
<1>4. ASSUME ReportFailure(t) PROVE ~Engaged(t, q)'
  <2>1. /\ req'[t].at \in {"usage", "pick"} /\ req'[t].status = req[t].status
        /\ req'[t].todo = req[t].todo /\ req[t].status \in {"failed", "skipped"}
    BY <1>1, <1>4 DEF ReportFailure, TypeInv, TypeOK, Request
  <2> QED
    BY <1>2, <2>1 DEF Engaged, Ahead, InHandOf, At
<1> QED
  BY <1>2, <1>3, <1>4

LEMMA RouteSchedules ==
    ASSUME TypeInv, NEW t \in Threads, Route(t)
    PROVE  /\ req'[t].at \in {"idle", "pick"}
           /\ \A p \in Providers : pool'[p] \in {pool[p], Reopened(pool[p])}
           /\ \A p \in Providers :
                \/ health'[p] = health[p]
                \/ health'[p] = Refreshed(health[p]) /\ Schedulable(Reopened(pool[p]))
           /\ \A p \in Providers :
                Ahead(t, p)' => /\ pool'[p] = Reopened(pool[p])
                                /\ Schedulable(Reopened(pool[p]))
                                /\ health'[p].state \in OpenStates
<1>1. PICK admitted \in Routes, blank \in BlankTask :
        LET fresh == [p \in Providers |-> Reopened(pool[p])]
            allowed == {p \in admitted : ~PoolRejects(fresh[p])}
            circuit == [p \in Providers |-> IF p \in allowed
                                            THEN Refreshed(health[p])
                                            ELSE health[p]]
            candidates == {p \in allowed : Routable(circuit[p])}
        IN  /\ pool' = IF admitted = {} THEN pool ELSE fresh
            /\ health' = circuit
            /\ req' = [req EXCEPT ![t] =
                         [NewRequest EXCEPT
                            !.blank = blank,
                            !.todo = candidates,
                            !.at = IF candidates = {} THEN "idle" ELSE "pick",
                            !.result = IF candidates = {} THEN "unavailable"
                                                          ELSE "none"]]
  BY DEF Route
<1> DEFINE fresh == [p \in Providers |-> Reopened(pool[p])]
           allowed == {p \in admitted : ~PoolRejects(fresh[p])}
           circuit == [p \in Providers |-> IF p \in allowed
                                           THEN Refreshed(health[p])
                                           ELSE health[p]]
           candidates == {p \in allowed : Routable(circuit[p])}
           place == IF candidates = {} THEN "idle" ELSE "pick"
           result == IF candidates = {} THEN "unavailable" ELSE "none"
           r == [NewRequest EXCEPT !.blank = blank, !.todo = candidates,
                                   !.at = place, !.result = result]
<1>2. admitted \subseteq Providers
  BY GatewayAssumption
<1>3. req' = [req EXCEPT ![t] = r]
  BY <1>1
<1>4. place \in {"idle", "pick"}
  OBVIOUS
<1>5. \A p \in candidates : p \in allowed /\ admitted # {} /\ Routable(circuit[p])
  OBVIOUS
<1>6. \A p \in Providers : p \in allowed => Schedulable(fresh[p])
  BY DEF PoolRejects
<1>7. pool' = (IF admitted = {} THEN pool ELSE fresh) /\ health' = circuit
  BY <1>1
<1> HIDE DEF candidates, place, result, allowed
<1>8. req'[t].at = place /\ req'[t].todo = candidates
  BY <1>3 DEF NewRequest, TypeInv, TypeOK
<1> QED
  BY <1>2, <1>4, <1>5, <1>6, <1>7, <1>8 DEF Ahead, Routable

LEMMA NextSchedulable ==
    ASSUME LoneCaller, TypeInv, RequestInv, EngagedAreSchedulable, [Next]_vars
    PROVE  EngagedAreSchedulable'
<1> SUFFICES ASSUME NEW t \in Threads, NEW p \in Providers, Engaged(t, p)'
             PROVE  Schedulable(pool'[p])
  BY DEF EngagedAreSchedulable
<1>1. \A u \in Threads : u = t
  BY DEF LoneCaller
<1>2. pool[p] \in Resource
  BY DEF TypeInv, TypeOK
<1>3. CASE Route(t)
  <2>1. req'[t].at \in {"idle", "pick"}
    BY <1>3, RouteSchedules
  <2>2. Ahead(t, p)'
    BY <2>1 DEF Engaged, InHandOf
  <2> QED
    BY <1>3, <2>2, RouteSchedules
<1>4. CASE Advance(t)
  <2>1. Schedulable(pool[p])
    BY <1>4, EngagedShrinks DEF EngagedAreSchedulable
  <2>2. CASE ReportSuccess(t) \/ ReportFailure(t)
    <3>1. CASE p # req[t].provider
      BY <2>1, <2>2, <3>1, ReportsTouchOne
    <3>2. CASE p = req[t].provider
      <4>1. ~ReportFailure(t)
        BY <3>2, ReportsTouchOne
      <4>2. pool'[p] = AppliedSuccess(pool[p])
        BY <2>2, <3>2, <4>1, ReportsTouchOne
      <4> QED
        BY <4>2 DEF AppliedSuccess, Schedulable, Unschedulable
    <3> QED
      BY <3>1, <3>2
  <2>3. CASE UNCHANGED pool
    BY <2>1, <2>3
  <2> QED
    BY <1>4, <2>2, <2>3 DEF Advance, GiveUp, SkipCandidate, Reserve, ReserveInWindow,
       ClassifyRefusal, Return, RecordSuccess, RecordFailure, ReadCooldown, Account,
       AccountRaises
<1>5. CASE Tick \/ Snapshot \/ (\E q \in Providers : ObserveQuota(q)) \/ UNCHANGED vars
  <2>1. UNCHANGED req
    BY <1>5 DEF Tick, Snapshot, ObserveQuota, vars
  <2>2. Schedulable(pool[p])
    BY <2>1 DEF EngagedAreSchedulable, Engaged, Ahead, InHandOf, At
  <2>3. pool'[p] \in {pool[p], Reopened(pool[p]), ElapseResource(pool[p])}
    BY <1>5 DEF Tick, Snapshot, PoolRead, ObserveQuota, vars
  <2> QED
    BY <1>2, <2>2, <2>3, StaysSchedulable
<1> QED
  BY <1>1, <1>3, <1>4, <1>5 DEF Next

LoneInv == TypeInv /\ RequestInv /\ EngagedAreSchedulable

LEMMA LoneInvHolds ==
    ASSUME LoneCaller
    PROVE  /\ Init => LoneInv
           /\ LoneInv /\ [Next]_vars => LoneInv'
<1>1. Init => EngagedAreSchedulable
  BY DEF Init, NewRequest, EngagedAreSchedulable, Engaged, Ahead, InHandOf, At
<1> QED
  BY <1>1, InitTypeInv, InitRequest, NextTypeInv, NextRequest, NextSchedulable DEF LoneInv

(***************************************************************************)
(* "EXHAUSTED --time alone--> EXHAUSTED", for one request at a time: no    *)
(* provider that is exhausted is in anybody's hands, so nobody reports on  *)
(* it, and neither time nor a read reopens it.                             *)
(***************************************************************************)
LEMMA StaysExhausted ==
    ASSUME LoneCaller, LoneInv, [Next]_vars,
           NEW p \in Providers, pool[p].health = "EXHAUSTED"
    PROVE  pool'[p].health = "EXHAUSTED"
<1>1. pool[p] \in Resource
  BY DEF LoneInv, TypeInv, TypeOK
<1>2. /\ Reopened(pool[p]).health = "EXHAUSTED"
      /\ ElapseResource(pool[p]).health = "EXHAUSTED"
  BY <1>1 DEF Reopened, ElapseResource, TransientHealth, Resource
<1>3. ASSUME NEW t \in Threads, ReportSuccess(t) \/ ReportFailure(t)
      PROVE  pool'[p] = pool[p]
  <2>1. ~Engaged(t, p)
    BY DEF LoneInv, EngagedAreSchedulable, Schedulable, Unschedulable
  <2> QED
    BY <1>3, <2>1, ReportsTouchOne DEF LoneInv, Engaged
<1>4. ASSUME NEW t \in Threads, Route(t)
      PROVE  pool'[p] \in {pool[p], Reopened(pool[p])}
  BY <1>4, RouteSchedules DEF LoneInv
<1>5. CASE Tick \/ Snapshot
  BY <1>5, <1>2 DEF Tick, Snapshot, PoolRead
<1> QED
  BY <1>2, <1>3, <1>4, <1>5
     DEF Next, Advance, GiveUp, SkipCandidate, Reserve, ReserveInWindow,
         ClassifyRefusal, Return, RecordSuccess, RecordFailure, ReadCooldown, Account,
         AccountRaises, ObserveQuota, vars

(***************************************************************************)
(* With one request at a time a resource the pool holds EXHAUSTED leaves   *)
(* that health by no report, refresh or probe: complete() never asks it,   *)
(* and no time ends it.                                                    *)
(***************************************************************************)
THEOREM ExhaustionNeedsEvidence ==
    ASSUME LoneCaller
    PROVE  Spec => ExhaustedNeedsEvidence
<1>1. LoneInv /\ [Next]_vars
        => [\A p \in Providers :
              pool[p].health = "EXHAUSTED" => pool'[p].health = "EXHAUSTED"]_vars
  BY StaysExhausted
<1> QED
  BY <1>1, LoneInvHolds, PTL DEF Spec, ExhaustedNeedsEvidence

-----------------------------------------------------------------------------
(***************************************************************************)
(* The pool's deadlines, for one request at a time and no time between two *)
(* statements of complete().  A resource is closed for a while only with   *)
(* the time its circuit has left, which the frame carries from the circuit *)
(* to the pool (ReportReady); and a candidate's circuit is open, or closed *)
(* by a quota observation since the route (CircuitsAhead).                 *)
(***************************************************************************)
Due(h) == h.until \notin {None, 0}

Outage(kind) == kind # "invalid_request" /\ ReportedHealth(kind) \in TransientHealth

UsableStates == OpenStates \cup {"quota_exhausted"}

ReportReady(t) ==
    LET h == health[req[t].provider]
    IN  /\ At(t, "refused") =>
             \/ h.state = "rate_limited" /\ Due(h)
             \/ h.state = "quota_exhausted" /\ h.until # 0
        /\ At(t, "project") /\ Outage(req[t].kind) => Due(h)
        /\ At(t, "report") /\ req[t].status # "succeeded" /\ Outage(req[t].kind)
             => Due(h) /\ req[t].retry = h.until

CircuitsAhead ==
    \A t \in Threads, p \in Providers : Ahead(t, p) => health[p].state \in UsableStates

\* A resource r and its circuit h that are both in a cooldown end it together.
Agree(r, h) ==
    r.health \in TransientHealth /\ h.state \in {"rate_limited", "cooldown"}
      => r.until = h.until

PoolAgrees == \A p \in Providers : Agree(pool[p], health[p])

DeadlineInv ==
    /\ \A t \in Threads : ReportReady(t)
    /\ CircuitsAhead
    /\ PoolAgrees

-----------------------------------------------------------------------------
(***************************************************************************)
(* The operations on one circuit and one resource.                         *)
(***************************************************************************)
LEMMA UsableKept ==
    ASSUME NEW h \in Health, h.state \in UsableStates
    PROVE  /\ Refreshed(h).state \in UsableStates
           /\ Elapse(h).state \in UsableStates
           /\ \A remaining, reset : AfterQuota(h, remaining, reset).state \in UsableStates
<1>1. \A g : Recovered(g) \in UsableStates
  BY DEF Recovered, UsableStates, OpenStates
<1>2. Refreshed(h).state \in UsableStates
  BY <1>1 DEF Refreshed, Health
<1>3. Elapse(h).state \in UsableStates
  BY DEF Elapse, Health
<1>4. ASSUME NEW remaining, NEW reset
      PROVE  AfterQuota(h, remaining, reset).state \in UsableStates
  <2> DEFINE q == [Refreshed(h) EXCEPT !.quota = remaining]
  <2>1. q.state \in UsableStates /\ "state" \in DOMAIN q /\ "until" \in DOMAIN q
    BY <1>2 DEF Refreshed, Health
  <2> HIDE DEF q
  <2>2. AfterQuota(h, remaining, reset)
          = IF QuotaSpent(q)
            THEN [q EXCEPT !.state = "quota_exhausted",
                           !.until = IF reset = None THEN @ ELSE reset]
            ELSE IF q.state = "quota_exhausted"
                 THEN [q EXCEPT !.until = None, !.state = Recovered(q)]
                 ELSE q
    BY DEF AfterQuota, q
  <2> QED
    BY <1>1, <2>1, <2>2 DEF UsableStates
<1> QED
  BY <1>2, <1>3, <1>4

LEMMA DueKept ==
    ASSUME NEW h, h.until # 0
    PROVE  Refreshed(h) = h
BY DEF Refreshed

\* A refusal for the limit leaves a deadline to come, one for the quota none that is due.
LEMMA WindowIsDue ==
    ASSUME NEW h \in Health
    PROVE  WindowRefused(h).state = "rate_limited" /\ Due(WindowRefused(h))
<1> DEFINE w == CurrentWindow(h)
<1>1. /\ w.age \in 0 .. (RateWindow - 1)
      /\ "state" \in DOMAIN w /\ "until" \in DOMAIN w
  BY CooldownAssumption, NoneAssumption DEF CurrentWindow, Health, Optional
<1>2. RateWindow - w.age \in Nat \ {0}
  BY <1>1, CooldownAssumption
<1> HIDE DEF w
<1>3. WindowRefused(h) = [w EXCEPT !.state = "rate_limited",
                                   !.until = RateWindow - w.age]
  BY DEF WindowRefused, w
<1> QED
  BY <1>1, <1>2, <1>3, NoneAssumption DEF Due

LEMMA RefusalsAreDue ==
    ASSUME NEW h \in Health, h.until # 0
    PROVE  /\ LimitRefused(h).state = "rate_limited" /\ Due(LimitRefused(h))
           /\ QuotaRefused(h).state = "quota_exhausted" /\ QuotaRefused(h).until # 0
<1>1. LimitRefused(h).state = "rate_limited" /\ LimitRefused(h).until = RateWindow
  BY DEF LimitRefused, Health
<1>2. QuotaRefused(h).state = "quota_exhausted" /\ QuotaRefused(h).until = h.until
  BY DEF QuotaRefused, Health
<1> QED
  BY <1>1, <1>2, CooldownAssumption, NoneAssumption DEF Due

LEMMA OutagesAreDue ==
    ASSUME NEW h \in Health, Consistent(h), NEW kind \in FailureKinds, Outage(kind),
           NEW retry \in Optional(Nat)
    PROVE  Due(AfterFailure(h, kind, retry))
<1> DEFINE r == Refreshed(h)
           n == IF r.failures < CircuitBreakerFailures THEN r.failures + 1
                                                       ELSE r.failures
           c == FailedCooldown(kind, n, retry)
<1>1. kind \in {"rate_limit", "network", "provider_unavailable"}
  BY DEF Outage, ReportedHealth, TransientHealth, FailureKinds
<1>2. c \in Nat \ {0}
  BY <1>1, CooldownAssumption, NoneAssumption
     DEF FailedCooldown, Transient, OrDefault, Optional
<1>3. "until" \in DOMAIN r
  BY RefreshedOK DEF Health
<1> HIDE DEF r, n, c
<1>4. AfterFailure(h, kind, retry).until = c
  BY <1>2, <1>3, NoneAssumption DEF AfterFailure, r, n, c
<1> QED
  BY <1>2, <1>4, NoneAssumption DEF Due

LEMMA AgreeKept ==
    ASSUME NEW r \in Resource, NEW h \in Health, Agree(r, h)
    PROVE  /\ Agree(ElapseResource(r), Elapse(h))
           /\ Agree(Reopened(r), Refreshed(h))
           /\ Agree(Reopened(r), h)
           /\ \A remaining, reset : Agree(r, AfterQuota(h, remaining, reset))
<1>1. Agree(ElapseResource(r), Elapse(h))
  BY DEF Agree, ElapseResource, Elapse, Resource, Health
<1>2. Agree(Reopened(r), h)
  BY DEF Agree, Reopened, TransientHealth
<1>3. /\ \A g : Recovered(g) \notin {"rate_limited", "cooldown"}
      /\ Refreshed(h).state \in {"rate_limited", "cooldown"} => Refreshed(h) = h
  BY DEF Recovered, Refreshed, CoolingStates, Health
<1>4. ASSUME NEW remaining, NEW reset
      PROVE  Agree(r, AfterQuota(h, remaining, reset))
  <2> DEFINE q == [Refreshed(h) EXCEPT !.quota = remaining]
  <2>1. /\ "state" \in DOMAIN q
        /\ q.state = Refreshed(h).state /\ q.until = Refreshed(h).until
    BY DEF Refreshed, Health
  <2> HIDE DEF q
  <2>2. AfterQuota(h, remaining, reset)
          = IF QuotaSpent(q)
            THEN [q EXCEPT !.state = "quota_exhausted",
                           !.until = IF reset = None THEN @ ELSE reset]
            ELSE IF q.state = "quota_exhausted"
                 THEN [q EXCEPT !.until = None, !.state = Recovered(q)]
                 ELSE q
    BY DEF AfterQuota, q
  <2> QED
    BY <1>3, <2>1, <2>2 DEF Agree
<1> QED
  BY <1>1, <1>2, <1>3, <1>4 DEF Agree

LEMMA RefreshedAgrees ==
    ASSUME NEW r, NEW h \in Health, Agree(r, h)
    PROVE  Agree(r, Refreshed(h))
BY DEF Agree, Refreshed, Recovered, CoolingStates, Health

\* What is schedulable is not in a cooldown, so nothing has to agree with it.
LEMMA SchedulableAgrees ==
    ASSUME NEW r, Schedulable(r), NEW h
    PROVE  Agree(r, h)
BY DEF Agree, Schedulable, Unschedulable, TransientHealth

-----------------------------------------------------------------------------
(***************************************************************************)
(* A request's steps.  But for its reports, one changes no more than the   *)
(* circuit of a provider it has in hand, off its list.                     *)
(***************************************************************************)
OneCircuit(t) ==
    /\ UNCHANGED pool
    /\ \/ UNCHANGED health
       \/ \E q \in Providers, h \in Health :
            /\ Engaged(t, q)
            /\ q \notin req'[t].todo
            /\ health' = [health EXCEPT ![q] = h]

LEMMA ReserveTouchesOne ==
    ASSUME LoneInv, NEW t \in Threads, Reserve(t)
    PROVE  OneCircuit(t)
<1>1. PICK q \in req[t].todo \cap Adapters, place \in {"refused", "calling", "window"} :
        Take(t, q, place) /\ \E h : health' = [health EXCEPT ![q] = h]
  BY Zenon DEF Reserve
<1>2. req[t] \in Request /\ q \in Providers /\ req[t].at = "pick"
  BY DEF LoneInv, TypeInv, TypeOK, Request, Reserve, At
<1>3. req'[t].todo = req[t].todo \ {q}
  BY <1>1, <1>2 DEF Take, LoneInv, TypeInv, TypeOK, Request
<1>4. TypeInv'
  BY ReserveTyped DEF LoneInv
<1>5. health'[q] \in Health /\ health' = [health EXCEPT ![q] = health'[q]]
  BY <1>1, <1>2, <1>4 DEF LoneInv, TypeInv, TypeOK
<1>6. Engaged(t, q)
  BY <1>2 DEF Engaged, Ahead, At
<1> QED
  BY <1>2, <1>3, <1>5, <1>6 DEF OneCircuit, Reserve

LEMMA RegistryTouchesOne ==
    ASSUME LoneInv, NEW t \in Threads,
           \/ ReserveInWindow(t) \/ ClassifyRefusal(t) \/ ReadCooldown(t)
           \/ RecordSuccess(t) \/ RecordFailure(t)
    PROVE  OneCircuit(t)
<1> DEFINE q == req[t].provider
<1>1. /\ req[t] \in Request /\ FrameOK(req[t]) /\ RequestOK(req[t])
      /\ req[t].at \in {"window", "refused", "project", "record"}
  BY DEF LoneInv, TypeInv, TypeOK, RequestInv, ReserveInWindow, ClassifyRefusal,
     ReadCooldown, RecordSuccess, RecordFailure, At
<1>2. q \in Providers /\ Engaged(t, q) /\ q \notin req[t].todo
  BY <1>1 DEF FrameOK, RequestOK, Engaged, InHandOf
<1>3. req'[t].todo = req[t].todo
  BY <1>1, RegistryMoves DEF Moves, Chooses, LoneInv
<1>4. \E h : health' = [health EXCEPT ![q] = h]
  BY DEF ReserveInWindow, ClassifyRefusal, ReadCooldown, RecordSuccess, RecordFailure
<1>5. health' \in [Providers -> Health]
  BY WindowTyped, ClassifyTyped, RecordTyped DEF LoneInv, TypeInv, TypeOK
<1>6. health'[q] \in Health /\ health' = [health EXCEPT ![q] = health'[q]]
  BY <1>2, <1>4, <1>5 DEF LoneInv, TypeInv, TypeOK
<1>7. UNCHANGED pool
  BY DEF ReserveInWindow, ClassifyRefusal, ReadCooldown, RecordSuccess, RecordFailure
<1> HIDE DEF q
<1> QED
  BY <1>2, <1>3, <1>6, <1>7 DEF OneCircuit

LEMMA AheadShrinks ==
    ASSUME TypeInv, NEW t \in Threads, Advance(t), NEW p \in Providers, Ahead(t, p)'
    PROVE  Ahead(t, p)
<1>1. Moves(req[t], req'[t])
  BY EveryAdvanceMoves
<1> QED
  BY <1>1 DEF Moves, Chooses, Follows, Ahead, At

LEMMA OneCircuitKeeps ==
    ASSUME LoneCaller, LoneInv, DeadlineInv, NEW t \in Threads, Advance(t), OneCircuit(t)
    PROVE  CircuitsAhead' /\ PoolAgrees'
<1>1. CircuitsAhead'
  <2> SUFFICES ASSUME NEW p \in Providers, Ahead(t, p)'
               PROVE  health'[p].state \in UsableStates
    BY DEF CircuitsAhead, LoneCaller
  <2>1. Ahead(t, p) /\ p \in req'[t].todo
    BY AheadShrinks DEF LoneInv, Ahead
  <2>2. health'[p] = health[p]
    BY <2>1 DEF OneCircuit, LoneInv, TypeInv, TypeOK
  <2> QED
    BY <2>1, <2>2 DEF DeadlineInv, CircuitsAhead
<1>2. PoolAgrees'
  <2> SUFFICES ASSUME NEW p \in Providers PROVE Agree(pool'[p], health'[p])
    BY DEF PoolAgrees
  <2>1. pool'[p] = pool[p] /\ (Schedulable(pool[p]) \/ health'[p] = health[p])
    BY DEF OneCircuit, LoneInv, TypeInv, TypeOK, EngagedAreSchedulable
  <2> QED
    BY <2>1, SchedulableAgrees DEF DeadlineInv, PoolAgrees
<1> QED
  BY <1>1, <1>2

\* What the frame carries after a step on the circuit of q.
LEMMA RegistryReady ==
    ASSUME LoneCaller, LoneInv, DeadlineInv, NEW t \in Threads,
           \/ Reserve(t) \/ ReserveInWindow(t) \/ ClassifyRefusal(t) \/ ReadCooldown(t)
           \/ RecordSuccess(t) \/ RecordFailure(t)
    PROVE  ReportReady(t)'
<1>1. req[t] \in Request /\ FrameOK(req[t]) /\ ReportReady(t)
  BY DEF LoneInv, TypeInv, TypeOK, DeadlineInv
<1>2. \A p \in Providers : health[p] \in Health /\ Consistent(health[p])
  BY DEF LoneInv, TypeInv, TypeOK, CircuitConsistent
<1>3. CASE Reserve(t)
  <2>1. PICK q \in req[t].todo \cap Adapters :
          LET h == Refreshed(health[q])
          IN  \/ /\ h.state \notin OpenStates
                 /\ health' = [health EXCEPT ![q] = h]
                 /\ Take(t, q, "refused")
              \/ /\ h.state \in OpenStates
                 /\ QuotaSpent(h)
                 /\ health' = [health EXCEPT ![q] = QuotaRefused(h)]
                 /\ Take(t, q, "refused")
              \/ /\ Routable(h)
                 /\ RateLimit[q] = None
                 /\ health' = [health EXCEPT ![q] = h]
                 /\ Take(t, q, "calling")
              \/ /\ Routable(h)
                 /\ RateLimit[q] = 0
                 /\ health' = [health EXCEPT ![q] = LimitRefused(h)]
                 /\ Take(t, q, "refused")
              \/ /\ Routable(h)
                 /\ RateLimit[q] \notin {None, 0}
                 /\ health' = [health EXCEPT ![q] = h]
                 /\ Take(t, q, "window")
    BY <1>3 DEF Reserve
  <2> DEFINE h == Refreshed(health[q])
  <2>2. q \in Providers /\ Ahead(t, q)
    BY <1>1, <1>3 DEF Reserve, At, Ahead, Request
  <2>3. h \in Health /\ Consistent(h) /\ h.state \in UsableStates
    BY <1>2, <2>2, RefreshedOK, UsableKept DEF DeadlineInv, CircuitsAhead
  <2>4. h.until # 0
    BY NoneAssumption DEF Refreshed
  <2>5. PICK place \in {"refused", "calling", "window"} :
          /\ Take(t, q, place)
          /\ place = "refused" =>
               \/ h.state \notin OpenStates /\ health'[q] = h
               \/ health'[q] \in {QuotaRefused(h), LimitRefused(h)}
    BY <2>1, <2>2 DEF LoneInv, TypeInv, TypeOK
  <2>6. req'[t].provider = q /\ req'[t].at = place
    BY <1>1, <2>5 DEF Take, LoneInv, TypeInv, TypeOK, Request
  <2>7. place = "refused" =>
          \/ health'[q].state = "rate_limited" /\ Due(health'[q])
          \/ health'[q].state = "quota_exhausted" /\ health'[q].until # 0
    BY <2>3, <2>4, <2>5, RefusalsAreDue DEF UsableStates
  <2> QED
    BY <2>6, <2>7 DEF ReportReady, At, Due
<1> DEFINE p == req[t].provider
<1>4. CASE ReserveInWindow(t)
  <2>1. p \in Providers /\ req'[t].provider = p /\ req'[t].at \in {"refused", "calling"}
    BY <1>1, <1>4 DEF ReserveInWindow, At, FrameOK, LoneInv, TypeInv, TypeOK, Request
  <2>2. req'[t].at = "refused" => health'[p] = WindowRefused(health[p])
    BY <1>1, <1>4, <2>1 DEF ReserveInWindow, LoneInv, TypeInv, TypeOK, Request
  <2>3. Due(WindowRefused(health[p])) /\ WindowRefused(health[p]).state = "rate_limited"
    BY <1>2, <2>1, WindowIsDue
  <2> QED
    BY <2>1, <2>2, <2>3 DEF ReportReady, At, Due
<1>5. CASE ClassifyRefusal(t)
  <2>1. p \in Providers /\ health[p].until # 0
    BY <1>1, <1>5 DEF ClassifyRefusal, At, FrameOK, ReportReady, Due
  <2>2. Refreshed(health[p]) = health[p] /\ health'[p] = health[p]
    BY <1>5, <2>1, DueKept DEF ClassifyRefusal, LoneInv, TypeInv, TypeOK
  <2>3. /\ req'[t].provider = p /\ req'[t].at = "project"
        /\ req'[t].kind = IF health[p].state = "quota_exhausted" THEN "quota"
                                                                 ELSE "rate_limit"
    BY <1>1, <1>5, <2>2 DEF ClassifyRefusal, LoneInv, TypeInv, TypeOK, Request
  <2>4. ~Outage("quota")
    BY DEF Outage, ReportedHealth, TransientHealth
  <2> QED
    BY <1>1, <1>5, <2>2, <2>3, <2>4 DEF ClassifyRefusal, ReportReady, At, Due
<1>6. CASE ReadCooldown(t)
  <2>1. p \in Providers /\ (Outage(req[t].kind) => Due(health[p]))
    BY <1>1, <1>6 DEF ReadCooldown, At, FrameOK, ReportReady
  <2>2. Due(health[p]) => Refreshed(health[p]) = health[p] /\ health'[p] = health[p]
    BY <1>6, <2>1, DueKept DEF ReadCooldown, Due, LoneInv, TypeInv, TypeOK
  <2>3. /\ req'[t].provider = p /\ req'[t].at = "report"
        /\ req'[t].kind = req[t].kind
        /\ req'[t].retry = Refreshed(health[p]).until
    BY <1>1, <1>6 DEF ReadCooldown, LoneInv, TypeInv, TypeOK, Request
  <2> QED
    BY <2>1, <2>2, <2>3 DEF ReportReady, At, Due
<1>7. CASE RecordSuccess(t)
  <2>1. req'[t].at = "report" /\ req'[t].status = "succeeded"
    BY <1>1, <1>7 DEF RecordSuccess, LoneInv, TypeInv, TypeOK, Request
  <2> QED
    BY <2>1 DEF ReportReady, At
<1>8. CASE RecordFailure(t)
  <2>1. p \in Providers /\ req[t].kind \in FailureKinds /\ req[t].retry \in Optional(Nat)
    BY <1>1, <1>8 DEF RecordFailure, At, FrameOK, Request
  <2>2. /\ req'[t].provider = p /\ req'[t].at = "project" /\ req'[t].kind = req[t].kind
        /\ health'[p] = AfterFailure(health[p], req[t].kind, req[t].retry)
    BY <1>1, <1>8, <2>1 DEF RecordFailure, LoneInv, TypeInv, TypeOK, Request
  <2>3. Outage(req[t].kind) => Due(health'[p])
    BY <1>2, <2>1, <2>2, OutagesAreDue
  <2> QED
    BY <2>2, <2>3 DEF ReportReady, At, Due
<1> QED
  BY <1>3, <1>4, <1>5, <1>6, <1>7, <1>8

\* The steps that leave both registries alone are at no place with something to carry.
LEMMA OthersReady ==
    ASSUME LoneInv, NEW t \in Threads,
           GiveUp(t) \/ SkipCandidate(t) \/ Return(t) \/ Account(t) \/ AccountRaises(t)
    PROVE  ReportReady(t)' /\ OneCircuit(t)
<1>1. Moves(req[t], req'[t]) /\ req[t].at \in {"pick", "calling", "usage"}
  BY ChoosingMoves, CallMoves DEF LoneInv, GiveUp, SkipCandidate, Return, Account,
     AccountRaises, At
<1>2. req'[t].at \in {"idle", "pick", "record"}
  <2>1. CASE GiveUp(t) \/ SkipCandidate(t)
    <3>1. req[t] \in Request /\ req[t].at = "pick"
      BY <2>1 DEF GiveUp, SkipCandidate, At, LoneInv, TypeInv, TypeOK
    <3> QED
      BY <2>1, <3>1 DEF GiveUp, SkipCandidate, LoneInv, TypeInv, TypeOK, Request
  <2>2. CASE Return(t) \/ Account(t) \/ AccountRaises(t)
    BY <1>1, <2>2 DEF Moves, Chooses, Follows, Return, Account, AccountRaises, At
  <2> QED
    BY <2>1, <2>2
<1>3. UNCHANGED <<health, pool>>
  BY DEF GiveUp, SkipCandidate, Return, Account, AccountRaises
<1> QED
  BY <1>2, <1>3 DEF ReportReady, At, OneCircuit

\* A report hands the time the circuit has left to the pool.
LEMMA ReportDeadlines ==
    ASSUME LoneCaller, LoneInv, DeadlineInv, NEW t \in Threads,
           ReportSuccess(t) \/ ReportFailure(t)
    PROVE  /\ DeadlineInv'
           /\ \A p \in Providers :
                \/ pool'[p] = pool[p]
                \/ pool'[p].health \notin TransientHealth
                \/ pool'[p].until # None
<1> DEFINE q == req[t].provider
<1>1. /\ req[t] \in Request /\ FrameOK(req[t]) /\ ReportReady(t)
      /\ req[t].at = "report" /\ UNCHANGED health
  BY DEF LoneInv, TypeInv, TypeOK, DeadlineInv, ReportSuccess, ReportFailure, At
<1>2. /\ q \in Providers /\ InHandOf(t, q)
      /\ \A p \in Providers \ {q} : pool'[p] = pool[p]
      /\ ReportSuccess(t) => pool'[q] = AppliedSuccess(pool[q])
      /\ ReportFailure(t) =>
           pool'[q] = AppliedFailure(pool[q], req[t].kind, req[t].retry)
  BY ReportsTouchOne DEF LoneInv
<1>3. req'[t].at \in {"usage", "pick"}
  BY <1>1, RegistryMoves DEF Moves, Chooses, Follows, LoneInv
<1>4. \A u \in Threads : ReportReady(u)'
  BY <1>3 DEF ReportReady, At, LoneCaller
<1>5. CircuitsAhead'
  <2>1. Advance(t)
    BY DEF Advance
  <2> QED
    BY <1>1, <2>1, AheadShrinks DEF CircuitsAhead, DeadlineInv, LoneCaller, LoneInv
<1>6. /\ Agree(pool'[q], health[q])
      /\ \/ pool'[q] = pool[q]
         \/ pool'[q].health \notin TransientHealth
         \/ pool'[q].until # None
  <2>1. CASE ReportSuccess(t)
    BY <1>2, <2>1 DEF AppliedSuccess, TransientHealth, Agree
  <2>2. CASE ReportFailure(t)
    <3>1. pool'[q] = AppliedFailure(pool[q], req[t].kind, req[t].retry)
      BY <1>2, <2>2
    <3>2. CASE req[t].kind = "invalid_request"
      <4>1. pool[q] \in Resource /\ Schedulable(pool[q])
        BY <1>2 DEF Engaged, EngagedAreSchedulable, LoneInv, TypeInv, TypeOK
      <4>2. pool'[q] = pool[q]
        BY <3>1, <3>2, <4>1, StaysSchedulable DEF AppliedFailure
      <4> QED
        BY <4>1, <4>2, SchedulableAgrees
    <3>3. CASE req[t].kind # "invalid_request"
      <4>1. pool'[q] = [health |-> ReportedHealth(req[t].kind), until |-> req[t].retry]
        BY <3>1, <3>3 DEF AppliedFailure
      <4>2. req[t].status # "succeeded"
        BY <2>2 DEF ReportFailure
      <4>3. CASE Outage(req[t].kind)
        BY <1>1, <4>1, <4>2, <4>3 DEF ReportReady, At, Due, Agree
      <4>4. CASE ~Outage(req[t].kind)
        BY <3>3, <4>1, <4>4 DEF Outage, Agree
      <4> QED
        BY <4>3, <4>4
    <3> QED
      BY <3>2, <3>3
  <2> QED
    BY <2>1, <2>2
<1> HIDE DEF q
<1> QED
  BY <1>1, <1>2, <1>4, <1>5, <1>6 DEF DeadlineInv, PoolAgrees

LEMMA AdvanceDeadlines ==
    ASSUME LoneCaller, LoneInv, DeadlineInv, NEW t \in Threads, Advance(t)
    PROVE  DeadlineInv'
<1>1. CASE ReportSuccess(t) \/ ReportFailure(t)
  BY <1>1, ReportDeadlines
<1>2. CASE ~(ReportSuccess(t) \/ ReportFailure(t))
  <2>1. ReportReady(t)' /\ OneCircuit(t)
    BY <1>2, RegistryReady, OthersReady, ReserveTouchesOne, RegistryTouchesOne DEF Advance
  <2>2. \A u \in Threads : ReportReady(u)'
    BY <2>1 DEF LoneCaller
  <2> QED
    BY <2>1, <2>2, OneCircuitKeeps DEF DeadlineInv
<1> QED
  BY <1>1, <1>2

LEMMA RouteDeadlines ==
    ASSUME LoneCaller, LoneInv, DeadlineInv, NEW t \in Threads, Route(t)
    PROVE  DeadlineInv'
<1>1. TypeInv
  BY DEF LoneInv
<1>2. \A u \in Threads : ReportReady(u)'
  BY <1>1, RouteSchedules DEF LoneCaller, ReportReady, At
<1>3. CircuitsAhead'
  BY <1>1, RouteSchedules DEF LoneCaller, CircuitsAhead, UsableStates
<1>4. ASSUME NEW p \in Providers PROVE Agree(pool'[p], health'[p])
  <2>1. pool[p] \in Resource /\ health[p] \in Health /\ Agree(pool[p], health[p])
    BY <1>1 DEF TypeInv, TypeOK, DeadlineInv, PoolAgrees
  <2>2. pool'[p] \in {pool[p], Reopened(pool[p])}
    BY <1>1, RouteSchedules
  <2>3. CASE health'[p] = health[p]
    BY <2>1, <2>2, <2>3, AgreeKept
  <2>4. CASE health'[p] = Refreshed(health[p]) /\ pool'[p] = Reopened(pool[p])
    BY <2>1, <2>4, AgreeKept
  <2>5. CASE health'[p] = Refreshed(health[p]) /\ pool'[p] = pool[p]
    BY <2>1, <2>5, RefreshedAgrees
  <2> QED
    BY <1>1, <2>2, <2>3, <2>4, <2>5, RouteSchedules
<1> QED
  BY <1>2, <1>3, <1>4 DEF DeadlineInv, PoolAgrees

(***************************************************************************)
(* Time, quota observations and reads.  Only a read may come while the     *)
(* frame carries something, and it finds no deadline that is due.          *)
(***************************************************************************)
LEMMA EnvironmentDeadlines ==
    ASSUME ~Interleaved, LoneInv, DeadlineInv,
           Tick \/ Snapshot \/ \E p \in Providers : ObserveQuota(p)
    PROVE  DeadlineInv'
<1>1. UNCHANGED req
  BY DEF Tick, Snapshot, ObserveQuota
<1>2. ASSUME NEW p \in Providers
      PROVE  /\ health[p] \in Health /\ pool[p] \in Resource
             /\ Agree(pool[p], health[p])
             /\ \/ /\ health'[p] = Elapse(health[p])
                   /\ pool'[p] = ElapseResource(pool[p])
                \/ /\ health'[p] = Refreshed(health[p])
                   /\ pool'[p] = Reopened(pool[p])
                \/ /\ \/ health'[p] = health[p]
                      \/ \E remaining, reset :
                           health'[p] = AfterQuota(health[p], remaining, reset)
                   /\ pool'[p] = pool[p]
  BY DEF Tick, Snapshot, CircuitsRead, PoolRead, ObserveQuota, LoneInv, TypeInv,
     TypeOK, DeadlineInv, PoolAgrees
<1>3. PoolAgrees'
  BY <1>2, AgreeKept DEF PoolAgrees
<1>4. CircuitsAhead'
  <2> SUFFICES ASSUME NEW t \in Threads, NEW p \in Providers, Ahead(t, p)'
               PROVE  health'[p].state \in UsableStates
    BY DEF CircuitsAhead
  <2>1. health[p].state \in UsableStates
    BY <1>1 DEF DeadlineInv, CircuitsAhead, Ahead, At
  <2> QED
    BY <1>2, <2>1, UsableKept
<1>5. ASSUME NEW t \in Threads PROVE ReportReady(t)'
  <2>1. CASE Snapshot
    <3> DEFINE p == req[t].provider
    <3>1. ReportReady(t) /\ FrameOK(req[t])
      BY DEF DeadlineInv, LoneInv, TypeInv
    <3>2. ASSUME p \in Providers, health[p].until # 0
          PROVE  health'[p] = health[p]
      BY <2>1, <3>2, DueKept DEF Snapshot, CircuitsRead
    <3> QED
      BY <1>1, <3>1, <3>2 DEF ReportReady, FrameOK, At, Due
  <2>2. CASE Settled
    <3>1. req[t].at \in {"idle", "calling"}
      BY <2>2 DEF Settled
    <3> QED
      BY <1>1, <3>1 DEF ReportReady, At
  <2> QED
    BY <2>1, <2>2 DEF Tick, ObserveQuota
<1> QED
  BY <1>3, <1>4, <1>5 DEF DeadlineInv

LEMMA DeadlineInvHolds ==
    ASSUME LoneCaller, ~Interleaved
    PROVE  /\ Init => DeadlineInv
           /\ LoneInv /\ DeadlineInv /\ [Next]_vars => DeadlineInv'
<1>1. ASSUME Init PROVE DeadlineInv
  <2>1. \A t \in Threads : At(t, "idle")
    BY <1>1 DEF Init, NewRequest, At
  <2>2. \A p \in Providers : health[p].state = "healthy"
    BY <1>1 DEF Init, NewHealth
  <2>3. \A t \in Threads : ReportReady(t)
    BY <2>1 DEF ReportReady, At
  <2> QED
    BY <2>1, <2>2, <2>3 DEF DeadlineInv, CircuitsAhead, Ahead, PoolAgrees, Agree
<1>2. ASSUME LoneInv, DeadlineInv, UNCHANGED vars PROVE DeadlineInv'
  BY <1>2 DEF vars, DeadlineInv, ReportReady, CircuitsAhead, PoolAgrees, Ahead, At
<1>3. ASSUME LoneInv, DeadlineInv, Next PROVE DeadlineInv'
  BY <1>3, AdvanceDeadlines, RouteDeadlines, EnvironmentDeadlines DEF Next
<1> QED
  BY <1>1, <1>2, <1>3

(***************************************************************************)
(* "The remaining cooldown is projected into the canonical Resource Pool   *)
(* instead of starting a second independent timer": a resource and its     *)
(* circuit that are both in a cooldown reopen together.  Of the requests   *)
(* there may be one at a time, and quota observations come as they like.   *)
(***************************************************************************)
THEOREM DeadlinesAreProjected ==
    ASSUME LoneCaller, ~Interleaved
    PROVE  Spec => []ProjectedDeadline
<1>1. DeadlineInv => ProjectedDeadline
  BY DEF DeadlineInv, PoolAgrees, Agree, ProjectedDeadline
<1> QED
  BY <1>1, LoneInvHolds, DeadlineInvHolds, PTL DEF Spec

(***************************************************************************)
(* "Transient provider states carry an explicit cooldown_until": whatever  *)
(* the startup probes left, no step closes a resource for a while without  *)
(* a deadline.  Of the requests there may be one at a time, and quota      *)
(* observations come as they like.                                         *)
(***************************************************************************)
THEOREM TransientsHaveDeadlines ==
    ASSUME LoneCaller, ~Interleaved
    PROVE  Spec => TransientsComeWithDeadlines
<1>1. ASSUME LoneInv, DeadlineInv, [Next]_vars
      PROVE  [\A p \in Providers :
                pool'[p].health \in TransientHealth /\ pool'[p].until = None
                  => pool'[p] = pool[p]]_vars
  <2> SUFFICES ASSUME NEW p \in Providers,
                      pool'[p].health \in TransientHealth, pool'[p].until = None
               PROVE  pool'[p] = pool[p]
    OBVIOUS
  <2>1. pool[p] \in Resource
    BY <1>1 DEF LoneInv, TypeInv, TypeOK
  <2>2. CASE pool'[p] \in {pool[p], Reopened(pool[p]), ElapseResource(pool[p])}
    <3>1. Reopened(pool[p]).health \in TransientHealth => Reopened(pool[p]) = pool[p]
      BY <2>1 DEF Reopened, TransientHealth
    <3>2. ElapseResource(pool[p]).until = None => ElapseResource(pool[p]) = pool[p]
      BY <2>1, NoneAssumption DEF ElapseResource, Resource, Optional
    <3> QED
      BY <2>2, <3>1, <3>2
  <2>3. ASSUME NEW t \in Threads, ReportSuccess(t) \/ ReportFailure(t)
        PROVE  pool'[p] = pool[p]
    BY <1>1, <2>3, ReportDeadlines
  <2>4. ASSUME NEW t \in Threads, Route(t)
        PROVE  pool'[p] \in {pool[p], Reopened(pool[p])}
    BY <1>1, <2>4, RouteSchedules DEF LoneInv
  <2>5. CASE Tick \/ Snapshot
    BY <2>5, <2>2 DEF Tick, Snapshot, PoolRead
  <2> QED
    BY <1>1, <2>2, <2>3, <2>4, <2>5
       DEF Next, Advance, GiveUp, SkipCandidate, Reserve, ReserveInWindow,
           ClassifyRefusal, Return, RecordSuccess, RecordFailure, ReadCooldown, Account,
           AccountRaises, ObserveQuota, vars
<1> QED
  BY <1>1, LoneInvHolds, DeadlineInvHolds, PTL DEF Spec, TransientsComeWithDeadlines
=============================================================================
