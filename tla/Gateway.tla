-------------------------------- MODULE Gateway --------------------------------
(***************************************************************************)
(* IntelligenceGateway.complete (intelligence/gateway.py) as the threads   *)
(* of the HTTP server run it: they share one gateway, its ProviderRegistry *)
(* (health) and its Resource Pool (pool), and take no lock.  A step is the *)
(* code one thread runs between two calls at which another may take over.  *)
(***************************************************************************)
EXTENDS ProviderRegistry, ResourceState, Sequences

CONSTANTS
    Threads,           \* the server's request threads
    Providers,         \* the registered providers
    Adapters,          \* the providers the gateway holds an adapter for
    RateLimit,         \* [Providers -> rate_limit_per_minute]
    FirstQuota,        \* [Providers -> the descriptor's quota_remaining]
    ProbeResults,      \* the health a startup probe may leave in the pool
    Routes,            \* the sets of providers a request's capability and
                       \* policy can admit, whatever the providers' state
    BlankTask,         \* whether a request's task_id may be blank: a set of BOOLEAN
    FailureModes,      \* the failures an adapter may raise: [kind, retry]
    QuotaObservations, \* what update_quota may be told: [remaining, reset]
    Interleaved        \* whether time and quota observations may also fall
                       \* between two statements of complete()

ASSUME GatewayAssumption ==
    /\ Adapters \subseteq Providers
    /\ RateLimit \in [Providers -> Optional(Nat)]
    /\ FirstQuota \in [Providers -> Optional(Nat)]
    /\ ProbeResults \subseteq ResourceHealth
    /\ Routes \subseteq SUBSET Providers
    /\ BlankTask \subseteq BOOLEAN
    /\ FailureModes \subseteq [kind : FailureKinds, retry : Optional(Nat)]
    /\ QuotaObservations \subseteq [remaining : Optional(Nat), reset : Optional(Nat)]
    /\ Interleaved \in BOOLEAN

VARIABLES
    health,     \* ProviderRegistry._health
    pool,       \* ResourceRegistry._resources
    req,        \* each thread's frame of complete()
    refusal     \* history: each provider's last rate-limit refusal, with what is
                \* left of its cooldown and whether no other call was under way

vars == <<health, pool, req, refusal>>

(***************************************************************************)
(* A thread is idle, or where it is in the loop over its candidates:       *)
(*   pick     about to take the next candidate                             *)
(*   window   inside reserve_request, the state check passed               *)
(*   refused  reserve_request returned False                               *)
(*   calling  adapter.complete is in flight                                *)
(*   record   about to record the outcome in the registry                  *)
(*   project  about to read the cooldown left, for the pool                *)
(*   report   about to report to the pool                                  *)
(*   usage    about to account for the call                                *)
(***************************************************************************)
Places == {"idle", "pick", "window", "refused", "calling", "record",
           "project", "report", "usage"}

Statuses == {"none", "skipped", "succeeded", "failed"}
Results == {"none", "ok", "unavailable", "error"}
Outcomes == FailureKinds \cup {"success"}

\* One attempt or one adapter call, and one usage event.
Attempt == [provider : Providers, outcome : Outcomes]
UsageEvent == [provider : Providers, status : {"succeeded", "failed"}]

Request == [at       : Places,
            todo     : SUBSET Providers,   \* candidates not yet taken
            provider : Optional(Providers),
            status   : Statuses,           \* what became of the candidate
            kind     : Optional(FailureKinds),
            retry    : Optional(Nat),      \* retry_after_seconds
            blank    : BOOLEAN,            \* task_id is blank
            attempts : Seq(Attempt),
            events   : Seq(UsageEvent),    \* the request's part of the ledger
            calls    : Seq(Attempt),       \* history: adapter calls that returned
            result   : Results]

NewRequest == [at |-> "idle", todo |-> {}, provider |-> None, status |-> "none",
               kind |-> None, retry |-> None, blank |-> FALSE, attempts |-> <<>>,
               events |-> <<>>, calls |-> <<>>, result |-> "none"]

TypeOK ==
    /\ health \in [Providers -> Health]
    /\ pool \in [Providers -> Resource]
    /\ req \in [Threads -> Request]
    /\ refusal \in [Providers -> [left : Nat, alone : BOOLEAN]]

Init ==
    /\ health = [p \in Providers |-> NewHealth("healthy", FirstQuota[p])]
    /\ pool \in [Providers -> {Probed(h) : h \in ProbeResults}]
    /\ req = [t \in Threads |-> NewRequest]
    /\ refusal = [p \in Providers |-> [left |-> 0, alone |-> TRUE]]

At(t, place) == req[t].at = place

\* Thread t has a call to p under way: it may still record an outcome for it.  (A
\* success that cannot be accounted for comes back to be recorded as a failure.)
Using(t, p) ==
    /\ req[t].provider = p
    /\ \/ req[t].at \in {"window", "calling", "record"}
       \/ /\ req[t].at \in {"report", "usage"}
          /\ req[t].status = "succeeded"
          /\ req[t].blank

-----------------------------------------------------------------------------
\* IntelligenceRouter.route on the registries' current state: the pool is asked
\* first, and only then is the circuit refreshed and read.
Routable(h) == h.state \in OpenStates /\ ~QuotaSpent(h)

\* ResourcePoolBridge.rejection_reasons, for a provider a request can use: what is
\* left to reject it for is its health.
PoolRejects(r) == ~Schedulable(r)

\* The route of a request the providers in `admitted` could serve.  The order of
\* the candidates depends on latencies and scores, so any order is possible.
Route(t) ==
    /\ At(t, "idle")
    /\ \E admitted \in Routes, blank \in BlankTask :
         LET fresh == [p \in Providers |-> Reopened(pool[p])]
             allowed == {p \in admitted : ~PoolRejects(fresh[p])}
             circuit == [p \in Providers |-> IF p \in allowed
                                             THEN Refreshed(health[p])
                                             ELSE health[p]]
             candidates == {p \in allowed : Routable(circuit[p])}
         IN  /\ pool' = IF admitted = {} THEN pool ELSE fresh
             /\ health' = circuit
             /\ req' = [req EXCEPT ![t] =
                          [NewRequest EXCEPT
                             !.blank = blank,
                             !.todo = candidates,
                             !.at = IF candidates = {} THEN "idle" ELSE "pick",
                             !.result = IF candidates = {} THEN "unavailable"
                                                           ELSE "none"]]
    /\ UNCHANGED refusal

\* The loop ends without an answer.
GiveUp(t) ==
    /\ At(t, "pick")
    /\ req[t].todo = {}
    /\ req' = [req EXCEPT ![t].at = "idle", ![t].result = "unavailable"]
    /\ UNCHANGED <<health, pool, refusal>>

\* A candidate without an adapter is skipped.
SkipCandidate(t) ==
    /\ At(t, "pick")
    /\ \E p \in req[t].todo \ Adapters :
         req' = [req EXCEPT ![t].todo = @ \ {p}]
    /\ UNCHANGED <<health, pool, refusal>>

\* A bug: a refused candidate stays in the list.
TakeAgain(t, p, place) ==
    req' = [req EXCEPT ![t].todo = IF place = "refused" THEN @ ELSE @ \ {p},
                       ![t].provider = p,
                       ![t].status = IF place = "refused" THEN "skipped" ELSE "none",
                       ![t].kind = None, ![t].retry = None, ![t].at = place]

\* Thread t goes to `place` with candidate p.
Take(t, p, place) ==
    req' = [req EXCEPT ![t].todo = @ \ {p}, ![t].provider = p,
                       ![t].status = IF place = "refused" THEN "skipped" ELSE "none",
                       ![t].kind = None, ![t].retry = None, ![t].at = place]

\* reserve_request up to the rate window.
Reserve(t) ==
    /\ At(t, "pick")
    /\ \E p \in req[t].todo \cap Adapters :
         LET h == Refreshed(health[p])
         IN  \/ /\ h.state \notin OpenStates
                /\ health' = [health EXCEPT ![p] = h]
                /\ Take(t, p, "refused")
             \/ /\ h.state \in OpenStates
                /\ QuotaSpent(h)
                /\ health' = [health EXCEPT ![p] = QuotaRefused(h)]
                /\ Take(t, p, "refused")
             \/ /\ Routable(h)
                /\ RateLimit[p] = None
                /\ health' = [health EXCEPT ![p] = h]
                /\ Take(t, p, "calling")
             \/ /\ Routable(h)
                /\ RateLimit[p] = 0
                /\ health' = [health EXCEPT ![p] = LimitRefused(h)]
                /\ Take(t, p, "refused")
             \/ /\ Routable(h)
                /\ RateLimit[p] \notin {None, 0}
                /\ health' = [health EXCEPT ![p] = h]
                /\ Take(t, p, "window")
    /\ UNCHANGED <<pool, refusal>>

\* reserve_request's rate window.
ReserveInWindow(t) ==
    /\ At(t, "window")
    /\ LET p == req[t].provider
       IN  \/ /\ WindowFull(health[p], RateLimit[p])
              /\ health' = [health EXCEPT ![p] = WindowRefused(@)]
              /\ req' = [req EXCEPT ![t].at = "refused", ![t].status = "skipped"]
           \/ /\ ~WindowFull(health[p], RateLimit[p])
              /\ health' = [health EXCEPT ![p] = WindowTaken(@)]
              /\ req' = [req EXCEPT ![t].at = "calling"]
    /\ UNCHANGED <<pool, refusal>>

\* The kind a refusal is reported as, from the state the circuit is in by now.
ClassifyRefusal(t) ==
    /\ At(t, "refused")
    /\ LET p == req[t].provider
           h == Refreshed(health[p])
       IN  /\ health' = [health EXCEPT ![p] = h]
           /\ req' = [req EXCEPT
                        ![t].kind = IF h.state = "quota_exhausted" THEN "quota"
                                                                   ELSE "rate_limit",
                        ![t].at = "project"]
    /\ UNCHANGED <<pool, refusal>>

-----------------------------------------------------------------------------
\* adapter.complete returns, or raises one of the failures an adapter may raise.
Return(t) ==
    /\ At(t, "calling")
    /\ LET p == req[t].provider
       IN  \/ req' = [req EXCEPT
                        ![t].status = "succeeded", ![t].at = "record",
                        ![t].calls = Append(@, [provider |-> p, outcome |-> "success"])]
           \/ \E f \in FailureModes :
                req' = [req EXCEPT
                          ![t].status = "failed", ![t].at = "record",
                          ![t].kind = f.kind, ![t].retry = f.retry,
                          ![t].calls = Append(@, [provider |-> p, outcome |-> f.kind])]
    /\ UNCHANGED <<health, pool, refusal>>

RecordSuccess(t) ==
    /\ At(t, "record")
    /\ req[t].status = "succeeded"
    /\ health' = [health EXCEPT ![req[t].provider] = AfterSuccess(@)]
    /\ req' = [req EXCEPT ![t].at = "report"]
    /\ UNCHANGED <<pool, refusal>>

RecordFailure(t) ==
    /\ At(t, "record")
    /\ req[t].status = "failed"
    /\ LET p == req[t].provider
           h == AfterFailure(health[p], req[t].kind, req[t].retry)
       IN  /\ health' = [health EXCEPT ![p] = h]
           /\ refusal' = IF req[t].kind = "rate_limit"
                         THEN [refusal EXCEPT ![p] =
                                 [left |-> OrDefault(req[t].retry, RateLimitCooldown),
                                  alone |-> \A u \in Threads \ {t} : ~Using(u, p)]]
                         ELSE refusal
    /\ req' = [req EXCEPT ![t].at = "project"]
    /\ UNCHANGED pool

\* cooldown_remaining_seconds, the argument of the pool's record_failure.
ReadCooldown(t) ==
    /\ At(t, "project")
    /\ LET p == req[t].provider
           h == Refreshed(health[p])
       IN  /\ health' = [health EXCEPT ![p] = h]
           /\ req' = [req EXCEPT ![t].retry = h.until, ![t].at = "report"]
    /\ UNCHANGED <<pool, refusal>>

ReportSuccess(t) ==
    /\ At(t, "report")
    /\ req[t].status = "succeeded"
    /\ pool' = [pool EXCEPT ![req[t].provider] = AppliedSuccess(@)]
    /\ req' = [req EXCEPT ![t].at = "usage"]
    /\ UNCHANGED <<health, refusal>>

\* After a refusal the loop goes on; after a failed call the call is accounted for.
ReportFailure(t) ==
    /\ At(t, "report")
    /\ req[t].status \in {"failed", "skipped"}
    /\ pool' = [pool EXCEPT ![req[t].provider] =
                  AppliedFailure(@, req[t].kind, req[t].retry)]
    /\ req' = [req EXCEPT ![t].at = IF req[t].status = "failed" THEN "usage"
                                                                ELSE "pick"]
    /\ UNCHANGED <<health, refusal>>

\* A bug: a failure that is not retryable is retried elsewhere.
FinalOnAnswer(outcome) == outcome = "success"

\* The outcomes that end the loop: the answer, and a failure that is not retryable.
Final(outcome) == outcome \in {"success", "invalid_request"}

\* The ledger only ever grows.
Recorded(events, event) == Append(events, event)

\* A bug: only the calls that were answered are accounted for.
LedgerOfAnswers(r) ==
    IF r.status = "succeeded"
    THEN Recorded(r.events, [provider |-> r.provider, status |-> r.status])
    ELSE r.events

\* The ledger's events of request r with the one _record_usage adds.
Ledger(r) == Recorded(r.events, [provider |-> r.provider, status |-> r.status])

\* _record_usage, the attempt, and what the loop does next.
Account(t) ==
    /\ At(t, "usage")
    /\ ~req[t].blank
    /\ LET r == req[t]
           outcome == IF r.status = "succeeded" THEN "success" ELSE r.kind
       IN  req' = [req EXCEPT
                     ![t].events = Ledger(r),
                     ![t].attempts = Append(@, [provider |-> r.provider,
                                                outcome |-> outcome]),
                     ![t].at = IF Final(outcome) THEN "idle" ELSE "pick",
                     ![t].result = CASE outcome = "success" -> "ok"
                                     [] outcome = "invalid_request" -> "unavailable"
                                     [] OTHER -> @]
    /\ UNCHANGED <<health, pool, refusal>>

\* UsageEvent rejects a blank task_id.  Inside the try this makes the successful
\* call a provider_error; inside a handler the error leaves complete().
AccountRaises(t) ==
    /\ At(t, "usage")
    /\ req[t].blank
    /\ \/ /\ req[t].status = "succeeded"
          /\ req' = [req EXCEPT ![t].status = "failed", ![t].kind = "provider_error",
                                ![t].retry = None, ![t].at = "record"]
       \/ /\ req[t].status = "failed"
          /\ req' = [req EXCEPT ![t].at = "idle", ![t].result = "error"]
    /\ UNCHANGED <<health, pool, refusal>>

-----------------------------------------------------------------------------
\* Between two statements of complete() there is no time to speak of, unless the
\* instance says otherwise; a provider's answer always takes time.
Settled == Interleaved \/ \A t \in Threads : req[t].at \in {"idle", "calling"}

Tick ==
    /\ Settled
    /\ health' = [p \in Providers |-> Elapse(health[p])]
    /\ pool' = [p \in Providers |-> ElapseResource(pool[p])]
    /\ refusal' = [p \in Providers |->
                     [refusal[p] EXCEPT !.left = IF @ = 0 THEN 0 ELSE @ - 1]]
    /\ UNCHANGED req

\* update_quota, called by whoever learns the provider's quota.
ObserveQuota(p) ==
    /\ Settled
    /\ \E q \in QuotaObservations :
         health' = [health EXCEPT ![p] = AfterQuota(@, q.remaining, q.reset)]
    /\ UNCHANGED <<pool, req, refusal>>

\* providers_snapshot, the status endpoint: reading a state refreshes it.
CircuitsRead == [p \in Providers |-> Refreshed(health[p])]
PoolRead == [p \in Providers |-> Reopened(pool[p])]

Snapshot ==
    /\ health' = CircuitsRead
    /\ pool' = PoolRead
    /\ UNCHANGED <<req, refusal>>

Advance(t) ==
    \/ GiveUp(t) \/ SkipCandidate(t) \/ Reserve(t) \/ ReserveInWindow(t)
    \/ ClassifyRefusal(t) \/ Return(t) \/ RecordSuccess(t) \/ RecordFailure(t)
    \/ ReadCooldown(t) \/ ReportSuccess(t) \/ ReportFailure(t)
    \/ Account(t) \/ AccountRaises(t)

Next ==
    \/ \E t \in Threads : Route(t) \/ Advance(t)
    \/ \E p \in Providers : ObserveQuota(p)
    \/ Tick
    \/ Snapshot

Spec == Init /\ [][Next]_vars

\* A thread that has begun a request runs on, and an adapter call returns: the
\* transport has a timeout.
FairSpec == Spec /\ \A t \in Threads : WF_vars(Advance(t))

\* Time passes, and clients keep sending requests.  (Strong fairness: an instance
\* that is not Interleaved only lets time pass at some points of a request.)
BusySpec == FairSpec /\ SF_vars(Tick) /\ \A t \in Threads : WF_vars(Route(t))
=============================================================================
