----------------------------- MODULE WholeCircuit -----------------------------
(***************************************************************************)
(* One provider's circuit as the Gateway takes it: a method of             *)
(* intelligence/registry.py reads and writes the record in one step, and a *)
(* record keeps times left and ages.  It is what SharedCircuit, which runs *)
(* the methods call by call, promises while they do not overlap.           *)
(***************************************************************************)
EXTENDS ProviderRegistry

CONSTANTS
    Threads,
    Descriptors,  \* what the provider may be registered with: [limit, quota]
    FailureModes  \* the failures an adapter may raise: [kind, retry]

VARIABLES
    limit,    \* rate_limit_per_minute
    health,   \* the provider's ProviderHealth
    calling   \* the threads that may call, or are calling, the provider

Init ==
    /\ \E d \in Descriptors :
         /\ limit = d.limit
         /\ health = NewHealth("healthy", d.quota)
    /\ calling = {}

\* health(), for a status read or a route.
Look(t) ==
    /\ t \notin calling
    /\ health' = Refreshed(health)
    /\ UNCHANGED <<limit, calling>>

Refuse(h) == health' = h /\ UNCHANGED calling

Admit(t, h) == health' = h /\ calling' = calling \cup {t}

\* reserve_request.
Reserve(t) ==
    /\ t \notin calling
    /\ LET h == Refreshed(health)
           open == h.state \in OpenStates /\ ~QuotaSpent(h)
       IN  \/ h.state \notin OpenStates /\ Refuse(h)
           \/ h.state \in OpenStates /\ QuotaSpent(h) /\ Refuse(QuotaRefused(h))
           \/ open /\ limit = None /\ Admit(t, h)
           \/ open /\ limit = 0 /\ Refuse(LimitRefused(h))
           \/ /\ open
              /\ limit \notin {None, 0}
              /\ \/ WindowFull(h, limit) /\ Refuse(WindowRefused(h))
                 \/ ~WindowFull(h, limit) /\ Admit(t, WindowTaken(h))
    /\ UNCHANGED limit

\* The call is over, and record_success or record_failure runs.
Answer(t) ==
    /\ t \in calling
    /\ calling' = calling \ {t}
    /\ \/ health' = AfterSuccess(health)
       \/ \E f \in FailureModes : health' = AfterFailure(health, f.kind, f.retry)
    /\ UNCHANGED limit

Tick ==
    /\ health' = Elapse(health)
    /\ UNCHANGED <<limit, calling>>

Next ==
    \/ \E t \in Threads : Look(t) \/ Reserve(t) \/ Answer(t)
    \/ Tick

Spec == Init /\ [][Next]_<<limit, health, calling>>
=============================================================================
