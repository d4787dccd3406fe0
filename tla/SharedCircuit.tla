------------------------------ MODULE SharedCircuit ------------------------------
(***************************************************************************)
(* One ProviderHealth record of intelligence/registry.py under the server's *)
(* request threads, call by call.  Gateway takes the methods of the         *)
(* registry whole; no lock makes them so.  An interpreter hands over        *)
(* between threads at a call, and between what they read of the record and  *)
(* what they write to it the methods call health(), time.monotonic(),       *)
(* _record_latency() and max().  A step is the code from one such call to   *)
(* the next; what it read before stays in the thread's locals.              *)
(*                                                                         *)
(* Time is the monotonic clock itself, in units of which the clock stops    *)
(* at MaxClock: the instants a thread keeps go stale while others run.  It  *)
(* is counted from the first instant seen, which is not the clock's own 0.  *)
(***************************************************************************)
EXTENDS ProviderRegistry

CONSTANTS
    Threads,      \* the server's request threads
    Descriptors,  \* what the provider may be registered with: [limit, quota]
    FailureModes, \* the failures an adapter may raise: [kind, retry]
    MaxClock      \* bound: where the clock stops

Methods == {"health", "reserve_request", "record_success", "record_failure"}

ASSUME CircuitAssumption ==
    /\ None \notin FailureKinds \cup Methods
    /\ Descriptors \subseteq [limit : Optional(Nat), quota : Optional(Nat)]
    /\ FailureModes \subseteq [kind : FailureKinds, retry : Optional(Nat)]
    /\ MaxClock \in Nat

VARIABLES
    clock,    \* time.monotonic()
    limit,    \* the descriptor's rate_limit_per_minute: it never changes
    record,   \* the shared ProviderHealth
    thread,   \* each thread's frame: where it is, and its locals
    grants,   \* history: what the rate window has let through
    refusal   \* history: the last rate-limit refusal recorded

vars == <<clock, limit, record, thread, grants, refusal>>

\* ProviderRegistry's Health with instants in place of times left: until is
\* cooldown_until_monotonic, start is rate_window_started_monotonic.
Record == [state    : HealthStates,
           failures : 0 .. CircuitBreakerFailures,
           until    : Optional(Nat),
           quota    : Optional(Nat),
           start    : Optional(Nat),
           used     : Nat]

(***************************************************************************)
(* Where a thread is:                                                      *)
(*   idle      outside the registry, no call under way                     *)
(*   calling   its adapter call is in flight                               *)
(*   read      about to read the deadline, in _refresh_cooldown            *)
(*   refresh   about to hold the deadline it read against the clock        *)
(*   body      back from health(), about to go on with its method          *)
(*   window    about to read the clock for the rate window                 *)
(*   count     about to take its place in the window                       *)
(*   clock     about to read the clock for a failure's cooldown            *)
(*   judge     about to set the state the failure leads to                 *)
(*   closing   state set, about to compute the deadline from the clock     *)
(*   deadline  state set, about to write the deadline computed             *)
(***************************************************************************)
Places == {"idle", "calling", "read", "refresh", "body", "window", "count",
           "clock", "judge", "closing", "deadline"}

Frame == [at     : Places,
          method : Optional(Methods),
          kind   : Optional(FailureKinds),
          retry  : Optional(Nat),   \* retry_after_seconds
          until  : Optional(Nat),   \* the deadline read, or computed
          now    : Nat]             \* the clock as last read

Idle == [at |-> "idle", method |-> None, kind |-> None, retry |-> None,
         until |-> None, now |-> 0]

TypeOK ==
    /\ clock \in Nat
    /\ limit \in Optional(Nat)
    /\ record \in Record
    /\ thread \in [Threads -> Frame]
    /\ grants \in [count : Nat, windows : Nat, first : Nat]
    /\ refusal \in [until : Nat, quiet : BOOLEAN, alone : BOOLEAN]

Init ==
    /\ clock = 0
    /\ \E d \in Descriptors :
         /\ limit = d.limit
         /\ record = [state |-> "healthy", failures |-> 0, until |-> None,
                      quota |-> d.quota, start |-> None, used |-> 0]
    /\ thread = [t \in Threads |-> Idle]
    /\ grants = [count |-> 0, windows |-> 0, first |-> 0]
    /\ refusal = [until |-> 0, quiet |-> FALSE, alone |-> FALSE]

At(t, place) == thread[t].at = place

Runs(t, method) == thread[t].method = method

\* Thread t goes on at `place`; the instants it has used are forgotten.
Goto(t, place) ==
    thread' = [thread EXCEPT ![t].at = place, ![t].until = None, ![t].now = 0]

\* Thread t is done with the registry.
Leave(t) == thread' = [thread EXCEPT ![t] = Idle]

\* Thread t may call the provider.
Call(t) == thread' = [thread EXCEPT ![t] = [Idle EXCEPT !.at = "calling"]]

\* No thread but t is in the registry or has a call in flight.
Alone(t) == \A u \in Threads \ {t} : At(u, "idle")

-----------------------------------------------------------------------------
\* A request or a status read enters the registry.
Begin(t) ==
    /\ At(t, "idle")
    /\ \E m \in {"health", "reserve_request"} :
         thread' = [thread EXCEPT ![t] = [Idle EXCEPT !.at = "read", !.method = m]]
    /\ refusal' = [refusal EXCEPT !.alone = FALSE]
    /\ UNCHANGED <<clock, limit, record, grants>>

\* The adapter call ends, and its outcome is to be recorded.
Return(t) ==
    /\ At(t, "calling")
    /\ \/ /\ thread' = [thread EXCEPT ![t].at = "read", ![t].method = "record_success"]
          /\ UNCHANGED refusal
       \/ \E f \in FailureModes :
            /\ thread' = [thread EXCEPT ![t].at = "read",
                                        ![t].method = "record_failure",
                                        ![t].kind = f.kind, ![t].retry = f.retry]
            /\ refusal' = [refusal EXCEPT !.alone = Alone(t)]
    /\ UNCHANGED <<clock, limit, record, grants>>

-----------------------------------------------------------------------------
\* Where health() returns to: only reading was the aim, or the method goes on.
Back(t) == IF Runs(t, "health") THEN Leave(t) ELSE Goto(t, "body")

ReadDeadline(t) ==
    /\ At(t, "read")
    /\ \/ /\ record.until = None
          /\ Back(t)
       \/ /\ record.until # None
          /\ thread' = [thread EXCEPT ![t].at = "refresh", ![t].until = record.until]
    /\ UNCHANGED <<clock, limit, record, grants, refusal>>

\* A bug: the deadline is cleared and the state it was to end is kept.
ReopenedHalfway(r) == [r EXCEPT !.until = None]

\* The record once a deadline has passed: whichever it is holding by now.
Reopened(r) ==
    [r EXCEPT !.until = None,
              !.state = IF @ \in CoolingStates THEN Recovered(r) ELSE @]

\* A bug: the deadline passes one unit early.
ExpiredEarly(t) == clock + 1 >= thread[t].until

\* The deadline thread t read has passed.
Expired(t) == clock >= thread[t].until

Refresh(t) ==
    /\ At(t, "refresh")
    /\ record' = IF Expired(t) THEN Reopened(record) ELSE record
    /\ Back(t)
    /\ UNCHANGED <<clock, limit, grants, refusal>>

-----------------------------------------------------------------------------
\* reserve_request up to the rate window.
Reserve(t) ==
    /\ At(t, "body")
    /\ Runs(t, "reserve_request")
    /\ \/ /\ record.state \notin OpenStates
          /\ Leave(t)
          /\ UNCHANGED record
       \/ /\ record.state \in OpenStates
          /\ QuotaSpent(record)
          /\ record' = [record EXCEPT !.state = "quota_exhausted"]
          /\ Leave(t)
       \/ /\ record.state \in OpenStates
          /\ ~QuotaSpent(record)
          /\ limit = None
          /\ Call(t)
          /\ UNCHANGED record
       \/ /\ record.state \in OpenStates
          /\ ~QuotaSpent(record)
          /\ limit = 0
          /\ record' = [record EXCEPT !.state = "rate_limited"]
          /\ Goto(t, "closing")
       \/ /\ record.state \in OpenStates
          /\ ~QuotaSpent(record)
          /\ limit \notin {None, 0}
          /\ Goto(t, "window")
          /\ UNCHANGED record
    /\ UNCHANGED <<clock, limit, grants, refusal>>

ReadWindowClock(t) ==
    /\ At(t, "window")
    /\ thread' = [thread EXCEPT ![t].at = "count", ![t].now = clock]
    /\ UNCHANGED <<clock, limit, record, grants, refusal>>

WindowOver(r, now) == r.start = None \/ now - r.start >= RateWindow

\* A bug: a new window is counted from zero and keeps the old one's start.
RestartedLate(r, now) ==
    IF WindowOver(r, now)
    THEN [r EXCEPT !.start = IF @ = None THEN now ELSE @, !.used = 0]
    ELSE r

\* The window a request that read the clock at `now` falls in.
Restarted(r, now) ==
    IF WindowOver(r, now) THEN [r EXCEPT !.start = now, !.used = 0] ELSE r

\* Between the check of the window and its count there is no call.
Count(t) ==
    /\ At(t, "count")
    /\ LET now == thread[t].now
           w == Restarted(record, now)
           end == w.start + RateWindow
       IN  /\ \/ /\ w.used >= limit
                 /\ record' = [w EXCEPT !.state = "rate_limited"]
                 /\ thread' = [thread EXCEPT ![t].at = "deadline",
                                             ![t].until = IF now > end THEN now ELSE end,
                                             ![t].now = 0]
              \/ /\ w.used < limit
                 /\ record' = [w EXCEPT !.used = @ + 1]
                 /\ Call(t)
           /\ grants' = [count   |-> grants.count + IF w.used < limit THEN 1 ELSE 0,
                         windows |-> grants.windows
                                       + IF WindowOver(record, now) THEN 1 ELSE 0,
                         first   |-> IF grants.windows = 0 THEN now ELSE grants.first]
    /\ UNCHANGED <<clock, limit, refusal>>

-----------------------------------------------------------------------------
RecordSuccess(t) ==
    /\ At(t, "body")
    /\ Runs(t, "record_success")
    /\ record' = [record EXCEPT !.failures = 0, !.until = None, !.state = "healthy"]
    /\ Leave(t)
    /\ UNCHANGED <<clock, limit, grants, refusal>>

\* record_failure: the failures in a row, the clock, the state, the deadline.
CountFailure(t) ==
    /\ At(t, "body")
    /\ Runs(t, "record_failure")
    /\ record' = [record EXCEPT !.failures =
                    IF @ < CircuitBreakerFailures THEN @ + 1 ELSE @]
    /\ Goto(t, "clock")
    /\ UNCHANGED <<clock, limit, grants, refusal>>

ReadFailureClock(t) ==
    /\ At(t, "clock")
    /\ thread' = [thread EXCEPT ![t].at = "judge", ![t].now = clock]
    /\ UNCHANGED <<clock, limit, record, grants, refusal>>

Judge(t) ==
    /\ At(t, "judge")
    /\ LET f == thread[t]
           cooldown == FailedCooldown(f.kind, record.failures, f.retry)
       IN  /\ record' = [record EXCEPT !.state = FailedState(f.kind, record.failures)]
           /\ IF cooldown = None
              THEN Leave(t)
              ELSE thread' = [thread EXCEPT ![t].at = "deadline",
                                            ![t].until = f.now + cooldown, ![t].now = 0]
    /\ UNCHANGED <<clock, limit, grants, refusal>>

-----------------------------------------------------------------------------
\* A limit of zero closes the provider for a window, counted from here.
ComputeDeadline(t) ==
    /\ At(t, "closing")
    /\ thread' = [thread EXCEPT ![t].at = "deadline", ![t].until = clock + RateWindow]
    /\ UNCHANGED <<clock, limit, record, grants, refusal>>

WriteDeadline(t) ==
    /\ At(t, "deadline")
    /\ record' = [record EXCEPT !.until = thread[t].until]
    /\ refusal' = IF thread[t].kind = "rate_limit"
                  THEN [refusal EXCEPT !.until = thread[t].until,
                                       !.quiet = refusal.alone /\ Alone(t)]
                  ELSE refusal
    /\ Leave(t)
    /\ UNCHANGED <<clock, limit, grants>>

Tick ==
    /\ clock < MaxClock
    /\ clock' = clock + 1
    /\ UNCHANGED <<limit, record, thread, grants, refusal>>

Next ==
    \/ \E t \in Threads :
         \/ Begin(t) \/ Return(t)
         \/ ReadDeadline(t) \/ Refresh(t)
         \/ Reserve(t) \/ ReadWindowClock(t) \/ Count(t)
         \/ RecordSuccess(t)
         \/ CountFailure(t) \/ ReadFailureClock(t) \/ Judge(t)
         \/ ComputeDeadline(t) \/ WriteDeadline(t)
    \/ Tick

Spec == Init /\ [][Next]_vars

-----------------------------------------------------------------------------
(***************************************************************************)
(* Closed for a while is never closed for good.  health() ends a closure   *)
(* only through its deadline (registry.py 217-226), and record_failure and *)
(* reserve_request write the state first and the deadline calls later:     *)
(* however they interleave with other threads' writes and refreshes, a     *)
(* circuit closed without a deadline has a thread about to write one.      *)
(***************************************************************************)
ClosedCanReopen ==
    record.state \in {"rate_limited", "cooldown"} /\ record.until = None
      => \E t \in Threads : thread[t].at \in {"closing", "deadline"}

(***************************************************************************)
(* rate_limit_per_minute over any stretch of time: the window lets through *)
(* no more than its limit for each window length begun since the first     *)
(* request, whatever clock readings have gone stale by the time they are   *)
(* used.                                                                   *)
(***************************************************************************)
LongRunRate ==
    /\ limit # None /\ grants.count > 0
         => grants.count <= limit * (1 + (clock - grants.first) \div RateWindow)

(***************************************************************************)
(* A refusal recorded while no other thread was in the registry or had a   *)
(* call in flight, from the return of the call to the last write, is       *)
(* honoured by every thread until its cooldown is over: the later calls    *)
(* and refreshes find the record whole.                                    *)
(***************************************************************************)
QuietRefusalHonoured ==
    [][\A t \in Threads :
         ~At(t, "calling") /\ thread'[t].at = "calling" /\ refusal.quiet
           => clock >= refusal.until]_vars
=============================================================================
