--------------------------- MODULE CircuitRefinement ---------------------------
(***************************************************************************)
(* The methods of the shared circuit taken whole.  While they run one at a *)
(* time, and no time to speak of passes inside one, SharedCircuit          *)
(* implements WholeCircuit, where a method is one step: the thread's entry *)
(* into it.  From there on the rest of the method is determined, and       *)
(* Pending is what it comes to.                                            *)
(***************************************************************************)
EXTENDS SharedCircuit

Inside(t) == thread[t].at \notin {"idle", "calling"}

OneAtATime == \A t, u \in Threads : Inside(t) /\ Inside(u) => t = u

\* An action: time passes between methods only.
Prompt == (\E t \in Threads : Inside(t)) => UNCHANGED clock

\* The record r at the instant now, with times left and ages in place of instants.
Seen(r, now) ==
    [state    |-> r.state,
     failures |-> r.failures,
     until    |-> IF r.until = None THEN None
                  ELSE IF r.until <= now THEN 0 ELSE r.until - now,
     quota    |-> r.quota,
     age      |-> IF r.start = None THEN None
                  ELSE IF now - r.start >= RateWindow THEN RateWindow
                  ELSE now - r.start,
     used     |-> r.used]

Outcome(h, call) == [health |-> h, call |-> call]

\* What a method comes to once health() has refreshed the record, in the terms of
\* ProviderRegistry.
WindowOutcome(h, rate) ==
    IF WindowFull(h, rate) THEN Outcome(WindowRefused(h), FALSE)
                           ELSE Outcome(WindowTaken(h), TRUE)

ReserveOutcome(h, rate) ==
    IF h.state \notin OpenStates THEN Outcome(h, FALSE)
    ELSE IF QuotaSpent(h) THEN Outcome(QuotaRefused(h), FALSE)
    ELSE IF rate = None THEN Outcome(h, TRUE)
    ELSE IF rate = 0 THEN Outcome(LimitRefused(h), FALSE)
    ELSE WindowOutcome(h, rate)

Succeeded(h) == [h EXCEPT !.failures = 0, !.until = None, !.state = "healthy"]

Counted(h) ==
    [h EXCEPT !.failures = IF @ < CircuitBreakerFailures THEN @ + 1 ELSE @]

Failed(h, kind, retry) ==
    LET c == FailedCooldown(kind, h.failures, retry)
    IN  [h EXCEPT !.state = FailedState(kind, h.failures),
                  !.until = IF c = None THEN @ ELSE c]

MethodOutcome(f, h, rate) ==
    CASE f.method = "reserve_request" -> ReserveOutcome(h, rate)
      [] f.method = "record_success" -> Outcome(Succeeded(h), FALSE)
      [] f.method = "record_failure" -> Outcome(Failed(Counted(h), f.kind, f.retry), FALSE)
      [] OTHER -> Outcome(h, FALSE)

\* The records "count" and "judge" come to, from the clock reading they were given.
AfterCount(r, reading, rate) ==
    LET w == Restarted(r, reading)
        end == w.start + RateWindow
    IN  IF w.used >= rate
        THEN [w EXCEPT !.state = "rate_limited",
                       !.until = IF reading > end THEN reading ELSE end]
        ELSE [w EXCEPT !.used = @ + 1]

AfterJudge(r, f) ==
    LET c == FailedCooldown(f.kind, r.failures, f.retry)
    IN  [r EXCEPT !.state = FailedState(f.kind, r.failures),
                  !.until = IF c = None THEN @ ELSE f.now + c]

\* What frame f comes to from record r at the instant now.
Rest(f, r, now, rate) ==
    CASE f.at = "idle"     -> Outcome(Seen(r, now), FALSE)
      [] f.at = "calling"  -> Outcome(Seen(r, now), TRUE)
      [] f.at = "read"     -> MethodOutcome(f, Refreshed(Seen(r, now)), rate)
      [] f.at = "refresh"  ->
           MethodOutcome(f, Seen(IF now >= f.until THEN Reopened(r) ELSE r, now), rate)
      [] f.at = "body"     -> MethodOutcome(f, Seen(r, now), rate)
      [] f.at = "window"   -> WindowOutcome(Seen(r, now), rate)
      [] f.at = "count"    -> Outcome(Seen(AfterCount(r, f.now, rate), now),
                                      Restarted(r, f.now).used < rate)
      [] f.at = "clock"    -> Outcome(Failed(Seen(r, now), f.kind, f.retry), FALSE)
      [] f.at = "judge"    -> Outcome(Seen(AfterJudge(r, f), now), FALSE)
      [] f.at = "closing"  -> Outcome(Seen([r EXCEPT !.until = now + RateWindow], now), FALSE)
      [] f.at = "deadline" -> Outcome(Seen([r EXCEPT !.until = f.until], now), FALSE)

Pending(t) == Rest(thread[t], record, clock, limit)

PendingHealth ==
    IF \E t \in Threads : Inside(t)
    THEN Pending(CHOOSE t \in Threads : Inside(t)).health
    ELSE Seen(record, clock)

PendingCalls == {t \in Threads : Pending(t).call}

Whole == INSTANCE WholeCircuit WITH health <- PendingHealth, calling <- PendingCalls

(***************************************************************************)
(* A step at which the methods do not overlap is a step of WholeCircuit,   *)
(* or none: whatever overlapped before, the calls health(),                *)
(* time.monotonic(), _record_latency() and max() inside a method then make *)
(* no difference to what it does, and the Gateway may take it whole.       *)
(***************************************************************************)
MethodsAloneAreWhole ==
    [][OneAtATime /\ OneAtATime' /\ Prompt
         => Whole!Next \/ UNCHANGED <<limit, PendingHealth, PendingCalls>>]_vars

\* What follows for a server whose methods never overlap.
ImplementsWhole == Whole!Spec
=============================================================================
