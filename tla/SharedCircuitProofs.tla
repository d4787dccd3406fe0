-------------------------- MODULE SharedCircuitProofs --------------------------
(***************************************************************************)
(* What the shared circuit keeps for any number of threads, any limit and  *)
(* any cooldowns.                                                          *)
(***************************************************************************)
EXTENDS CircuitRefinement, TLAPS

(***************************************************************************)
(* Arithmetic of rates.                                                    *)
(***************************************************************************)
LEMMA QuotientBounds ==
    ASSUME NEW a \in Nat, NEW k \in Nat, NEW w \in Nat \ {0}, k * w <= a
    PROVE  a \div w \in Nat /\ k <= a \div w
<1> DEFINE d == a \div w
<1>1. d \in Nat /\ a < (d + 1) * w
  OBVIOUS
<1>2. CASE k >= d + 1
  <2>1. k * w >= (d + 1) * w
    <3>1. PICK i \in Nat : k = (d + 1) + i
      BY <1>1, <1>2
    <3>2. k * w = (d + 1) * w + i * w /\ i * w \in Nat
      BY <3>1, <1>1
    <3> QED
      BY <3>2, <1>1
  <2> QED
    BY <1>1, <2>1
<1> QED
  BY <1>1, <1>2

LEMMA ProductMonotone ==
    ASSUME NEW l \in Nat, NEW i \in Nat, NEW j \in Nat, i <= j
    PROVE  l * i <= l * j
<1>1. PICK e \in Nat : j = i + e
  OBVIOUS
<1>2. l * j = l * i + l * e /\ l * e \in Nat /\ l * i \in Nat
  BY <1>1
<1> QED
  BY <1>2

-----------------------------------------------------------------------------
\* A thread that is about to use an instant has read one.
FrameSound(t) ==
    /\ thread[t].at \in {"refresh", "deadline"} => thread[t].until \in Nat
    /\ At(t, "count") => thread[t].now <= clock
    /\ thread[t].at \in {"window", "count"} => limit \in Nat \ {0}
    /\ thread[t].at \in {"clock", "judge"} \/ Runs(t, "record_failure")
         => thread[t].kind # None

TypeInv == TypeOK /\ \A t \in Threads : FrameSound(t)

LEMMA InitType == Init => TypeInv
BY CircuitAssumption, CooldownAssumption, NoneAssumption
   DEF Init, TypeInv, TypeOK, FrameSound, Record, Frame, Idle, At, Optional,
       HealthStates, Places, Runs, Methods

\* A thread's step that types its own frame types them all.
LEMMA FrameStep ==
    ASSUME TypeInv, NEW t \in Threads, NEW f \in Frame,
           thread' = [thread EXCEPT ![t] = f], UNCHANGED <<clock, limit>>,
           f.at \in {"refresh", "deadline"} => f.until \in Nat,
           f.at = "count" => f.now <= clock,
           f.at \in {"window", "count"} => limit \in Nat \ {0},
           f.at \in {"clock", "judge"} \/ f.method = "record_failure" => f.kind # None
    PROVE  /\ thread' \in [Threads -> Frame]
           /\ \A u \in Threads : FrameSound(u)'
<1>1. thread' \in [Threads -> Frame]
  BY DEF TypeInv, TypeOK
<1>2. ASSUME NEW u \in Threads PROVE FrameSound(u)'
  <2>1. CASE u = t
    BY <2>1 DEF TypeInv, TypeOK, FrameSound, At, Runs
  <2>2. CASE u # t
    BY <2>2 DEF TypeInv, TypeOK, FrameSound, At, Runs
  <2> QED
    BY <2>1, <2>2
<1> QED
  BY <1>1, <1>2

LEMMA IdleTyped == Idle \in Frame
BY NoneAssumption DEF Idle, Frame, Places, Optional

LEMMA CooldownTyped ==
    ASSUME NEW kind \in FailureKinds, NEW n \in Nat, NEW retry \in Optional(Nat)
    PROVE  /\ FailedCooldown(kind, n, retry) \in Optional(Nat)
           /\ FailedState(kind, n) \in HealthStates
           /\ FailedState(kind, n) \in {"rate_limited", "cooldown"}
                => FailedCooldown(kind, n, retry) \in Nat
BY CooldownAssumption, NoneAssumption
   DEF FailedCooldown, FailedState, OrDefault, Transient, FailureKinds, Optional,
       HealthStates

LEMMA BeginType ==
    ASSUME TypeInv, NEW t \in Threads, Begin(t) \/ Return(t)
    PROVE  TypeInv'
<1>1. refusal' \in [until : Nat, quiet : BOOLEAN, alone : BOOLEAN]
  BY DEF TypeInv, TypeOK, Begin, Return, Alone
<1>2. PICK f \in Frame : /\ thread' = [thread EXCEPT ![t] = f]
                         /\ f.at = "read"
                         /\ f.method = "record_failure" => f.kind # None
  <2>1. CASE Begin(t)
    <3>1. PICK m \in {"health", "reserve_request"} :
            thread' = [thread EXCEPT ![t] = [Idle EXCEPT !.at = "read", !.method = m]]
      BY <2>1 DEF Begin
    <3> DEFINE f == [Idle EXCEPT !.at = "read", !.method = m]
    <3>2. f \in Frame /\ f.at = "read" /\ f.method # "record_failure"
      BY DEF Idle, Frame, Methods, Places, Optional
    <3> QED
      BY <3>1, <3>2
  <2>2. CASE Return(t)
    <3>1. thread[t] \in Frame
      BY DEF TypeInv, TypeOK
    <3>2. CASE thread' = [thread EXCEPT ![t].at = "read", ![t].method = "record_success"]
      <4> DEFINE f == [thread[t] EXCEPT !.at = "read", !.method = "record_success"]
      <4>1. /\ f \in Frame /\ f.at = "read" /\ f.method # "record_failure"
            /\ thread' = [thread EXCEPT ![t] = f]
        BY <3>1, <3>2 DEF Frame, Methods, Places, Optional, TypeInv, TypeOK
      <4> QED
        BY <4>1
    <3>3. CASE \E m \in FailureModes :
                 thread' = [thread EXCEPT ![t].at = "read",
                                          ![t].method = "record_failure",
                                          ![t].kind = m.kind, ![t].retry = m.retry]
      <4>1. PICK m \in FailureModes :
                 thread' = [thread EXCEPT ![t].at = "read",
                                          ![t].method = "record_failure",
                                          ![t].kind = m.kind, ![t].retry = m.retry]
        BY <3>3
      <4> DEFINE f == [thread[t] EXCEPT !.at = "read", !.method = "record_failure",
                                        !.kind = m.kind, !.retry = m.retry]
      <4>2. /\ f \in Frame /\ f.at = "read" /\ f.kind # None
            /\ thread' = [thread EXCEPT ![t] = f]
        BY <3>1, <4>1, CircuitAssumption, NoneAssumption
           DEF Frame, FailureKinds, Methods, Places, Optional, TypeInv, TypeOK
      <4> QED
        BY <4>2
    <3> QED
      BY <2>2, <3>2, <3>3 DEF Return
  <2> QED
    BY <2>1, <2>2
<1>3. UNCHANGED <<clock, limit, record, grants>>
  BY DEF Begin, Return
<1>4. thread' \in [Threads -> Frame] /\ \A u \in Threads : FrameSound(u)'
  BY <1>2, <1>3, FrameStep
<1> QED
  BY <1>1, <1>3, <1>4 DEF TypeInv, TypeOK

\* The frames a thread moves to.
LEMMA MovesTyped ==
    ASSUME TypeInv, NEW t \in Threads
    PROVE  /\ Leave(t) \/ Call(t) => \E f \in Frame :
                /\ thread' = [thread EXCEPT ![t] = f]
                /\ f.at \in {"idle", "calling"}
                /\ f.method = None
                /\ f.kind = None
           /\ \A place \in Places :
                Goto(t, place) => \E f \in Frame :
                  /\ thread' = [thread EXCEPT ![t] = f]
                  /\ f.at = place
                  /\ f.kind = thread[t].kind
                  /\ f.method = thread[t].method
<1>1. ASSUME Leave(t) PROVE \E f \in Frame : /\ thread' = [thread EXCEPT ![t] = f]
                                             /\ f.at \in {"idle", "calling"}
                                             /\ f.method = None
                                             /\ f.kind = None
  <2>1. thread' = [thread EXCEPT ![t] = Idle] /\ Idle.at = "idle" /\ Idle.method = None
        /\ Idle.kind = None
    BY <1>1 DEF Leave, Idle
  <2> QED
    BY <2>1, IdleTyped
<1>2. ASSUME Call(t) PROVE \E f \in Frame : /\ thread' = [thread EXCEPT ![t] = f]
                                            /\ f.at \in {"idle", "calling"}
                                            /\ f.method = None
                                            /\ f.kind = None
  <2> DEFINE f == [Idle EXCEPT !.at = "calling"]
  <2>1. f \in Frame /\ f.at = "calling" /\ f.method = None
        /\ f.kind = None
    BY DEF Idle, Frame, Places, Optional
  <2> QED
    BY <1>2, <2>1 DEF Call
<1>3. ASSUME NEW place \in Places, Goto(t, place)
      PROVE  \E f \in Frame : /\ thread' = [thread EXCEPT ![t] = f]
                              /\ f.at = place
                              /\ f.kind = thread[t].kind
                              /\ f.method = thread[t].method
  <2> DEFINE f == [thread[t] EXCEPT !.at = place, !.until = None, !.now = 0]
  <2>1. thread[t] \in Frame /\ thread \in [Threads -> Frame]
    BY DEF TypeInv, TypeOK
  <2>2. f \in Frame /\ f.at = place /\ f.kind = thread[t].kind
      /\ f.method = thread[t].method
    BY <2>1 DEF Frame, Optional
  <2>3. thread' = [thread EXCEPT ![t] = f]
    BY <1>3, <2>1 DEF Goto
  <2> QED
    BY <2>2, <2>3
<1> QED
  BY <1>1, <1>2, <1>3

\* Leaving, calling and going to most places need no more than a sound frame.
LEMMA MoveType ==
    ASSUME TypeInv, NEW t \in Threads, UNCHANGED <<clock, limit>>,
           \/ Leave(t)
           \/ Call(t)
           \/ Goto(t, "body")
           \/ Goto(t, "closing")
           \/ limit \in Nat \ {0} /\ Goto(t, "window")
           \/ thread[t].kind # None /\ Goto(t, "clock")
    PROVE  /\ thread' \in [Threads -> Frame]
           /\ \A u \in Threads : FrameSound(u)'
<1>1. PICK f \in Frame :
        /\ thread' = [thread EXCEPT ![t] = f]
        /\ f.at \in {"idle", "calling", "body", "closing", "window", "clock"}
        /\ f.at = "window" => limit \in Nat \ {0}
        /\ f.at = "clock" \/ f.method = "record_failure" => f.kind # None
  BY MovesTyped, CircuitAssumption DEF Places, Methods, TypeInv, FrameSound, Runs
<1> QED
  BY <1>1, FrameStep

LEMMA ReadType ==
    ASSUME TypeInv, NEW t \in Threads, ReadDeadline(t)
    PROVE  TypeInv'
<1>1. CASE Back(t)
  BY <1>1, MoveType DEF Back, ReadDeadline, TypeInv, TypeOK
<1>2. CASE record.until # None
             /\ thread' = [thread EXCEPT ![t].at = "refresh", ![t].until = record.until]
  <2> DEFINE f == [thread[t] EXCEPT !.at = "refresh", !.until = record.until]
  <2>1. thread[t] \in Frame /\ thread \in [Threads -> Frame] /\ record.until \in Nat
    BY <1>2 DEF TypeInv, TypeOK, Record, Optional
  <2>2. f \in Frame /\ f.at = "refresh" /\ f.until \in Nat
        /\ f.method = thread[t].method /\ f.kind = thread[t].kind
    BY <2>1 DEF Frame, Optional, Places
  <2>3. thread' = [thread EXCEPT ![t] = f] /\ UNCHANGED <<clock, limit>>
    BY <1>2, <2>1 DEF ReadDeadline
  <2>4. thread' \in [Threads -> Frame] /\ \A u \in Threads : FrameSound(u)'
    BY <2>2, <2>3, FrameStep DEF TypeInv, FrameSound, Runs
  <2> QED
    BY <2>4 DEF ReadDeadline, TypeInv, TypeOK
<1> QED
  BY <1>1, <1>2 DEF ReadDeadline

LEMMA RefreshType ==
    ASSUME TypeInv, NEW t \in Threads, Refresh(t)
    PROVE  TypeInv'
<1>1. record' \in Record
  BY DEF TypeInv, TypeOK, Refresh, Reopened, Recovered, Record, Optional, HealthStates
<1>2. thread' \in [Threads -> Frame] /\ \A u \in Threads : FrameSound(u)'
  BY MoveType DEF Refresh, Back
<1> QED
  BY <1>1, <1>2 DEF Refresh, TypeInv, TypeOK

LEMMA ReserveType ==
    ASSUME TypeInv, NEW t \in Threads, Reserve(t)
    PROVE  TypeInv'
<1>1. record' \in Record
  BY DEF TypeInv, TypeOK, Reserve, Record, HealthStates
<1>2. limit \notin {None, 0} => limit \in Nat \ {0}
  BY DEF TypeInv, TypeOK, Optional
<1>3. thread' \in [Threads -> Frame] /\ \A u \in Threads : FrameSound(u)'
  BY <1>2, MoveType DEF Reserve
<1> QED
  BY <1>1, <1>3 DEF Reserve, TypeInv, TypeOK

LEMMA WindowType ==
    ASSUME TypeInv, NEW t \in Threads, ReadWindowClock(t) \/ ReadFailureClock(t)
    PROVE  TypeInv'
<1>1. PICK place \in {"count", "judge"} :
        /\ thread' = [thread EXCEPT ![t].at = place, ![t].now = clock]
        /\ place = "count" => At(t, "window")
        /\ place = "judge" => At(t, "clock")
  BY DEF ReadWindowClock, ReadFailureClock
<1> DEFINE f == [thread[t] EXCEPT !.at = place, !.now = clock]
<1>2. thread[t] \in Frame /\ thread \in [Threads -> Frame] /\ clock \in Nat
  BY DEF TypeInv, TypeOK
<1>3. /\ f \in Frame /\ f.at = place /\ f.now = clock
      /\ f.kind = thread[t].kind /\ f.method = thread[t].method
  BY <1>2 DEF Frame, Places
<1>4. thread' = [thread EXCEPT ![t] = f] /\ UNCHANGED <<clock, limit>>
  BY <1>1, <1>2 DEF ReadWindowClock, ReadFailureClock
<1>5. thread' \in [Threads -> Frame] /\ \A u \in Threads : FrameSound(u)'
  BY <1>1, <1>2, <1>3, <1>4, FrameStep DEF TypeInv, FrameSound, Runs, At
<1> QED
  BY <1>5 DEF ReadWindowClock, ReadFailureClock, TypeInv, TypeOK

\* What a request finds of the window it falls in.
LEMMA RestartedTyped ==
    ASSUME NEW r \in Record, NEW now \in Nat
    PROVE  /\ Restarted(r, now) \in Record
           /\ Restarted(r, now).start \in Nat
           /\ Restarted(r, now).state = r.state
           /\ Restarted(r, now).until = r.until
BY CooldownAssumption DEF Restarted, WindowOver, Record, Optional

LEMMA CountType ==
    ASSUME TypeInv, NEW t \in Threads, Count(t)
    PROVE  TypeInv'
<1> DEFINE now == thread[t].now
           w == Restarted(record, now)
           end == w.start + RateWindow
<1>1. /\ thread[t] \in Frame /\ thread \in [Threads -> Frame] /\ now \in Nat
      /\ record \in Record /\ limit \in Nat \ {0} /\ clock \in Nat
  BY DEF Count, At, TypeInv, TypeOK, FrameSound, Frame
<1>2. w \in Record /\ w.start \in Nat /\ end \in Nat
  <2>1. w \in Record /\ w.start \in Nat
    BY <1>1, RestartedTyped
  <2> HIDE DEF w
  <2> QED
    BY <2>1, CooldownAssumption
<1>3. grants' \in [count : Nat, windows : Nat, first : Nat]
  <2>1. grants' = [count   |-> grants.count + IF w.used < limit THEN 1 ELSE 0,
                   windows |-> grants.windows
                                 + IF WindowOver(record, now) THEN 1 ELSE 0,
                   first   |-> IF grants.windows = 0 THEN now ELSE grants.first]
    BY DEF Count
  <2> QED
    BY <1>1, <2>1 DEF TypeInv, TypeOK
<1>4. record' \in Record /\ UNCHANGED <<clock, limit, refusal>>
  <2>1. record' \in {[w EXCEPT !.state = "rate_limited"], [w EXCEPT !.used = @ + 1]}
    BY DEF Count
  <2>2. [w EXCEPT !.state = "rate_limited"] \in Record
    BY <1>2 DEF Record, HealthStates
  <2>3. [w EXCEPT !.used = @ + 1] \in Record
    BY <1>2 DEF Record
  <2> QED
    BY <2>1, <2>2, <2>3 DEF Count
<1>5. thread' \in [Threads -> Frame] /\ \A u \in Threads : FrameSound(u)'
  <2>1. CASE Call(t)
    BY <2>1, <1>4, MoveType
  <2>2. CASE thread' = [thread EXCEPT ![t].at = "deadline",
                                      ![t].until = IF now > end THEN now ELSE end,
                                      ![t].now = 0]
    <3> DEFINE f == [thread[t] EXCEPT !.at = "deadline",
                                      !.until = IF now > end THEN now ELSE end,
                                      !.now = 0]
    <3>1. /\ f \in Frame /\ f.at = "deadline" /\ f.until \in Nat
          /\ f.kind = thread[t].kind /\ f.method = thread[t].method
      BY <1>1, <1>2 DEF Frame, Optional, Places
    <3>2. thread' = [thread EXCEPT ![t] = f]
      BY <1>1, <2>2
    <3> QED
      BY <1>4, <3>1, <3>2, FrameStep DEF TypeInv, FrameSound, Runs
  <2> QED
    BY <2>1, <2>2 DEF Count
<1> QED
  BY <1>1, <1>3, <1>4, <1>5 DEF TypeInv, TypeOK

LEMMA RecordType ==
    ASSUME TypeInv, NEW t \in Threads, RecordSuccess(t) \/ CountFailure(t)
    PROVE  TypeInv'
<1>1. record' \in Record
  <2>1. CASE RecordSuccess(t)
    <3>1. record \in Record /\ 0 \in 0 .. CircuitBreakerFailures
      BY CooldownAssumption DEF TypeInv, TypeOK
    <3>2. record' = [record EXCEPT !.failures = 0, !.until = None, !.state = "healthy"]
      BY <2>1 DEF RecordSuccess
    <3> QED
      BY <3>1, <3>2 DEF Record, HealthStates, Optional
  <2>2. CASE CountFailure(t)
    <3> DEFINE n == IF record.failures < CircuitBreakerFailures
                    THEN record.failures + 1 ELSE record.failures
    <3>1. record \in Record
      BY DEF TypeInv, TypeOK
    <3>2. n \in 0 .. CircuitBreakerFailures
      BY <3>1, CooldownAssumption DEF Record
    <3>3. record' = [record EXCEPT !.failures = n]
      BY <2>2 DEF CountFailure
    <3> HIDE DEF n
    <3> QED
      BY <3>1, <3>2, <3>3 DEF Record
  <2> QED
    BY <2>1, <2>2
<1>2. thread' \in [Threads -> Frame] /\ \A u \in Threads : FrameSound(u)'
  <2>1. CountFailure(t) => thread[t].kind # None
    BY DEF CountFailure, TypeInv, FrameSound
  <2> QED
    BY <2>1, MoveType DEF RecordSuccess, CountFailure
<1> QED
  BY <1>1, <1>2 DEF RecordSuccess, CountFailure, TypeInv, TypeOK

LEMMA JudgeType ==
    ASSUME TypeInv, NEW t \in Threads, Judge(t)
    PROVE  TypeInv'
<1> DEFINE cooldown == FailedCooldown(thread[t].kind, record.failures, thread[t].retry)
<1>1. /\ thread[t] \in Frame /\ thread \in [Threads -> Frame] /\ record \in Record
      /\ thread[t].kind \in FailureKinds /\ thread[t].retry \in Optional(Nat)
      /\ record.failures \in Nat /\ thread[t].now \in Nat
  BY CooldownAssumption
     DEF Judge, At, TypeInv, TypeOK, FrameSound, Frame, Record, Optional
<1>2. /\ cooldown \in Optional(Nat)
      /\ FailedState(thread[t].kind, record.failures) \in HealthStates
  BY <1>1, CooldownTyped
<1>3. record' \in Record /\ UNCHANGED <<clock, limit, grants, refusal>>
  BY <1>1, <1>2 DEF Judge, Record
<1>4. thread' \in [Threads -> Frame] /\ \A u \in Threads : FrameSound(u)'
  <2>1. CASE Leave(t)
    BY <1>3, <2>1, MoveType
  <2>2. CASE /\ cooldown # None
             /\ thread' = [thread EXCEPT ![t].at = "deadline",
                                         ![t].until = thread[t].now + cooldown,
                                         ![t].now = 0]
    <3> DEFINE f == [thread[t] EXCEPT !.at = "deadline",
                                      !.until = thread[t].now + cooldown, !.now = 0]
    <3>1. thread[t].now + cooldown \in Nat
      BY <1>1, <1>2, <2>2 DEF Optional
    <3>2. /\ f \in Frame /\ f.at = "deadline" /\ f.until \in Nat
          /\ f.kind = thread[t].kind /\ f.method = thread[t].method
      BY <1>1, <3>1 DEF Frame, Optional, Places
    <3>3. thread' = [thread EXCEPT ![t] = f]
      BY <1>1, <2>2
    <3> QED
      BY <1>3, <3>2, <3>3, FrameStep DEF TypeInv, FrameSound, Runs
  <2> QED
    BY <2>1, <2>2 DEF Judge
<1> QED
  BY <1>3, <1>4 DEF TypeInv, TypeOK

LEMMA DeadlineType ==
    ASSUME TypeInv, NEW t \in Threads, ComputeDeadline(t) \/ WriteDeadline(t)
    PROVE  TypeInv'
<1>1. CASE ComputeDeadline(t)
  <2> DEFINE f == [thread[t] EXCEPT !.at = "deadline", !.until = clock + RateWindow]
  <2>1. thread[t] \in Frame /\ thread \in [Threads -> Frame] /\ clock + RateWindow \in Nat
    BY CooldownAssumption DEF TypeInv, TypeOK
  <2>2. /\ f \in Frame /\ f.at = "deadline" /\ f.until \in Nat
        /\ f.kind = thread[t].kind /\ f.method = thread[t].method
    BY <2>1 DEF Frame, Optional, Places
  <2>3. thread' = [thread EXCEPT ![t] = f] /\ UNCHANGED <<clock, limit>>
    BY <1>1, <2>1 DEF ComputeDeadline
  <2>4. thread' \in [Threads -> Frame] /\ \A u \in Threads : FrameSound(u)'
    BY <2>2, <2>3, FrameStep DEF TypeInv, FrameSound, Runs
  <2> QED
    BY <1>1, <2>4 DEF ComputeDeadline, TypeInv, TypeOK
<1>2. CASE WriteDeadline(t)
  <2>1. thread[t].until \in Nat
    BY <1>2 DEF WriteDeadline, At, TypeInv, FrameSound
  <2>2. record' \in Record
    BY <1>2, <2>1 DEF WriteDeadline, TypeInv, TypeOK, Record, Optional
  <2>3. refusal' \in [until : Nat, quiet : BOOLEAN, alone : BOOLEAN]
    BY <1>2, <2>1 DEF WriteDeadline, TypeInv, TypeOK, Alone
  <2>4. thread' \in [Threads -> Frame] /\ \A u \in Threads : FrameSound(u)'
    BY <1>2, MoveType DEF WriteDeadline
  <2> QED
    BY <1>2, <2>2, <2>3, <2>4 DEF WriteDeadline, TypeInv, TypeOK
<1> QED
  BY <1>1, <1>2

LEMMA NextType == TypeInv /\ [Next]_vars => TypeInv'
<1> SUFFICES ASSUME TypeInv, [Next]_vars PROVE TypeInv'
  OBVIOUS
<1>1. ASSUME NEW t \in Threads, Begin(t) \/ Return(t) PROVE TypeInv'
  BY <1>1, BeginType
<1>2. ASSUME NEW t \in Threads, ReadDeadline(t) \/ Refresh(t) PROVE TypeInv'
  BY <1>2, ReadType, RefreshType
<1>3. ASSUME NEW t \in Threads, Reserve(t) \/ Count(t) PROVE TypeInv'
  BY <1>3, ReserveType, CountType
<1>4. ASSUME NEW t \in Threads, ReadWindowClock(t) \/ ReadFailureClock(t) PROVE TypeInv'
  BY <1>4, WindowType
<1>5. ASSUME NEW t \in Threads, RecordSuccess(t) \/ CountFailure(t) \/ Judge(t)
      PROVE  TypeInv'
  BY <1>5, RecordType, JudgeType
<1>6. ASSUME NEW t \in Threads, ComputeDeadline(t) \/ WriteDeadline(t) PROVE TypeInv'
  BY <1>6, DeadlineType
<1>7. CASE Tick
  BY <1>7 DEF Tick, TypeInv, TypeOK, FrameSound, At, Runs, Frame
<1>8. CASE UNCHANGED vars
  BY <1>8 DEF vars, TypeInv, TypeOK, FrameSound, At, Runs
<1> QED
  BY <1>1, <1>2, <1>3, <1>4, <1>5, <1>6, <1>7, <1>8 DEF Next

\* Every value keeps its type, and no thread uses an instant it has not read.
THEOREM CircuitTyped == Spec => []TypeInv
BY InitType, NextType, PTL DEF Spec

-----------------------------------------------------------------------------
\* The closed states whose end is a deadline.
Timed == {"rate_limited", "cooldown"}

LEMMA InitReopen == Init => ClosedCanReopen
BY DEF Init, ClosedCanReopen

\* A circuit that is closed without a deadline keeps the thread that will write it
\* while another thread moves.
LEMMA StillClosing ==
    ASSUME TypeInv, ClosedCanReopen, NEW t \in Threads,
           record.state \in Timed, record.until = None,
           thread[t].at \notin {"closing", "deadline"},
           \E f : thread' = [thread EXCEPT ![t] = f]
    PROVE  \E u \in Threads : thread'[u].at \in {"closing", "deadline"}
<1>1. PICK u \in Threads : thread[u].at \in {"closing", "deadline"}
  BY DEF ClosedCanReopen, Timed
<1>2. thread'[u].at \in {"closing", "deadline"}
  BY <1>1 DEF TypeInv, TypeOK
<1> QED
  BY <1>2

\* A step of a thread that leaves the record's state and deadline alone.
LEMMA QuietStep ==
    ASSUME TypeInv, ClosedCanReopen, NEW t \in Threads,
           record'.state = record.state, record'.until = record.until,
           thread[t].at \notin {"closing", "deadline"},
           \E f : thread' = [thread EXCEPT ![t] = f]
    PROVE  ClosedCanReopen'
BY StillClosing DEF ClosedCanReopen, Timed

\* Each way a thread's frame changes is an update of its own frame.
LEMMA MoveIsUpdate ==
    ASSUME TypeInv, NEW t \in Threads, NEW place,
           Leave(t) \/ Call(t) \/ Goto(t, place)
    PROVE  \E f : thread' = [thread EXCEPT ![t] = f]
<1>1. CASE Goto(t, place)
  <2>1. thread' = [thread EXCEPT ![t] = [thread[t] EXCEPT !.at = place, !.until = None,
                                                          !.now = 0]]
    BY <1>1 DEF Goto, TypeInv, TypeOK
  <2> QED
    BY <2>1
<1> QED
  BY <1>1 DEF Leave, Call

LEMMA LookReopen ==
    ASSUME TypeInv, ClosedCanReopen, NEW t \in Threads,
           \/ Begin(t) \/ Return(t) \/ ReadDeadline(t)
           \/ ReadWindowClock(t) \/ ReadFailureClock(t)
    PROVE  ClosedCanReopen'
<1>1. UNCHANGED record /\ thread[t].at \notin {"closing", "deadline"}
  BY DEF Begin, Return, ReadDeadline, ReadWindowClock, ReadFailureClock, At
<1>2. \E f : thread' = [thread EXCEPT ![t] = f]
  <2>1. CASE Begin(t)
    BY <2>1 DEF Begin
  <2>2. CASE Return(t)
    <3>1. thread \in [Threads -> Frame]
      BY DEF TypeInv, TypeOK
    <3>2. CASE thread' = [thread EXCEPT ![t].at = "read", ![t].method = "record_success"]
      BY <3>1, <3>2
    <3>3. CASE \E m \in FailureModes :
                 thread' = [thread EXCEPT ![t].at = "read",
                                          ![t].method = "record_failure",
                                          ![t].kind = m.kind, ![t].retry = m.retry]
      BY <3>1, <3>3
    <3> QED
      BY <2>2, <3>2, <3>3 DEF Return
  <2>3. CASE ReadDeadline(t)
    <3>1. CASE Back(t)
      BY <3>1, MoveIsUpdate DEF Back
    <3>2. CASE thread' = [thread EXCEPT ![t].at = "refresh", ![t].until = record.until]
      BY <3>2 DEF TypeInv, TypeOK
    <3> QED
      BY <2>3, <3>1, <3>2 DEF ReadDeadline
  <2>4. CASE ReadWindowClock(t) \/ ReadFailureClock(t)
    BY <2>4 DEF ReadWindowClock, ReadFailureClock, TypeInv, TypeOK
  <2> QED
    BY <2>1, <2>2, <2>3, <2>4
<1> QED
  BY <1>1, <1>2, QuietStep

LEMMA ReserveReopen ==
    ASSUME TypeInv, ClosedCanReopen, NEW t \in Threads, Reserve(t)
    PROVE  ClosedCanReopen'
<1>1. thread[t].at \notin {"closing", "deadline"}
  BY DEF Reserve, At
<1>2. CASE UNCHANGED record /\ (Leave(t) \/ Call(t) \/ Goto(t, "window"))
  BY <1>1, <1>2, MoveIsUpdate, QuietStep
<1>3. CASE record' = [record EXCEPT !.state = "quota_exhausted"]
  BY <1>3 DEF ClosedCanReopen, TypeInv, TypeOK, Record
<1>4. CASE Goto(t, "closing")
  BY <1>4 DEF Goto, ClosedCanReopen, TypeInv, TypeOK, Frame
<1> QED
  BY <1>2, <1>3, <1>4 DEF Reserve

LEMMA CountReopen ==
    ASSUME TypeInv, ClosedCanReopen, NEW t \in Threads, Count(t)
    PROVE  ClosedCanReopen'
<1> DEFINE now == thread[t].now
           w == Restarted(record, now)
           end == w.start + RateWindow
<1>1. record \in Record /\ now \in Nat /\ thread \in [Threads -> Frame]
  BY DEF TypeInv, TypeOK, Frame
<1>2. /\ w \in Record /\ w.state = record.state /\ w.until = record.until
  BY <1>1, RestartedTyped
<1>3. CASE thread' = [thread EXCEPT ![t].at = "deadline",
                                    ![t].until = IF now > end THEN now ELSE end,
                                    ![t].now = 0]
  BY <1>1, <1>3 DEF ClosedCanReopen, Frame
<1>4. CASE record' = [w EXCEPT !.used = @ + 1] /\ Call(t)
  <2>1. record'.state = record.state /\ record'.until = record.until
    BY <1>2, <1>4 DEF Record
  <2>2. thread[t].at \notin {"closing", "deadline"}
    BY DEF Count, At
  <2> QED
    BY <1>4, <2>1, <2>2, MoveIsUpdate, QuietStep
<1> QED
  BY <1>3, <1>4 DEF Count

LEMMA RecordReopen ==
    ASSUME TypeInv, ClosedCanReopen, NEW t \in Threads,
           RecordSuccess(t) \/ CountFailure(t) \/ Judge(t)
    PROVE  ClosedCanReopen'
<1>1. record \in Record /\ thread[t] \in Frame /\ thread \in [Threads -> Frame]
  BY DEF TypeInv, TypeOK
<1>2. CASE RecordSuccess(t)
  BY <1>1, <1>2 DEF RecordSuccess, ClosedCanReopen, Record
<1>3. CASE CountFailure(t)
  <2>1. /\ record'.state = record.state /\ record'.until = record.until
        /\ thread[t].at \notin {"closing", "deadline"}
    BY <1>1, <1>3 DEF CountFailure, Record, At
  <2> QED
    BY <1>3, <2>1, MoveIsUpdate, QuietStep DEF CountFailure
<1>4. CASE Judge(t)
  <2> DEFINE cooldown == FailedCooldown(thread[t].kind, record.failures, thread[t].retry)
             state == FailedState(thread[t].kind, record.failures)
  <2>1. state \in Timed => cooldown \in Nat
    <3>1. /\ thread[t].kind \in FailureKinds /\ thread[t].retry \in Optional(Nat)
          /\ record.failures \in Nat
      BY <1>1, <1>4, CooldownAssumption
         DEF Judge, At, TypeInv, FrameSound, Frame, Record, Optional
    <3> QED
      BY <3>1, CooldownTyped DEF Timed
  <2>2. record'.state = state
    BY <1>1, <1>4 DEF Judge, Record
  <2>3. CASE cooldown = None
    BY <2>1, <2>2, <2>3, NoneAssumption DEF ClosedCanReopen, Timed
  <2>4. CASE thread' = [thread EXCEPT ![t].at = "deadline",
                                      ![t].until = thread[t].now + cooldown, ![t].now = 0]
    BY <1>1, <2>4 DEF ClosedCanReopen, Frame
  <2> QED
    BY <1>4, <2>3, <2>4 DEF Judge
<1> QED
  BY <1>2, <1>3, <1>4

LEMMA RefreshReopen ==
    ASSUME TypeInv, ClosedCanReopen, NEW t \in Threads, Refresh(t)
    PROVE  ClosedCanReopen'
<1>1. record \in Record /\ thread[t].at \notin {"closing", "deadline"}
  BY DEF TypeInv, TypeOK, Refresh, At
<1>2. CASE UNCHANGED record
  BY <1>1, <1>2, MoveIsUpdate, QuietStep DEF Refresh, Back
<1>3. CASE record' = Reopened(record)
  BY <1>1, <1>3 DEF Reopened, Recovered, CoolingStates, ClosedCanReopen, Record
<1> QED
  BY <1>2, <1>3 DEF Refresh

LEMMA DeadlineReopen ==
    ASSUME TypeInv, ClosedCanReopen, NEW t \in Threads,
           ComputeDeadline(t) \/ WriteDeadline(t)
    PROVE  ClosedCanReopen'
<1>1. CASE ComputeDeadline(t)
  BY <1>1 DEF ComputeDeadline, ClosedCanReopen, TypeInv, TypeOK, Frame
<1>2. CASE WriteDeadline(t)
  <2>1. thread[t].until \in Nat /\ record \in Record
    BY <1>2 DEF WriteDeadline, At, TypeInv, TypeOK, FrameSound
  <2> QED
    BY <1>2, <2>1, NoneAssumption DEF WriteDeadline, ClosedCanReopen, Record
<1> QED
  BY <1>1, <1>2

LEMMA NextReopen == TypeInv /\ ClosedCanReopen /\ [Next]_vars => ClosedCanReopen'
<1> SUFFICES ASSUME TypeInv, ClosedCanReopen, [Next]_vars PROVE ClosedCanReopen'
  OBVIOUS
<1>1. ASSUME NEW t \in Threads,
             \/ Begin(t) \/ Return(t) \/ ReadDeadline(t)
             \/ ReadWindowClock(t) \/ ReadFailureClock(t)
      PROVE  ClosedCanReopen'
  BY <1>1, LookReopen
<1>2. ASSUME NEW t \in Threads, Refresh(t) PROVE ClosedCanReopen'
  BY <1>2, RefreshReopen
<1>3. ASSUME NEW t \in Threads, Reserve(t) \/ Count(t) PROVE ClosedCanReopen'
  BY <1>3, ReserveReopen, CountReopen
<1>4. ASSUME NEW t \in Threads, RecordSuccess(t) \/ CountFailure(t) \/ Judge(t)
      PROVE  ClosedCanReopen'
  BY <1>4, RecordReopen
<1>5. ASSUME NEW t \in Threads, ComputeDeadline(t) \/ WriteDeadline(t)
      PROVE  ClosedCanReopen'
  BY <1>5, DeadlineReopen
<1>6. CASE Tick \/ UNCHANGED vars
  BY <1>6 DEF Tick, vars, ClosedCanReopen
<1> QED
  BY <1>1, <1>2, <1>3, <1>4, <1>5, <1>6 DEF Next

(***************************************************************************)
(* A circuit closed for a rate limit or a cooldown always has a deadline,  *)
(* or a thread about to write one: whatever the interleaving of refreshes, *)
(* successes, failures and refusals (registry.py 103-226), no race leaves  *)
(* it closed for good.                                                     *)
(***************************************************************************)
THEOREM NeverClosedForGood == Spec => []ClosedCanReopen
BY InitType, NextType, InitReopen, NextReopen, PTL DEF Spec

-----------------------------------------------------------------------------
(***************************************************************************)
(* The rate window.  What has been let through fills the windows before    *)
(* this one and `used` of this one, and a window starts no earlier than    *)
(* RateWindow after the start of the one before it.                        *)
(***************************************************************************)
RateInv ==
    limit \in Nat =>
      /\ grants.windows = 0 => record.start = None /\ grants.count = 0
      /\ grants.windows > 0 =>
           /\ record.start \in Nat
           /\ record.start <= clock
           /\ record.used <= limit
           /\ grants.count <= limit * (grants.windows - 1) + record.used
           /\ grants.first + (grants.windows - 1) * RateWindow <= record.start

LEMMA InitRate == Init => RateInv
BY DEF Init, RateInv

\* The invariant reads nothing but the limit, the window, the history and the clock.
LEMMA SameRate ==
    ASSUME TypeInv, RateInv, UNCHANGED <<limit, grants>>,
           record'.start = record.start, record'.used = record.used,
           clock' \in {clock, clock + 1}
    PROVE  RateInv'
BY DEF RateInv, TypeInv, TypeOK, Record, Optional

LEMMA CountRate ==
    ASSUME TypeInv, RateInv, NEW t \in Threads, Count(t)
    PROVE  RateInv'
<1> DEFINE now == thread[t].now
           w == Restarted(record, now)
           more == IF w.used < limit THEN 1 ELSE 0
           n == grants.windows
<1>1. /\ now \in Nat /\ now <= clock /\ record \in Record /\ limit \in Nat \ {0}
      /\ clock \in Nat /\ n \in Nat /\ grants.count \in Nat /\ grants.first \in Nat
  BY DEF Count, At, TypeInv, TypeOK, FrameSound, Frame
<1>2. /\ grants'.count = grants.count + more
      /\ grants'.windows = n + IF WindowOver(record, now) THEN 1 ELSE 0
      /\ grants'.first = IF n = 0 THEN now ELSE grants.first
      /\ UNCHANGED <<clock, limit>>
  BY DEF Count
<1>3. w \in Record /\ w.start \in Nat
  BY <1>1, RestartedTyped
<1>4. record'.start = w.start /\ record'.used = w.used + more
  <2>1. CASE w.used >= limit /\ record' = [w EXCEPT !.state = "rate_limited"]
    BY <1>1, <1>3, <2>1 DEF Record
  <2>2. CASE w.used < limit /\ record' = [w EXCEPT !.used = @ + 1]
    BY <1>1, <1>3, <2>2 DEF Record
  <2> QED
    BY <2>1, <2>2 DEF Count
<1>5. CASE ~WindowOver(record, now)
  <2>1. w = record /\ n > 0
    BY <1>1, <1>5 DEF Restarted, WindowOver, RateInv
  <2>2. /\ record.start \in Nat /\ record.start <= clock /\ record.used <= limit
        /\ grants.count <= limit * (n - 1) + record.used
        /\ grants.first + (n - 1) * RateWindow <= record.start
        /\ record.used \in Nat /\ limit * (n - 1) \in Nat
    BY <1>1, <2>1 DEF RateInv, Record
  <2>3. /\ grants'.windows = n /\ grants'.first = grants.first
        /\ limit' * (grants'.windows - 1) = limit * (n - 1)
    BY <1>1, <1>2, <1>5, <2>1
  <2>4. record'.used <= limit /\ grants'.count <= limit * (n - 1) + record'.used
    <3>1. record'.used = record.used + more /\ grants'.count = grants.count + more
          /\ more \in {0, 1} /\ (more = 1 => record.used < limit)
      BY <1>2, <1>4, <2>1
    <3> HIDE DEF more
    <3> QED
      BY <1>1, <2>2, <3>1
  <2> QED
    BY <1>1, <1>2, <1>4, <2>1, <2>2, <2>3, <2>4 DEF RateInv
<1>6. CASE WindowOver(record, now) /\ n = 0
  <2>1. w.start = now /\ w.used = 0
    BY <1>1, <1>6 DEF Restarted, Record
  <2>2. /\ grants'.windows = 1 /\ grants'.first = now /\ grants'.count = more
        /\ record'.used = more /\ more \in {0, 1} /\ limit' = limit
        /\ limit' * (grants'.windows - 1) = 0
        /\ (grants'.windows - 1) * RateWindow = 0
    BY <1>1, <1>2, <1>4, <1>6, <2>1, CooldownAssumption DEF RateInv
  <2>3. record'.start = now /\ clock' = clock
    BY <1>2, <1>4, <2>1
  <2> HIDE DEF more
  <2> QED
    BY <1>1, <2>2, <2>3 DEF RateInv
<1>7. CASE WindowOver(record, now) /\ n > 0
  <2>1. /\ w.start = now /\ w.used = 0
        /\ now >= record.start + RateWindow
    BY <1>1, <1>7, CooldownAssumption, NoneAssumption
       DEF Restarted, Record, WindowOver, RateInv
  <2>2. grants.count <= limit * n
    <3>1. limit * n = limit * (n - 1) + limit /\ limit * (n - 1) \in Nat
      BY <1>1, <1>7
    <3>2. grants.count <= limit * (n - 1) + record.used /\ record.used <= limit
      BY <1>1, <1>7 DEF RateInv
    <3>3. record.used \in Nat
      BY <1>1 DEF Record
    <3> QED
      BY <1>1, <3>1, <3>2, <3>3
  <2>3. grants.first + n * RateWindow <= now
    <3>1. n * RateWindow = (n - 1) * RateWindow + RateWindow
          /\ (n - 1) * RateWindow \in Nat
      BY <1>1, <1>7, CooldownAssumption
    <3>2. grants.first + (n - 1) * RateWindow <= record.start /\ record.start \in Nat
      BY <1>1, <1>7 DEF RateInv
    <3> QED
      BY <1>1, <2>1, <3>1, <3>2, CooldownAssumption
  <2>4. grants'.windows = n + 1 /\ grants'.first = grants.first
    BY <1>1, <1>2, <1>7
  <2>5. /\ record'.used <= limit' /\ grants'.count <= limit' * n + record'.used
    <3>1. record'.used = more /\ more \in {0, 1} /\ limit * n \in Nat
      BY <1>1, <1>4, <2>1
    <3>2. limit' = limit /\ grants'.count = grants.count + more
      BY <1>2
    <3>3. limit' * n = limit * n
      BY <3>2
    <3> HIDE DEF more
    <3>4. record'.used <= limit'
      BY <1>1, <3>1, <3>2
    <3>5. grants'.count <= limit' * n + record'.used
      BY <1>1, <2>2, <3>1, <3>2, <3>3
    <3> QED
      BY <3>4, <3>5
  <2> QED
    BY <1>1, <1>2, <1>4, <2>1, <2>3, <2>4, <2>5 DEF RateInv
<1> QED
  BY <1>1, <1>5, <1>6, <1>7

LEMMA NextRate == TypeInv /\ RateInv /\ [Next]_vars => RateInv'
<1> SUFFICES ASSUME TypeInv, RateInv, [Next]_vars PROVE RateInv'
  OBVIOUS
<1>1. record \in Record /\ thread \in [Threads -> Frame] /\ clock \in Nat
  BY DEF TypeInv, TypeOK
<1>2. ASSUME NEW t \in Threads,
             \/ Begin(t) \/ Return(t) \/ ReadDeadline(t) \/ ReadWindowClock(t)
             \/ ReadFailureClock(t) \/ ComputeDeadline(t)
      PROVE  RateInv'
  BY <1>2, SameRate
     DEF Begin, Return, ReadDeadline, ReadWindowClock, ReadFailureClock, ComputeDeadline
<1>3. ASSUME NEW t \in Threads, Refresh(t) PROVE RateInv'
  BY <1>1, <1>3, SameRate DEF Refresh, Reopened, Record
<1>4. ASSUME NEW t \in Threads, Reserve(t) PROVE RateInv'
  BY <1>1, <1>4, SameRate DEF Reserve, Record
<1>5. ASSUME NEW t \in Threads, RecordSuccess(t) PROVE RateInv'
  BY <1>1, <1>5, SameRate DEF RecordSuccess, Record
<1>6. ASSUME NEW t \in Threads, CountFailure(t) PROVE RateInv'
  BY <1>1, <1>6, SameRate DEF CountFailure, Record
<1>7. ASSUME NEW t \in Threads, Judge(t) PROVE RateInv'
  BY <1>1, <1>7, SameRate DEF Judge, Record
<1>8. ASSUME NEW t \in Threads, WriteDeadline(t) PROVE RateInv'
  BY <1>1, <1>8, SameRate DEF WriteDeadline, Record
<1>9. CASE Tick \/ UNCHANGED vars
  BY <1>9, SameRate DEF Tick, vars
<1> QED
  BY <1>2, <1>3, <1>4, <1>5, <1>6, <1>7, <1>8, <1>9, CountRate DEF Next

LEMMA RateIsLongRun == TypeInv /\ RateInv => LongRunRate
<1> SUFFICES ASSUME TypeInv, RateInv, limit # None, grants.count > 0
             PROVE  grants.count <= limit * (1 + (clock - grants.first) \div RateWindow)
  BY DEF LongRunRate
<1> DEFINE n == grants.windows
           past == clock - grants.first
           q == past \div RateWindow
<1>1. /\ limit \in Nat /\ n \in Nat /\ clock \in Nat /\ grants.first \in Nat
      /\ grants.count \in Nat /\ record \in Record /\ RateWindow \in Nat \ {0}
  BY CooldownAssumption DEF TypeInv, TypeOK, Optional
<1>2. /\ n > 0 /\ record.start \in Nat /\ record.start <= clock /\ record.used <= limit
      /\ grants.count <= limit * (n - 1) + record.used /\ record.used \in Nat
      /\ grants.first + (n - 1) * RateWindow <= record.start
  BY <1>1 DEF RateInv, Record
<1>3. past \in Nat /\ (n - 1) * RateWindow <= past
  <2>1. (n - 1) * RateWindow \in Nat
    BY <1>1, <1>2
  <2> QED
    BY <1>1, <1>2, <2>1
<1>4. q \in Nat /\ n - 1 <= q
  BY <1>1, <1>2, <1>3, QuotientBounds
<1>5. limit * n <= limit * (1 + q)
  <2> HIDE DEF q
  <2> QED
    BY <1>1, <1>2, <1>4, ProductMonotone
<1>6. grants.count <= limit * n
  <2>1. limit * n = limit * (n - 1) + limit /\ limit * (n - 1) \in Nat
    BY <1>1, <1>2
  <2> QED
    BY <1>1, <1>2, <2>1
<1>7. limit * n \in Nat /\ limit * (1 + q) \in Nat
  <2> HIDE DEF q
  <2> QED
    BY <1>1, <1>4
<1> QED
  BY <1>1, <1>5, <1>6, <1>7

(***************************************************************************)
(* rate_limit_per_minute over any stretch of time (registry.py 122-134):   *)
(* no interleaving of the window's check, restart and count lets through   *)
(* more than its limit for each window length begun since the first        *)
(* request.                                                                *)
(***************************************************************************)
THEOREM RateBounded == Spec => []LongRunRate
BY InitType, NextType, InitRate, NextRate, RateIsLongRun, PTL DEF Spec

-----------------------------------------------------------------------------
(***************************************************************************)
(* Quiet refusals.  While a refusal recorded alone runs, the circuit is    *)
(* closed for exactly its cooldown, and the threads in the registry are    *)
(* readers and requests that have not passed the check of the state.       *)
(***************************************************************************)
Reading(t) ==
    /\ thread[t].at \in {"idle", "read", "refresh", "body"}
    /\ thread[t].at # "idle" => thread[t].method \in {"health", "reserve_request"}
    /\ At(t, "refresh") => thread[t].until = refusal.until

InForce == refusal.quiet /\ clock < refusal.until

QuietHeld ==
    InForce => /\ record.state = "rate_limited"
               /\ record.until = refusal.until
               /\ \A t \in Threads : Reading(t)

\* A failure is recorded alone when nobody has moved since its call returned; the
\* state it has set is then still there when it writes the deadline.
AloneHeld ==
    refusal.alone =>
      \A t \in Threads :
        /\ ~At(t, "idle") => Alone(t)
        /\ At(t, "deadline") /\ thread[t].kind = "rate_limit"
             => record.state = "rate_limited"

\* Only the recording of a failure has a kind.
Reserving == {"calling", "window", "count", "closing"}

KindHeld ==
    \A t \in Threads :
      ~Runs(t, "record_failure") \/ thread[t].at \in Reserving => thread[t].kind = None

QuietInv == QuietHeld /\ AloneHeld /\ KindHeld

LEMMA InitQuiet == Init => QuietInv
BY DEF Init, At, Reserving, QuietInv, QuietHeld, InForce, AloneHeld, KindHeld, Idle, Runs

\* A step that only moves thread t, and moves it among the readers.
LEMMA ReaderStep ==
    ASSUME TypeInv, QuietInv, NEW t \in Threads, NEW f \in Frame,
           thread' = [thread EXCEPT ![t] = f], UNCHANGED <<clock, refusal>>,
           InForce => UNCHANGED record /\ Reading(t)',
           ~At(t, "idle"),
           f.at = "deadline" /\ f.kind = "rate_limit" => record'.state = "rate_limited",
           f.method # "record_failure" \/ f.at \in Reserving => f.kind = None
    PROVE  QuietInv'
<1>1. thread \in [Threads -> Frame]
  BY DEF TypeInv, TypeOK
<1>2. QuietHeld'
  BY <1>1 DEF QuietInv, QuietHeld, InForce, Reading, At
<1>3. AloneHeld'
  <2> SUFFICES ASSUME refusal.alone, NEW u \in Threads
               PROVE  /\ ~At(u, "idle")' => Alone(u)'
                      /\ At(u, "deadline")' /\ thread'[u].kind = "rate_limit"
                           => record'.state = "rate_limited"
    BY DEF AloneHeld
  <2>1. \A v \in Threads \ {t} : At(v, "idle") /\ thread'[v] = thread[v]
    BY <1>1 DEF QuietInv, AloneHeld, Alone
  <2> QED
    BY <1>1, <2>1 DEF Alone, At
<1>4. KindHeld'
  BY <1>1 DEF QuietInv, KindHeld, Reserving, Runs, At
<1> QED
  BY <1>2, <1>3, <1>4 DEF QuietInv

LEMMA BeginQuiet ==
    ASSUME TypeInv, QuietInv, NEW t \in Threads, Begin(t)
    PROVE  QuietInv'
<1>1. thread \in [Threads -> Frame]
  BY DEF TypeInv, TypeOK
<1>2. PICK m \in {"health", "reserve_request"} :
        thread' = [thread EXCEPT ![t] = [Idle EXCEPT !.at = "read", !.method = m]]
  BY DEF Begin
<1>3. /\ thread'[t].at = "read" /\ thread'[t].method = m /\ thread'[t].kind = None
      /\ \A u \in Threads \ {t} : thread'[u] = thread[u]
  BY <1>1, <1>2 DEF Idle
<1>4. /\ refusal'.alone = FALSE /\ refusal'.quiet = refusal.quiet
      /\ refusal'.until = refusal.until /\ UNCHANGED <<clock, record>>
  BY DEF Begin, TypeInv, TypeOK
<1>5. QuietHeld'
  BY <1>3, <1>4 DEF QuietInv, QuietHeld, InForce, Reading, At
<1>6. AloneHeld'
  BY <1>4 DEF AloneHeld
<1>7. KindHeld'
  BY <1>3 DEF QuietInv, KindHeld, Reserving, Runs, At
<1> QED
  BY <1>5, <1>6, <1>7 DEF QuietInv

LEMMA ReturnQuiet ==
    ASSUME TypeInv, QuietInv, NEW t \in Threads, Return(t)
    PROVE  QuietInv'
<1>1. thread \in [Threads -> Frame] /\ thread[t] \in Frame
  BY DEF TypeInv, TypeOK
<1>2. ~InForce /\ ~InForce'
  <2>1. ~InForce
    BY DEF Return, At, QuietInv, QuietHeld, Reading
  <2> QED
    BY <2>1 DEF Return, InForce, TypeInv, TypeOK
<1>3. /\ \A u \in Threads \ {t} : thread'[u] = thread[u]
      /\ thread'[t].at = "read"
      /\ thread'[t].method # "record_failure" => thread'[t].kind = thread[t].kind
      /\ thread'[t].method \in {"record_success", "record_failure"}
  <2>1. CASE thread' = [thread EXCEPT ![t].at = "read", ![t].method = "record_success"]
    BY <1>1, <2>1 DEF Frame
  <2>2. CASE \E m \in FailureModes :
               thread' = [thread EXCEPT ![t].at = "read", ![t].method = "record_failure",
                                        ![t].kind = m.kind, ![t].retry = m.retry]
    BY <1>1, <2>2 DEF Frame
  <2> QED
    BY <2>1, <2>2 DEF Return
<1>4. AloneHeld'
  <2> SUFFICES ASSUME refusal'.alone PROVE \A u \in Threads \ {t} : At(u, "idle")
    BY <1>1, <1>3 DEF AloneHeld, Alone, At
  <2>1. CASE UNCHANGED refusal
    BY <2>1 DEF Return, QuietInv, AloneHeld, Alone, At
  <2>2. CASE refusal' = [refusal EXCEPT !.alone = Alone(t)]
    <3>1. refusal'.alone = Alone(t)
      BY <2>2 DEF TypeInv, TypeOK
    <3> QED
      BY <3>1 DEF Alone
  <2> QED
    BY <2>1, <2>2 DEF Return
<1>5. KindHeld'
  <2>1. thread[t].kind = None
    BY DEF Return, At, QuietInv, KindHeld, Reserving
  <2> QED
    BY <1>3, <2>1 DEF QuietInv, KindHeld, Reserving, Runs, At
<1> QED
  BY <1>2, <1>4, <1>5 DEF QuietInv, QuietHeld

\* health()'s return moves a thread among the readers, or on with its recording.
LEMMA BackQuiet ==
    ASSUME TypeInv, QuietInv, NEW t \in Threads, Back(t), UNCHANGED <<clock, refusal>>,
           thread[t].at \in {"read", "refresh"}, InForce => UNCHANGED record
    PROVE  QuietInv'
<1>1. PICK f \in Frame :
        /\ thread' = [thread EXCEPT ![t] = f]
        /\ f.at \in {"idle", "body"}
        /\ f.at = "body" => f.method = thread[t].method
        /\ f.method # "record_failure" \/ f.at \in Reserving => f.kind = None
  <2>1. CASE Leave(t)
    <3>1. thread' = [thread EXCEPT ![t] = Idle] /\ Idle.at = "idle" /\ Idle.kind = None
      BY <2>1 DEF Leave, Idle
    <3> QED
      BY <3>1, IdleTyped
  <2>2. CASE Goto(t, "body")
    <3>1. PICK f \in Frame : /\ thread' = [thread EXCEPT ![t] = f]
                             /\ f.at = "body"
                             /\ f.kind = thread[t].kind
                             /\ f.method = thread[t].method
      BY <2>2, MovesTyped DEF Places
    <3> QED
      BY <3>1 DEF QuietInv, KindHeld, Reserving, Runs
  <2> QED
    BY <2>1, <2>2 DEF Back
<1>2. InForce => Reading(t)'
  BY <1>1 DEF QuietInv, QuietHeld, Reading, At, TypeInv, TypeOK
<1> QED
  BY <1>1, <1>2, ReaderStep DEF At

LEMMA HealthQuiet ==
    ASSUME TypeInv, QuietInv, NEW t \in Threads, ReadDeadline(t) \/ Refresh(t)
    PROVE  QuietInv'
<1>1. CASE ReadDeadline(t) /\ Back(t)
  BY <1>1, BackQuiet DEF ReadDeadline, At
<1>2. CASE /\ ReadDeadline(t)
           /\ record.until # None
           /\ thread' = [thread EXCEPT ![t].at = "refresh", ![t].until = record.until]
  <2> DEFINE f == [thread[t] EXCEPT !.at = "refresh", !.until = record.until]
  <2>1. thread[t] \in Frame /\ thread \in [Threads -> Frame] /\ record \in Record
    BY DEF TypeInv, TypeOK
  <2>2. /\ f \in Frame /\ f.at = "refresh" /\ f.until = record.until
        /\ f.method = thread[t].method /\ f.kind = thread[t].kind
    BY <2>1 DEF Frame, Record, Places
  <2>3. thread' = [thread EXCEPT ![t] = f] /\ UNCHANGED <<clock, refusal, record>>
    BY <1>2, <2>1 DEF ReadDeadline
  <2>4. ~At(t, "idle") /\ thread[t].at = "read"
    BY <1>2 DEF ReadDeadline, At
  <2>5. InForce => Reading(t)'
    BY <2>1, <2>2, <2>3, <2>4 DEF QuietInv, QuietHeld, Reading, At
  <2> HIDE DEF f
  <2> QED
    BY <2>2, <2>3, <2>4, <2>5, ReaderStep DEF QuietInv, KindHeld, Reserving, Runs
<1>3. CASE Refresh(t)
  <2>1. InForce => UNCHANGED record
    BY <1>3 DEF Refresh, Expired, InForce, QuietInv, QuietHeld, Reading, At, TypeInv, TypeOK
  <2> QED
    BY <1>3, <2>1, BackQuiet DEF Refresh, At
<1> QED
  BY <1>1, <1>2, <1>3 DEF ReadDeadline

LEMMA ReserveQuiet ==
    ASSUME TypeInv, QuietInv, NEW t \in Threads, Reserve(t)
    PROVE  QuietInv'
<1>1. InForce => UNCHANGED record /\ Leave(t)
  BY DEF Reserve, QuietInv, QuietHeld, OpenStates
<1>2. PICK f \in Frame :
        /\ thread' = [thread EXCEPT ![t] = f]
        /\ f.at # "deadline"
        /\ f.kind = None
        /\ InForce => f = Idle
  <2>1. thread[t].kind = None
    BY DEF Reserve, QuietInv, KindHeld, Runs
  <2>2. CASE Leave(t)
    <3>1. thread' = [thread EXCEPT ![t] = Idle] /\ Idle.at = "idle" /\ Idle.kind = None
      BY <2>2 DEF Leave, Idle
    <3> QED
      BY <3>1, IdleTyped
  <2>3. CASE ~Leave(t)
    <3>1. ~InForce
      BY <1>1, <2>3
    <3>2. Call(t) \/ Goto(t, "closing") \/ Goto(t, "window")
      BY <2>3 DEF Reserve
    <3> QED
      BY <2>1, <3>1, <3>2, MovesTyped DEF Places
  <2> QED
    BY <2>2, <2>3
<1>3. InForce => Reading(t)'
  BY <1>2 DEF Reading, Idle, At, TypeInv, TypeOK
<1> QED
  BY <1>1, <1>2, <1>3, ReaderStep DEF Reserve, At

\* Past the check of the state no thread stands while a quiet refusal runs.
LEMMA PastQuiet ==
    ASSUME TypeInv, QuietInv, NEW t \in Threads,
           \/ ReadWindowClock(t) \/ Count(t) \/ RecordSuccess(t) \/ CountFailure(t)
           \/ ReadFailureClock(t) \/ Judge(t) \/ ComputeDeadline(t)
    PROVE  QuietInv'
<1>1. thread \in [Threads -> Frame] /\ thread[t] \in Frame /\ record \in Record
  BY DEF TypeInv, TypeOK
<1>2. ~InForce /\ ~At(t, "idle") /\ UNCHANGED <<clock, refusal>>
  BY DEF QuietInv, QuietHeld, Reading, At, Runs, ReadWindowClock, Count, RecordSuccess,
         CountFailure, ReadFailureClock, Judge, ComputeDeadline
<1>3. /\ ~Runs(t, "record_failure") \/ thread[t].at \in Reserving => thread[t].kind = None
      /\ None # "rate_limit"
  BY CircuitAssumption DEF QuietInv, KindHeld, FailureKinds
<1>4. TypeInv'
  BY WindowType, CountType, RecordType, JudgeType, DeadlineType
<1>5. PICK f \in Frame :
        /\ thread' = [thread EXCEPT ![t] = f]
        /\ f.at = "deadline" /\ f.kind = "rate_limit" => record'.state = "rate_limited"
        /\ f.method # "record_failure" \/ f.at \in Reserving => f.kind = None
  <2> SUFFICES
        /\ \E f : thread' = [thread EXCEPT ![t] = f]
        /\ thread'[t].at = "deadline" /\ thread'[t].kind = "rate_limit"
             => record'.state = "rate_limited"
        /\ thread'[t].method # "record_failure" \/ thread'[t].at \in Reserving
             => thread'[t].kind = None
    BY <1>1, <1>4 DEF TypeInv, TypeOK
  <2>1. CASE ReadWindowClock(t) \/ ReadFailureClock(t)
    <3>1. PICK place \in {"count", "judge"} :
            thread' = [thread EXCEPT ![t].at = place, ![t].now = clock]
      BY <2>1 DEF ReadWindowClock, ReadFailureClock
    <3> QED
      BY <1>1, <1>3, <2>1, <3>1
         DEF Frame, Runs, At, Reserving, ReadWindowClock, ReadFailureClock
  <2>2. CASE ComputeDeadline(t)
    <3>1. thread[t].kind = None
      BY <1>3, <2>2 DEF ComputeDeadline, At, Reserving
    <3> QED
      BY <1>1, <1>3, <2>2, <3>1 DEF ComputeDeadline, Frame, Runs, Reserving
  <2>3. CASE RecordSuccess(t) \/ CountFailure(t)
    BY <1>1, <1>3, <2>3
       DEF RecordSuccess, CountFailure, Leave, Goto, Idle, Frame, Runs, Reserving
  <2>4. CASE Judge(t)
    <3>1. CASE Leave(t)
      BY <1>1, <3>1 DEF Leave, Idle, Reserving
    <3>2. CASE thread' = [thread EXCEPT
                 ![t].at = "deadline",
                 ![t].until = thread[t].now
                    + FailedCooldown(thread[t].kind, record.failures, thread[t].retry),
                 ![t].now = 0]
      <4>1. /\ thread'[t].kind = thread[t].kind /\ thread'[t].method = thread[t].method
            /\ thread'[t].at = "deadline"
        BY <1>1, <3>2 DEF Frame
      <4>2. record'.state = FailedState(thread[t].kind, record.failures)
        BY <1>1, <2>4 DEF Judge, Record
      <4>3. thread[t].kind = "rate_limit" => record'.state = "rate_limited"
        BY <4>2 DEF FailedState, Transient
      <4> QED
        BY <1>1, <1>3, <3>2, <4>1, <4>3 DEF Runs, Reserving
    <3> QED
      BY <2>4, <3>1, <3>2 DEF Judge
  <2>5. CASE Count(t)
    <3>1. CASE Call(t)
      BY <1>1, <3>1 DEF Call, Idle
    <3>2. CASE ~Call(t)
      <4>1. thread[t].kind = None
        BY <1>3, <2>5 DEF Count, At, Reserving
      <4>2. PICK i : thread' = [thread EXCEPT ![t].at = "deadline", ![t].until = i,
                                              ![t].now = 0]
        BY <2>5, <3>2 DEF Count
      <4> QED
        BY <1>1, <1>3, <4>1, <4>2 DEF Frame
    <3> QED
      BY <3>1, <3>2
  <2> QED
    BY <2>1, <2>2, <2>3, <2>4, <2>5
<1> QED
  BY <1>2, <1>5, ReaderStep

LEMMA WriteQuiet ==
    ASSUME TypeInv, QuietInv, NEW t \in Threads, WriteDeadline(t)
    PROVE  QuietInv'
<1>1. thread \in [Threads -> Frame] /\ thread[t] \in Frame /\ record \in Record
  BY DEF TypeInv, TypeOK
<1>2. /\ ~InForce /\ ~At(t, "idle") /\ clock' = clock
      /\ thread' = [thread EXCEPT ![t] = Idle]
      /\ record'.until = thread[t].until /\ record'.state = record.state
      /\ \A u \in Threads \ {t} : thread'[u] = thread[u]
      /\ thread'[t].at = "idle"
  BY <1>1 DEF QuietInv, QuietHeld, Reading, At, WriteDeadline, Leave, Record, Idle
<1>3. CASE thread[t].kind # "rate_limit"
  <2>1. UNCHANGED refusal
    BY <1>3 DEF WriteDeadline
  <2> QED
    BY <1>2, <2>1, IdleTyped, ReaderStep DEF Idle
<1>4. CASE thread[t].kind = "rate_limit"
  <2>1. /\ refusal'.until = thread[t].until
        /\ refusal'.quiet = (refusal.alone /\ Alone(t))
        /\ refusal'.alone = refusal.alone
    BY <1>4 DEF WriteDeadline, TypeInv, TypeOK
  <2>2. QuietHeld'
    <3> SUFFICES ASSUME refusal.alone, Alone(t)
                 PROVE  /\ record.state = "rate_limited"
                        /\ \A u \in Threads : Reading(u)'
      BY <1>2, <2>1 DEF QuietHeld, InForce
    <3>1. record.state = "rate_limited"
      BY <1>4 DEF QuietInv, AloneHeld, WriteDeadline
    <3>2. \A u \in Threads : thread'[u].at = "idle"
      BY <1>2 DEF Alone, At
    <3> QED
      BY <3>1, <3>2 DEF Reading, At
  <2>3. AloneHeld'
    <3> SUFFICES ASSUME refusal.alone, NEW u \in Threads PROVE At(u, "idle")'
      BY <2>1 DEF AloneHeld, At
    <3> QED
      BY <1>2 DEF QuietInv, AloneHeld, Alone, At
  <2>4. KindHeld'
    BY <1>2 DEF QuietInv, KindHeld, Reserving, Runs, Idle
  <2> QED
    BY <2>2, <2>3, <2>4 DEF QuietInv
<1> QED
  BY <1>3, <1>4

LEMMA NextQuiet == TypeInv /\ QuietInv /\ [Next]_vars => QuietInv'
<1> SUFFICES ASSUME TypeInv, QuietInv, [Next]_vars PROVE QuietInv'
  OBVIOUS
<1>1. ASSUME NEW t \in Threads, Begin(t) \/ Return(t) PROVE QuietInv'
  BY <1>1, BeginQuiet, ReturnQuiet
<1>2. ASSUME NEW t \in Threads, ReadDeadline(t) \/ Refresh(t) PROVE QuietInv'
  BY <1>2, HealthQuiet
<1>3. ASSUME NEW t \in Threads, Reserve(t) PROVE QuietInv'
  BY <1>3, ReserveQuiet
<1>4. ASSUME NEW t \in Threads,
             \/ ReadWindowClock(t) \/ Count(t) \/ RecordSuccess(t) \/ CountFailure(t)
             \/ ReadFailureClock(t) \/ Judge(t) \/ ComputeDeadline(t)
      PROVE  QuietInv'
  BY <1>4, PastQuiet
<1>5. ASSUME NEW t \in Threads, WriteDeadline(t) PROVE QuietInv'
  BY <1>5, WriteQuiet
<1>6. CASE Tick
  BY <1>6 DEF Tick, QuietInv, QuietHeld, InForce, Reading, AloneHeld, KindHeld, Alone, At,
              Runs, TypeInv, TypeOK
<1>7. CASE UNCHANGED vars
  BY <1>7 DEF vars, QuietInv, QuietHeld, InForce, Reading, AloneHeld, KindHeld, Alone, At,
              Runs
<1> QED
  BY <1>1, <1>2, <1>3, <1>4, <1>5, <1>6, <1>7 DEF Next

\* The name of the step QuietRefusalHonoured forbids.
Honours ==
    \A t \in Threads :
      ~At(t, "calling") /\ thread'[t].at = "calling" /\ refusal.quiet
        => clock >= refusal.until

LEMMA StepHonours ==
    ASSUME TypeInv, QuietInv, [Next]_vars
    PROVE  Honours
<1> SUFFICES ASSUME NEW t \in Threads, ~At(t, "calling"), thread'[t].at = "calling",
                    InForce
             PROVE  FALSE
  BY DEF Honours, InForce, TypeInv, TypeOK
<1>1. /\ thread \in [Threads -> Frame] /\ record.state = "rate_limited"
      /\ \A u \in Threads : Reading(u)
  BY DEF TypeInv, TypeOK, QuietInv, QuietHeld
<1>2. ASSUME NEW u \in Threads, Begin(u) \/ ReadDeadline(u) \/ Refresh(u) \/ Reserve(u)
      PROVE  FALSE
  <2>1. u = t
    <3>1. \E f : thread' = [thread EXCEPT ![u] = f]
      <4>1. CASE Begin(u)
        BY <4>1 DEF Begin
      <4>2. CASE ReadDeadline(u) /\ ~Back(u)
        BY <1>1, <4>2 DEF ReadDeadline
      <4>3. CASE Back(u) \/ Leave(u)
        BY <4>3, MoveIsUpdate DEF Back
      <4> QED
        BY <1>1, <1>2, <4>1, <4>2, <4>3 DEF ReadDeadline, Refresh, Reserve, OpenStates
    <3> QED
      BY <1>1, <3>1 DEF At
  <2>2. CASE Begin(u)
    BY <1>1, <2>1, <2>2 DEF Begin
  <2>3. CASE Leave(u)
    BY <1>1, <2>1, <2>3 DEF Leave, Idle
  <2>4. CASE Goto(u, "body")
    BY <1>1, <2>1, <2>4 DEF Goto, Frame
  <2>5. CASE thread' = [thread EXCEPT ![u].at = "refresh", ![u].until = record.until]
    BY <1>1, <2>1, <2>5 DEF Frame
  <2> QED
    BY <1>1, <1>2, <2>2, <2>3, <2>4, <2>5 DEF ReadDeadline, Refresh, Reserve, Back, OpenStates
<1>3. ASSUME NEW u \in Threads,
             \/ ReadWindowClock(u) \/ Count(u) \/ RecordSuccess(u) \/ CountFailure(u)
             \/ ReadFailureClock(u) \/ Judge(u) \/ ComputeDeadline(u)
             \/ WriteDeadline(u) \/ Return(u)
      PROVE  FALSE
  BY <1>1, <1>3
     DEF Reading, At, Runs, ReadWindowClock, Count, RecordSuccess, CountFailure,
         ReadFailureClock, Judge, ComputeDeadline, WriteDeadline, Return
<1>4. CASE Tick \/ UNCHANGED vars
  BY <1>4 DEF Tick, vars, At
<1> QED
  BY <1>2, <1>3, <1>4 DEF Next

(***************************************************************************)
(* A rate-limit refusal that was recorded undisturbed (registry.py         *)
(* 176-204) is honoured by every thread until its cooldown is over.        *)
(***************************************************************************)
THEOREM QuietRefusalsHonoured == Spec => QuietRefusalHonoured
<1>1. TypeInv /\ QuietInv /\ [Next]_vars => [Honours]_vars
  BY StepHonours
<1>2. Spec => [][Honours]_vars
  BY <1>1, InitType, NextType, InitQuiet, NextQuiet, PTL DEF Spec
<1> QED
  BY <1>2 DEF Honours, QuietRefusalHonoured

-----------------------------------------------------------------------------
(***************************************************************************)
(* The methods taken whole.  The operations on a record of instants are    *)
(* those of ProviderRegistry on what is seen of it.                        *)
(***************************************************************************)
\* A rate window began in the past.
Begun(r, now) == r.start # None => r.start <= now

View == [state : HealthStates, failures : Nat, until : Optional(Nat),
         quota : Optional(Nat), age : Optional(Nat), used : Nat]

LEMMA SameView ==
    ASSUME NEW a \in View, NEW b \in View, a.state = b.state, a.failures = b.failures,
           a.until = b.until, a.quota = b.quota, a.age = b.age, a.used = b.used
    PROVE  a = b
BY DEF View

LEMMA SeenFields ==
    ASSUME NEW r \in Record, NEW now \in Nat, Begun(r, now)
    PROVE  /\ Seen(r, now) \in View
           /\ Seen(r, now).state = r.state
           /\ Seen(r, now).failures = r.failures
           /\ Seen(r, now).until = IF r.until = None THEN None
                                   ELSE IF r.until <= now THEN 0 ELSE r.until - now
           /\ Seen(r, now).quota = r.quota
           /\ Seen(r, now).age = IF r.start = None THEN None
                                 ELSE IF now - r.start >= RateWindow THEN RateWindow
                                 ELSE now - r.start
           /\ Seen(r, now).used = r.used
<1>1. r.until # None => r.until \in Nat
  BY DEF Record, Optional
<1>2. r.start # None => r.start \in Nat
  BY DEF Record, Optional
<1> QED
  BY <1>1, <1>2, NoneAssumption, CooldownAssumption DEF Seen, View, Record, Begun, Optional

\* What is seen of q, from what is seen of r and the fields q does not share with it.
LEMMA SeenIs ==
    ASSUME NEW r \in Record, NEW now \in Nat, Begun(r, now), NEW q \in Record,
           q.quota = r.quota, q.start = r.start, NEW h \in View,
           h.state = q.state, h.failures = q.failures, h.used = q.used,
           h.until = IF q.until = None THEN None
                     ELSE IF q.until <= now THEN 0 ELSE q.until - now,
           h.quota = Seen(r, now).quota, h.age = Seen(r, now).age
    PROVE  h = Seen(q, now)
<1>1. /\ Seen(q, now) \in View
      /\ Seen(q, now).state = h.state /\ Seen(q, now).failures = h.failures
      /\ Seen(q, now).used = h.used /\ Seen(q, now).until = h.until
  BY SeenFields DEF Begun
<1>2. Seen(q, now).quota = h.quota /\ Seen(q, now).age = h.age
  BY DEF Seen
<1> QED
  BY <1>1, <1>2, SameView

LEMMA SeenRefreshed ==
    ASSUME NEW r \in Record, NEW now \in Nat, Begun(r, now)
    PROVE  /\ r.until = None => Refreshed(Seen(r, now)) = Seen(r, now)
           /\ r.until # None => Refreshed(Seen(r, now))
                = Seen(IF now >= r.until THEN Reopened(r) ELSE r, now)
<1>1. CASE r.until = None
  BY <1>1, NoneAssumption DEF Seen, Refreshed
<1>2. CASE r.until \in Nat /\ now >= r.until
  <2> DEFINE q == Reopened(r)
             state == IF r.state \in CoolingStates THEN Recovered(r) ELSE r.state
  <2>1. Seen(r, now).until = 0 /\ Seen(r, now).state = r.state
        /\ Seen(r, now).failures = r.failures
    BY <1>2, NoneAssumption DEF Seen
  <2>2. /\ q \in Record /\ q.state = state /\ q.until = None
        /\ q.failures = r.failures /\ q.quota = r.quota /\ q.start = r.start
        /\ q.used = r.used
    BY DEF Reopened, Record, Recovered, HealthStates, Optional
  <2>3. Refreshed(Seen(r, now))
          = [Seen(r, now) EXCEPT !.until = None,
                                 !.state = IF @ \in CoolingStates
                                           THEN Recovered(Seen(r, now)) ELSE @]
    BY <2>1 DEF Refreshed
  <2> DEFINE h == Refreshed(Seen(r, now))
  <2>4. Recovered(Seen(r, now)) = Recovered(r) /\ Recovered(r) \in HealthStates
    BY <2>1 DEF Recovered, HealthStates
  <2>5. /\ h \in View /\ h.state = state /\ h.until = None
        /\ h.failures = Seen(r, now).failures /\ h.used = Seen(r, now).used
        /\ h.quota = Seen(r, now).quota /\ h.age = Seen(r, now).age
    <3> HIDE DEF state, h
    <3>1. Seen(r, now) \in View /\ None \in Optional(Nat)
      BY SeenFields DEF Optional
    <3>2. state \in HealthStates /\ state = IF Seen(r, now).state \in CoolingStates
                                           THEN Recovered(Seen(r, now))
                                           ELSE Seen(r, now).state
      BY <2>1, <2>4, <3>1 DEF state, View
    <3>3. h = [Seen(r, now) EXCEPT !.until = None, !.state = state]
      BY <2>3, <3>1, <3>2 DEF h, View
    <3> QED
      BY <3>1, <3>2, <3>3 DEF View
  <2>6. Seen(r, now).used = r.used
    BY DEF Seen
  <2> HIDE DEF q, state, h
  <2>7. h = Seen(q, now)
    BY <2>1, <2>2, <2>5, <2>6, SeenIs
  <2> QED
    BY <1>2, <2>7, NoneAssumption DEF q, h
<1>3. CASE r.until \in Nat /\ ~(now >= r.until)
  <2>1. Seen(r, now).until # 0
    BY <1>3, NoneAssumption DEF Seen
  <2> QED
    BY <1>3, <2>1, NoneAssumption DEF Refreshed
<1> QED
  BY <1>1, <1>2, <1>3 DEF Record, Optional

LEMMA RestartedRecord ==
    ASSUME NEW r \in Record, NEW now \in Nat, Begun(r, now)
    PROVE  LET w == Restarted(r, now)
           IN  /\ w \in Record /\ w.start \in Nat /\ w.start <= now
               /\ now - w.start < RateWindow
               /\ w.state = r.state /\ w.failures = r.failures /\ w.until = r.until
               /\ w.quota = r.quota
               /\ Begun(w, now)
<1>1. r.start # None => r.start \in Nat
  BY DEF Record, Optional
<1>2. CASE WindowOver(r, now)
  <2> DEFINE w == [r EXCEPT !.start = now, !.used = 0]
  <2>1. Restarted(r, now) = w
    BY <1>2 DEF Restarted
  <2>2. now \in Optional(Nat)
    BY DEF Optional
  <2>3. /\ w \in Record /\ w.start = now /\ w.state = r.state /\ w.failures = r.failures
        /\ w.until = r.until /\ w.quota = r.quota
    BY <2>2 DEF Record
  <2> HIDE DEF w
  <2> QED
    BY <2>1, <2>3, CooldownAssumption DEF Begun
<1>3. CASE ~WindowOver(r, now)
  BY <1>1, <1>3, CooldownAssumption, NoneAssumption DEF Restarted, WindowOver, Begun
<1> QED
  BY <1>2, <1>3

LEMMA SeenWindow ==
    ASSUME NEW r \in Record, NEW now \in Nat, Begun(r, now)
    PROVE  CurrentWindow(Seen(r, now)) = Seen(Restarted(r, now), now)
<1>1. Seen(r, now) \in View
  BY SeenFields
<1>2. CASE WindowOver(r, now)
  <2> DEFINE h == [Seen(r, now) EXCEPT !.age = 0, !.used = 0]
             w == Restarted(r, now)
  <2>1. Seen(r, now).age \in {None, RateWindow}
    BY <1>2 DEF Seen, WindowOver
  <2>2. CurrentWindow(Seen(r, now)) = h
    BY <2>1 DEF CurrentWindow
  <2>3. /\ h \in View /\ h.age = 0 /\ h.used = 0
        /\ h.state = Seen(r, now).state /\ h.failures = Seen(r, now).failures
        /\ h.until = Seen(r, now).until /\ h.quota = Seen(r, now).quota
    BY <1>1 DEF View, Optional
  <2>4. w \in Record /\ w.start = now /\ w.used = 0 /\ Begun(w, now)
        /\ w.state = r.state /\ w.failures = r.failures /\ w.until = r.until
        /\ w.quota = r.quota
    <3>1. w = [r EXCEPT !.start = now, !.used = 0]
      BY <1>2 DEF Restarted
    <3> HIDE DEF w
    <3>2. w.start = now /\ w.used = 0
      BY <3>1 DEF Record
    <3> QED
      BY <3>2, RestartedRecord DEF w
  <2> HIDE DEF h, w
  <2>5. /\ Seen(w, now) \in View
        /\ Seen(w, now).used = 0 /\ Seen(w, now).age = 0
    BY <2>4, SeenFields, CooldownAssumption, NoneAssumption
  <2>6. /\ Seen(w, now).state = h.state /\ Seen(w, now).failures = h.failures
        /\ Seen(w, now).until = h.until /\ Seen(w, now).quota = h.quota
    BY <2>3, <2>4 DEF Seen
  <2>7. h = Seen(w, now)
    BY <2>3, <2>5, <2>6, SameView
  <2> QED
    BY <2>2, <2>7 DEF w
<1>3. CASE ~WindowOver(r, now)
  <2>1. Seen(r, now).age \notin {None, RateWindow}
    BY <1>3, NoneAssumption, CooldownAssumption DEF Seen, WindowOver, Record, Optional
  <2> QED
    BY <1>3, <2>1 DEF CurrentWindow, Restarted
<1> QED
  BY <1>2, <1>3

LEMMA SeenCount ==
    ASSUME NEW r \in Record, NEW now \in Nat, Begun(r, now), NEW rate \in Nat \ {0}
    PROVE  WindowOutcome(Seen(r, now), rate)
             = Outcome(Seen(AfterCount(r, now, rate), now), Restarted(r, now).used < rate)
<1> DEFINE w == Restarted(r, now)
           s == Seen(w, now)
           end == w.start + RateWindow
           q == AfterCount(r, now, rate)
<1>1. /\ w \in Record /\ w.start \in Nat /\ w.start <= now /\ now - w.start < RateWindow
      /\ RateWindow \in Nat /\ Begun(w, now)
  BY RestartedRecord, CooldownAssumption
<1>2. CurrentWindow(Seen(r, now)) = s
  BY SeenWindow
<1>3. s \in View /\ s.used = w.used /\ s.age = now - w.start /\ s.failures = w.failures
  BY <1>1, NoneAssumption, SeenFields
<1>4. CASE w.used >= rate
  <2> DEFINE h == [s EXCEPT !.state = "rate_limited", !.until = RateWindow - s.age]
  <2>1. WindowOutcome(Seen(r, now), rate) = Outcome(h, FALSE)
    BY <1>2, <1>3, <1>4 DEF WindowOutcome, WindowFull, WindowRefused
  <2>2. q = [w EXCEPT !.state = "rate_limited", !.until = end] /\ end \in Nat
    <3>1. end \in Nat /\ ~(now > end)
      BY <1>1
    <3>2. q = [w EXCEPT !.state = "rate_limited",
                        !.until = IF now > end THEN now ELSE end]
      BY <1>4 DEF AfterCount
    <3> HIDE DEF w, end, q
    <3> QED
      BY <3>1, <3>2
  <2>3. end - now = RateWindow - s.age /\ RateWindow - s.age \in Nat /\ ~(end <= now)
    BY <1>1, <1>3
  <2> HIDE DEF q, s, w, end
  <2>4. /\ q \in Record /\ q.quota = w.quota /\ q.start = w.start
        /\ q.state = "rate_limited" /\ q.failures = w.failures /\ q.used = w.used
        /\ q.until = end
    BY <1>1, <2>2 DEF Record, Optional, HealthStates
  <2>5. /\ h \in View /\ h.state = "rate_limited" /\ h.failures = s.failures
        /\ h.used = s.used /\ h.until = RateWindow - s.age /\ h.quota = s.quota
        /\ h.age = s.age
    BY <1>3, <2>3 DEF View, Optional, HealthStates
  <2> HIDE DEF h
  <2>6. end # None
    BY <2>2, NoneAssumption
  <2>7. h = Seen(q, now)
    BY <1>1, <1>3, <2>3, <2>4, <2>5, <2>6, SeenIs DEF s
  <2>8. (w.used < rate) = FALSE
    BY <1>1, <1>4 DEF Record
  <2> QED
    BY <2>1, <2>7, <2>8 DEF w, q
<1>5. CASE ~(w.used >= rate)
  <2> DEFINE h == [s EXCEPT !.used = @ + 1]
  <2>1. WindowOutcome(Seen(r, now), rate) = Outcome(h, TRUE)
    BY <1>2, <1>3, <1>5 DEF WindowOutcome, WindowFull, WindowTaken
  <2>2. q = [w EXCEPT !.used = @ + 1]
    BY <1>5 DEF AfterCount
  <2> HIDE DEF q, s, w, end
  <2>3. /\ q \in Record /\ q.quota = w.quota /\ q.start = w.start /\ q.until = w.until
        /\ q.state = w.state /\ q.failures = w.failures /\ q.used = w.used + 1
    BY <1>1, <2>2 DEF Record
  <2>4. /\ h \in View /\ h.state = s.state /\ h.failures = s.failures
        /\ h.used = s.used + 1 /\ h.until = s.until /\ h.quota = s.quota
        /\ h.age = s.age
    BY <1>3 DEF View
  <2> HIDE DEF h
  <2>5. s.state = w.state /\ s.until = IF w.until = None THEN None
                                       ELSE IF w.until <= now THEN 0 ELSE w.until - now
    BY DEF s, Seen
  <2>6. h = Seen(q, now)
    BY <1>1, <1>3, <2>3, <2>4, <2>5, SeenIs DEF s
  <2>7. (w.used < rate) = TRUE
    BY <1>1, <1>5 DEF Record
  <2> QED
    BY <2>1, <2>6, <2>7 DEF w, q
<1> QED
  BY <1>4, <1>5

LEMMA SeenFailed ==
    ASSUME NEW r \in Record, NEW f \in Frame, f.kind # None, Begun(r, f.now)
    PROVE  Failed(Seen(r, f.now), f.kind, f.retry) = Seen(AfterJudge(r, f), f.now)
<1> DEFINE c == FailedCooldown(f.kind, r.failures, f.retry)
           state == FailedState(f.kind, r.failures)
           s == Seen(r, f.now)
           h == Failed(s, f.kind, f.retry)
           q == AfterJudge(r, f)
<1>1. c \in Optional(Nat) /\ state \in HealthStates /\ f.now \in Nat
  <2>1. f.kind \in FailureKinds /\ f.retry \in Optional(Nat) /\ r.failures \in Nat
    BY CooldownAssumption DEF Frame, Record, Optional
  <2> QED
    BY <2>1, CooldownTyped DEF Frame
<1>2. s \in View /\ s.failures = r.failures /\ s.used = r.used
      /\ s.until = IF r.until = None THEN None
                   ELSE IF r.until <= f.now THEN 0 ELSE r.until - f.now
  BY <1>1, SeenFields
<1>3. h = [s EXCEPT !.state = state, !.until = IF c = None THEN s.until ELSE c]
  BY <1>2 DEF Failed, View
<1>4. q = [r EXCEPT !.state = state, !.until = IF c = None THEN r.until ELSE f.now + c]
  BY DEF AfterJudge, Record
<1> HIDE DEF c, state, s, h, q
<1>5. /\ h \in View /\ h.state = state /\ h.failures = s.failures /\ h.used = s.used
      /\ h.quota = s.quota /\ h.age = s.age
      /\ h.until = IF c = None THEN s.until ELSE c
  BY <1>1, <1>2, <1>3 DEF View
<1>6. /\ q \in Record /\ q.state = state /\ q.failures = r.failures /\ q.used = r.used
      /\ q.quota = r.quota /\ q.start = r.start
      /\ q.until = IF c = None THEN r.until ELSE f.now + c
  <2>1. (IF c = None THEN r.until ELSE f.now + c) \in Optional(Nat)
    BY <1>1 DEF Optional, Record
  <2> QED
    BY <1>1, <1>4, <2>1 DEF Record
<1>7. h.until = IF q.until = None THEN None
                ELSE IF q.until <= f.now THEN 0 ELSE q.until - f.now
  <2>1. c # None => c \in Nat /\ f.now + c \in Nat /\ f.now + c # None
    BY <1>1, NoneAssumption DEF Optional
  <2> QED
    BY <1>1, <1>2, <1>5, <1>6, <2>1
<1>8. h = Seen(q, f.now)
  BY <1>1, <1>2, <1>5, <1>6, <1>7, SeenIs DEF s
<1> QED
  BY <1>8 DEF h, q, s

LEMMA SeenCounted ==
    ASSUME NEW r \in Record, NEW now \in Nat, Begun(r, now)
    PROVE  Counted(Seen(r, now))
             = Seen([r EXCEPT !.failures = IF @ < CircuitBreakerFailures THEN @ + 1
                                                                         ELSE @], now)
<1> DEFINE n == IF r.failures < CircuitBreakerFailures THEN r.failures + 1 ELSE r.failures
           s == Seen(r, now)
           h == [s EXCEPT !.failures = n]
           q == [r EXCEPT !.failures = n]
<1>1. s \in View /\ s.state = r.state /\ s.failures = r.failures /\ s.used = r.used
      /\ s.until = IF r.until = None THEN None
                   ELSE IF r.until <= now THEN 0 ELSE r.until - now
  BY SeenFields
<1>2. n \in 0 .. CircuitBreakerFailures /\ n \in Nat
  BY CooldownAssumption DEF Record
<1>3. Counted(s) = h
  BY <1>1 DEF Counted, View
<1>4. q = [r EXCEPT !.failures = IF @ < CircuitBreakerFailures THEN @ + 1 ELSE @]
  BY DEF Record
<1> HIDE DEF n, s
<1>5. /\ h \in View /\ h.failures = n /\ h.state = s.state /\ h.used = s.used
      /\ h.until = s.until /\ h.quota = s.quota /\ h.age = s.age
  BY <1>1, <1>2 DEF View
<1>6. /\ q \in Record /\ q.failures = n /\ q.state = r.state /\ q.used = r.used
      /\ q.until = r.until /\ q.quota = r.quota /\ q.start = r.start
  BY <1>2 DEF Record
<1> HIDE DEF h, q
<1>7. h = Seen(q, now)
  BY <1>1, <1>5, <1>6, SeenIs DEF s
<1> QED
  BY <1>3, <1>4, <1>7 DEF s

LEMMA SeenSucceeded ==
    ASSUME NEW r \in Record, NEW now \in Nat, Begun(r, now)
    PROVE  Succeeded(Seen(r, now))
             = Seen([r EXCEPT !.failures = 0, !.until = None, !.state = "healthy"], now)
<1> DEFINE s == Seen(r, now)
           h == Succeeded(s)
           q == [r EXCEPT !.failures = 0, !.until = None, !.state = "healthy"]
<1>1. s \in View /\ s.used = r.used
  BY SeenFields
<1> HIDE DEF s
<1>2. /\ h \in View /\ h.state = "healthy" /\ h.failures = 0 /\ h.until = None
      /\ h.used = s.used /\ h.quota = s.quota /\ h.age = s.age
  BY <1>1 DEF Succeeded, View, HealthStates, Optional
<1>3. /\ q \in Record /\ q.state = "healthy" /\ q.failures = 0 /\ q.until = None
      /\ q.used = r.used /\ q.quota = r.quota /\ q.start = r.start
  <2>1. 0 \in 0 .. CircuitBreakerFailures /\ None \in Optional(Nat)
        /\ "healthy" \in HealthStates
    BY CooldownAssumption DEF HealthStates, Optional
  <2> QED
    BY <2>1 DEF Record
<1> HIDE DEF h, q
<1>4. h = Seen(q, now)
  BY <1>1, <1>2, <1>3, SeenIs DEF s
<1> QED
  BY <1>4 DEF h, q, s

LEMMA SeenState ==
    ASSUME NEW r \in Record, NEW now \in Nat, Begun(r, now), NEW state \in HealthStates
    PROVE  [Seen(r, now) EXCEPT !.state = state] = Seen([r EXCEPT !.state = state], now)
<1> DEFINE s == Seen(r, now)
           h == [s EXCEPT !.state = state]
           q == [r EXCEPT !.state = state]
<1>1. s \in View /\ s.failures = r.failures /\ s.used = r.used
      /\ s.until = IF r.until = None THEN None
                   ELSE IF r.until <= now THEN 0 ELSE r.until - now
  BY SeenFields
<1> HIDE DEF s
<1>2. /\ h \in View /\ h.state = state /\ h.failures = s.failures /\ h.until = s.until
      /\ h.used = s.used /\ h.quota = s.quota /\ h.age = s.age
  BY <1>1 DEF View
<1>3. /\ q \in Record /\ q.state = state /\ q.failures = r.failures /\ q.until = r.until
      /\ q.used = r.used /\ q.quota = r.quota /\ q.start = r.start
  BY DEF Record
<1> HIDE DEF h, q
<1>4. h = Seen(q, now)
  BY <1>1, <1>2, <1>3, SeenIs DEF s
<1> QED
  BY <1>4 DEF h, q, s

LEMMA SeenClosed ==
    ASSUME NEW r \in Record, NEW now \in Nat, Begun(r, now)
    PROVE  LimitRefused(Seen(r, now))
             = Seen([r EXCEPT !.state = "rate_limited", !.until = now + RateWindow], now)
<1> DEFINE s == Seen(r, now)
           until == now + RateWindow
           h == LimitRefused(s)
           q == [r EXCEPT !.state = "rate_limited", !.until = until]
<1>1. s \in View /\ s.failures = r.failures /\ s.used = r.used
  BY SeenFields
<1>2. /\ until \in Nat /\ until # None /\ RateWindow \in Nat
      /\ RateWindow = IF until <= now THEN 0 ELSE until - now
      /\ "rate_limited" \in HealthStates
  BY CooldownAssumption, NoneAssumption DEF HealthStates
<1> HIDE DEF s, until
<1>3. /\ h \in View /\ h.state = "rate_limited" /\ h.failures = s.failures /\ h.until = RateWindow
      /\ h.used = s.used /\ h.quota = s.quota /\ h.age = s.age
  BY <1>1, <1>2 DEF LimitRefused, View, Optional
<1>4. /\ q \in Record /\ q.state = "rate_limited" /\ q.failures = r.failures /\ q.until = until
      /\ q.used = r.used /\ q.quota = r.quota /\ q.start = r.start
  BY <1>2 DEF Record, Optional
<1> HIDE DEF h, q
<1>5. h = Seen(q, now)
  BY <1>1, <1>2, <1>3, <1>4, SeenIs DEF s
<1> QED
  BY <1>5 DEF h, q, s, until

LEMMA SeenElapsed ==
    ASSUME NEW r \in Record, NEW now \in Nat, Begun(r, now)
    PROVE  Seen(r, now + 1) = Elapse(Seen(r, now))
<1> DEFINE s == Seen(r, now)
           n == Seen(r, now + 1)
           e == Elapse(s)
<1>1. r.until = None \/ r.until \in Nat
  BY DEF Record, Optional
<1>2. \/ r.start = None
      \/ r.start \in Nat /\ r.start <= now
  BY DEF Record, Optional, Begun
<1>3. s \in View /\ n \in View
  BY <1>2, SeenFields DEF Begun
<1>4. n.until = IF s.until \in {None, 0} THEN s.until ELSE s.until - 1
  BY <1>1, NoneAssumption DEF Seen
<1>5. n.age = IF s.age \in {None, RateWindow} THEN s.age ELSE s.age + 1
  BY <1>2, NoneAssumption, CooldownAssumption DEF Seen
<1>6. n.state = s.state /\ n.failures = s.failures /\ n.quota = s.quota /\ n.used = s.used
  BY DEF Seen
<1> HIDE DEF s, n
<1>7. e = [s EXCEPT !.until = n.until, !.age = n.age]
  BY <1>3, <1>4, <1>5 DEF Elapse, View
<1>8. /\ e \in View /\ e.until = n.until /\ e.age = n.age /\ e.state = s.state
      /\ e.failures = s.failures /\ e.quota = s.quota /\ e.used = s.used
  BY <1>3, <1>7 DEF View
<1> HIDE DEF e
<1>9. n = e
  BY <1>3, <1>6, <1>8, SameView
<1> QED
  BY <1>9 DEF s, n, e

-----------------------------------------------------------------------------
(***************************************************************************)
(* A thread inside a method goes on without changing what it comes to.     *)
(***************************************************************************)
LEMMA InitBegun == Init => Begun(record, clock)
BY DEF Init, Begun

LEMMA NextBegun == TypeInv /\ Begun(record, clock) /\ [Next]_vars => Begun(record, clock)'
<1> SUFFICES ASSUME TypeInv, Begun(record, clock), [Next]_vars PROVE Begun(record, clock)'
  OBVIOUS
<1>1. clock \in Nat /\ record \in Record
  BY DEF TypeInv, TypeOK
<1>2. ASSUME NEW t \in Threads, Count(t) PROVE Begun(record, clock)'
  <2>1. thread[t].now \in Nat /\ thread[t].now <= clock
    BY <1>2 DEF Count, TypeInv, TypeOK, FrameSound, Frame
  <2>2. Restarted(record, thread[t].now) \in Record
    BY <1>1, <2>1, RestartedTyped
  <2>3. \/ record'.start = record.start
        \/ record'.start = thread[t].now
    BY <1>1, <1>2, <2>2 DEF Count, Restarted, Record
  <2> QED
    BY <1>1, <1>2, <2>1, <2>3 DEF Count, Begun
<1>3. CASE Tick
  BY <1>1, <1>3, NoneAssumption DEF Tick, Begun, Record, Optional
<1>4. CASE record'.start = record.start /\ UNCHANGED clock
  BY <1>4 DEF Begun
<1>5. ASSUME NEW t \in Threads,
             \/ Begin(t) \/ Return(t) \/ ReadDeadline(t) \/ Refresh(t)
             \/ Reserve(t) \/ ReadWindowClock(t) \/ RecordSuccess(t)
             \/ CountFailure(t) \/ ReadFailureClock(t) \/ Judge(t)
             \/ ComputeDeadline(t) \/ WriteDeadline(t)
      PROVE  record'.start = record.start /\ UNCHANGED clock
  BY <1>1, <1>5 DEF Begin, Return, ReadDeadline, Refresh, Reserve, ReadWindowClock,
     RecordSuccess, CountFailure, ReadFailureClock, Judge, ComputeDeadline,
     WriteDeadline, Reopened, Record
<1>6. CASE UNCHANGED vars
  BY <1>6 DEF vars, Begun
<1> QED
  BY <1>2, <1>3, <1>4, <1>5, <1>6 DEF Next

\* Among the threads' frames th only t's is inside a method.
OnlyInside(th, t) ==
    /\ th[t].at \notin {"idle", "calling"}
    /\ \A u \in Threads \ {t} : th[u].at \in {"idle", "calling"}

LEMMA ChosenThread ==
    ASSUME NEW th, NEW t \in Threads, OnlyInside(th, t)
    PROVE  /\ \E u \in Threads : th[u].at \notin {"idle", "calling"}
           /\ (CHOOSE u \in Threads : th[u].at \notin {"idle", "calling"}) = t
BY DEF OnlyInside

LEMMA OutsideRest ==
    ASSUME NEW f, f.at \in {"idle", "calling"}, NEW r, NEW now, NEW rate
    PROVE  Rest(f, r, now, rate) = Outcome(Seen(r, now), f.at = "calling")
<1>1. CASE f.at = "idle"
  BY <1>1 DEF Rest
<1>2. CASE f.at = "calling"
  BY <1>2 DEF Rest
<1> QED
  BY <1>1, <1>2

\* The step t takes inside its method is a stutter of WholeCircuit.
LEMMA GoesOn ==
    ASSUME TypeInv, OneAtATime, NEW t \in Threads, Inside(t), NEW g,
           thread' = [thread EXCEPT ![t] = g], UNCHANGED limit,
           Rest(g, record', clock', limit) = Rest(thread[t], record, clock, limit)
    PROVE  UNCHANGED <<PendingHealth, PendingCalls>>
<1>1. /\ thread'[t] = g
      /\ \A u \in Threads \ {t} : thread'[u] = thread[u]
  BY DEF TypeInv, TypeOK
<1>2. \A u \in Threads \ {t} : thread[u].at \in {"idle", "calling"}
  BY DEF OneAtATime, Inside
<1>3. PendingHealth = Rest(thread[t], record, clock, limit).health
  <2>1. OnlyInside(thread, t)
    BY <1>2 DEF OnlyInside, Inside
  <2> QED
    BY <2>1, ChosenThread DEF PendingHealth, Pending, Inside
<1>4. PendingHealth' = Rest(g, record', clock', limit).health
  <2>1. CASE g.at \notin {"idle", "calling"}
    <3> DEFINE c == CHOOSE u \in Threads : thread'[u].at \notin {"idle", "calling"}
    <3>1. \E u \in Threads : thread'[u].at \notin {"idle", "calling"}
      BY <1>1, <2>1
    <3>2. c \in Threads /\ thread'[c].at \notin {"idle", "calling"}
      BY <3>1
    <3>3. PendingHealth' = Rest(thread'[c], record', clock', limit').health
      BY <3>1 DEF PendingHealth, Pending, Inside
    <3> HIDE DEF c
    <3>4. c = t
      BY <1>1, <1>2, <3>2
    <3> QED
      BY <1>1, <3>3, <3>4
  <2>2. CASE g.at \in {"idle", "calling"}
    <3>1. \A u \in Threads : thread'[u].at \in {"idle", "calling"}
      BY <1>1, <1>2, <2>2
    <3>2. PendingHealth' = Seen(record', clock')
      BY <3>1 DEF PendingHealth, Inside
    <3>3. Rest(g, record', clock', limit) = Outcome(Seen(record', clock'), g.at = "calling")
      BY <2>2, OutsideRest
    <3> QED
      BY <3>2, <3>3 DEF Outcome
  <2> QED
    BY <2>1, <2>2
<1>5. \A u \in Threads : Rest(thread'[u], record', clock', limit).call
                           = Rest(thread[u], record, clock, limit).call
  <2>1. ASSUME NEW u \in Threads \ {t}
        PROVE  Rest(thread'[u], record', clock', limit).call
                 = Rest(thread[u], record, clock, limit).call
    BY <1>1, <1>2, OutsideRest DEF Outcome
  <2> QED
    BY <1>1, <2>1
<1>6. PendingCalls' = PendingCalls
  BY <1>5 DEF PendingCalls, Pending
<1> QED
  BY <1>3, <1>4, <1>6

Alike == UNCHANGED <<PendingHealth, PendingCalls>>

LEMMA BackRest ==
    ASSUME TypeInv, NEW t \in Threads, Back(t), NEW r, NEW now, NEW rate
    PROVE  \E g : /\ thread' = [thread EXCEPT ![t] = g]
                  /\ Rest(g, r, now, rate) = MethodOutcome(thread[t], Seen(r, now), rate)
<1>1. thread[t] \in Frame /\ thread \in [Threads -> Frame]
  BY DEF TypeInv, TypeOK
<1>2. CASE Runs(t, "health")
  <2>1. thread' = [thread EXCEPT ![t] = Idle]
    BY <1>2 DEF Back, Leave
  <2>2. Rest(Idle, r, now, rate) = Outcome(Seen(r, now), FALSE)
    BY DEF Rest, Idle
  <2>3. MethodOutcome(thread[t], Seen(r, now), rate) = Outcome(Seen(r, now), FALSE)
    BY <1>2 DEF Runs, MethodOutcome
  <2> QED
    BY <2>1, <2>2, <2>3
<1>3. CASE ~Runs(t, "health")
  <2> DEFINE g == [thread[t] EXCEPT !.at = "body", !.until = None, !.now = 0]
  <2>1. thread' = [thread EXCEPT ![t] = g]
    BY <1>1, <1>3 DEF Back, Goto
  <2>2. g.at = "body" /\ g.method = thread[t].method /\ g.kind = thread[t].kind
        /\ g.retry = thread[t].retry
    BY <1>1 DEF Frame
  <2> HIDE DEF g
  <2>3. Rest(g, r, now, rate) = MethodOutcome(g, Seen(r, now), rate)
    BY <2>2 DEF Rest
  <2>4. MethodOutcome(g, Seen(r, now), rate)
          = MethodOutcome(thread[t], Seen(r, now), rate)
    BY <2>2 DEF MethodOutcome
  <2> QED
    BY <2>1, <2>3, <2>4
<1> QED
  BY <1>2, <1>3

LEMMA RefreshAlike ==
    ASSUME TypeInv, Begun(record, clock), OneAtATime, NEW t \in Threads,
           ReadDeadline(t) \/ Refresh(t)
    PROVE  Alike
<1> DEFINE f == thread[t]
<1>1. f \in Frame /\ thread \in [Threads -> Frame] /\ record \in Record /\ clock \in Nat
  BY DEF TypeInv, TypeOK
<1>2. UNCHANGED <<clock, limit>> /\ Inside(t)
  BY DEF ReadDeadline, Refresh, At, Inside
<1>3. CASE ReadDeadline(t) /\ record.until = None
  <2>1. Back(t) /\ UNCHANGED record
    BY <1>3 DEF ReadDeadline
  <2>2. Rest(f, record, clock, limit) = MethodOutcome(f, Seen(record, clock), limit)
    BY <1>1, <1>3, SeenRefreshed DEF ReadDeadline, At, Rest
  <2> QED
    BY <1>2, <2>1, <2>2, BackRest, GoesOn DEF Alike
<1>4. CASE ReadDeadline(t) /\ record.until # None
  <2> DEFINE g == [f EXCEPT !.at = "refresh", !.until = record.until]
             q == IF clock >= record.until THEN Reopened(record) ELSE record
  <2>1. thread' = [thread EXCEPT ![t] = g] /\ UNCHANGED record
    BY <1>1, <1>4 DEF ReadDeadline
  <2>2. /\ g.at = "refresh" /\ g.until = record.until /\ g.method = f.method
        /\ g.kind = f.kind /\ g.retry = f.retry
    BY <1>1 DEF Frame
  <2> HIDE DEF g
  <2>3. Rest(f, record, clock, limit) = MethodOutcome(f, Seen(q, clock), limit)
    BY <1>1, <1>4, SeenRefreshed DEF ReadDeadline, At, Rest
  <2>4. Rest(g, record, clock, limit) = MethodOutcome(g, Seen(q, clock), limit)
    BY <2>2 DEF Rest
  <2>5. MethodOutcome(g, Seen(q, clock), limit) = MethodOutcome(f, Seen(q, clock), limit)
    BY <2>2 DEF MethodOutcome
  <2> QED
    BY <1>2, <2>1, <2>3, <2>4, <2>5, GoesOn DEF Alike
<1>5. CASE Refresh(t)
  <2>1. Back(t) /\ record' = IF clock >= f.until THEN Reopened(record) ELSE record
    BY <1>5 DEF Refresh, Expired
  <2>2. Rest(f, record, clock, limit) = MethodOutcome(f, Seen(record', clock), limit)
    BY <1>5, <2>1 DEF Refresh, At, Rest
  <2> QED
    BY <1>2, <2>1, <2>2, BackRest, GoesOn DEF Alike
<1> QED
  BY <1>3, <1>4, <1>5

LEMMA GotoFrame ==
    ASSUME TypeInv, NEW t \in Threads, NEW place, Goto(t, place)
    PROVE  \E g : /\ thread' = [thread EXCEPT ![t] = g]
                  /\ g.at = place
                  /\ g.method = thread[t].method /\ g.kind = thread[t].kind
                  /\ g.retry = thread[t].retry
<1> DEFINE g == [thread[t] EXCEPT !.at = place, !.until = None, !.now = 0]
<1>1. thread[t] \in Frame /\ thread \in [Threads -> Frame]
  BY DEF TypeInv, TypeOK
<1>2. thread' = [thread EXCEPT ![t] = g]
  BY <1>1 DEF Goto
<1>3. /\ g.at = place /\ g.method = thread[t].method /\ g.kind = thread[t].kind
      /\ g.retry = thread[t].retry
  BY <1>1 DEF Frame
<1> QED
  BY <1>2, <1>3

\* The frames that end a method.
LEMMA LastFrames ==
    ASSUME NEW r, NEW now, NEW rate
    PROVE  /\ Rest(Idle, r, now, rate) = Outcome(Seen(r, now), FALSE)
           /\ Rest([Idle EXCEPT !.at = "calling"], r, now, rate)
                = Outcome(Seen(r, now), TRUE)
<1> DEFINE c == [Idle EXCEPT !.at = "calling"]
<1>1. Idle.at = "idle" /\ c.at = "calling"
  BY DEF Idle
<1> HIDE DEF c
<1>2. Rest(Idle, r, now, rate) = Outcome(Seen(r, now), FALSE)
  BY <1>1 DEF Rest
<1>3. Rest(c, r, now, rate) = Outcome(Seen(r, now), TRUE)
  BY <1>1 DEF Rest
<1> QED
  BY <1>2, <1>3 DEF c

LEMMA ReserveAlike ==
    ASSUME TypeInv, Begun(record, clock), OneAtATime, NEW t \in Threads, Reserve(t)
    PROVE  Alike
<1> DEFINE f == thread[t]
           s == Seen(record, clock)
<1>1. f \in Frame /\ thread \in [Threads -> Frame] /\ record \in Record /\ clock \in Nat
  BY DEF TypeInv, TypeOK
<1>2. UNCHANGED <<clock, limit>> /\ Inside(t)
  BY DEF Reserve, At, Inside
<1>3. s.state = record.state /\ (QuotaSpent(s) <=> QuotaSpent(record))
  BY DEF Seen, QuotaSpent
<1>4. Rest(f, record, clock, limit) = ReserveOutcome(s, limit)
  BY DEF Reserve, At, Runs, Rest, MethodOutcome
<1> HIDE DEF s
<1>5. CASE record.state \notin OpenStates
  <2>1. Leave(t) /\ UNCHANGED record
    BY <1>5 DEF Reserve
  <2>2. ReserveOutcome(s, limit) = Outcome(s, FALSE)
    BY <1>3, <1>5 DEF ReserveOutcome
  <2> QED
    BY <1>2, <1>4, <2>1, <2>2, LastFrames, GoesOn DEF Leave, Alike, s
<1>6. CASE record.state \in OpenStates /\ QuotaSpent(record)
  <2>1. Leave(t) /\ record' = [record EXCEPT !.state = "quota_exhausted"]
    BY <1>6 DEF Reserve
  <2>2. ReserveOutcome(s, limit) = Outcome(QuotaRefused(s), FALSE)
    BY <1>3, <1>6 DEF ReserveOutcome
  <2>3. QuotaRefused(s) = Seen(record', clock)
    <3>1. "quota_exhausted" \in HealthStates
      BY DEF HealthStates
    <3> QED
      BY <1>1, <2>1, <3>1, SeenState DEF s, QuotaRefused
  <2> QED
    BY <1>2, <1>4, <2>1, <2>2, <2>3, LastFrames, GoesOn DEF Leave, Alike
<1>7. CASE record.state \in OpenStates /\ ~QuotaSpent(record) /\ limit = None
  <2>1. Call(t) /\ UNCHANGED record
    BY <1>7, NoneAssumption DEF Reserve
  <2>2. ReserveOutcome(s, limit) = Outcome(s, TRUE)
    BY <1>3, <1>7 DEF ReserveOutcome
  <2> QED
    BY <1>2, <1>4, <2>1, <2>2, LastFrames, GoesOn DEF Call, Alike, s
<1>8. CASE record.state \in OpenStates /\ ~QuotaSpent(record) /\ limit = 0
  <2> DEFINE q == [record EXCEPT !.state = "rate_limited"]
             end == clock + RateWindow
  <2>1. record' = q /\ Goto(t, "closing")
    BY <1>8, NoneAssumption DEF Reserve
  <2>2. PICK g : thread' = [thread EXCEPT ![t] = g] /\ g.at = "closing"
    BY <2>1, GotoFrame
  <2>3. ReserveOutcome(s, limit) = Outcome(LimitRefused(s), FALSE)
    <3>1. limit # None
      BY <1>8, NoneAssumption
    <3> QED
      BY <1>3, <1>8, <3>1 DEF ReserveOutcome
  <2>4. Rest(g, q, clock, limit) = Outcome(Seen([q EXCEPT !.until = end], clock), FALSE)
    BY <2>2 DEF Rest
  <2>5. LimitRefused(s) = Seen([q EXCEPT !.until = end], clock)
    <3>1. [q EXCEPT !.until = end] = [record EXCEPT !.state = "rate_limited", !.until = end]
      OBVIOUS
    <3> QED
      BY <1>1, <3>1, SeenClosed DEF s
  <2> HIDE DEF q
  <2> QED
    BY <1>2, <1>4, <2>1, <2>2, <2>3, <2>4, <2>5, GoesOn DEF Alike
<1>9. CASE record.state \in OpenStates /\ ~QuotaSpent(record) /\ limit \notin {None, 0}
  <2>1. UNCHANGED record /\ Goto(t, "window")
    BY <1>9 DEF Reserve
  <2>2. PICK g : thread' = [thread EXCEPT ![t] = g] /\ g.at = "window"
    BY <2>1, GotoFrame
  <2>3. ReserveOutcome(s, limit) = WindowOutcome(s, limit)
    BY <1>3, <1>9 DEF ReserveOutcome
  <2>4. Rest(g, record, clock, limit) = WindowOutcome(s, limit)
    BY <2>2 DEF Rest, s
  <2> QED
    BY <1>2, <1>4, <2>1, <2>2, <2>3, <2>4, GoesOn DEF Alike
<1> QED
  BY <1>5, <1>6, <1>7, <1>8, <1>9

LEMMA WindowAlike ==
    ASSUME TypeInv, Begun(record, clock), OneAtATime, NEW t \in Threads,
           ReadWindowClock(t) \/ Count(t)
    PROVE  Alike
<1> DEFINE f == thread[t]
<1>1. /\ f \in Frame /\ thread \in [Threads -> Frame] /\ record \in Record
      /\ clock \in Nat /\ limit \in Nat \ {0} /\ Inside(t)
  BY DEF TypeInv, TypeOK, FrameSound, ReadWindowClock, Count, At, Inside
<1>2. UNCHANGED <<clock, limit>>
  BY DEF ReadWindowClock, Count
<1>3. CASE ReadWindowClock(t)
  <2> DEFINE g == [f EXCEPT !.at = "count", !.now = clock]
  <2>1. thread' = [thread EXCEPT ![t] = g] /\ UNCHANGED record
    BY <1>1, <1>3 DEF ReadWindowClock
  <2>2. g.at = "count" /\ g.now = clock
    BY <1>1 DEF Frame
  <2> HIDE DEF g
  <2>3. Rest(f, record, clock, limit) = WindowOutcome(Seen(record, clock), limit)
    BY <1>3 DEF ReadWindowClock, At, Rest
  <2>4. Rest(g, record, clock, limit)
          = Outcome(Seen(AfterCount(record, clock, limit), clock),
                    Restarted(record, clock).used < limit)
    BY <2>2 DEF Rest
  <2>5. Rest(g, record, clock, limit) = Rest(f, record, clock, limit)
    BY <1>1, <2>3, <2>4, SeenCount
  <2> QED
    BY <1>1, <1>2, <2>1, <2>5, GoesOn DEF Alike
<1>4. CASE Count(t)
  <2> DEFINE now == f.now
             w == Restarted(record, now)
             end == w.start + RateWindow
             until == IF now > end THEN now ELSE end
  <2>1. w \in Record /\ w.used \in Nat
    <3>1. now \in Nat
      BY <1>1 DEF Frame
    <3> QED
      BY <1>1, <3>1, RestartedTyped DEF Record
  <2>2. Rest(f, record, clock, limit)
          = Outcome(Seen(AfterCount(record, now, limit), clock), w.used < limit)
    BY <1>4 DEF Count, At, Rest
  <2>3. CASE w.used >= limit
    <3> DEFINE g == [f EXCEPT !.at = "deadline", !.until = until, !.now = 0]
               q == [w EXCEPT !.state = "rate_limited"]
    <3>1. record' = q /\ thread' = [thread EXCEPT ![t].at = "deadline",
                                                  ![t].until = until, ![t].now = 0]
      BY <1>1, <1>4, <2>1, <2>3 DEF Count
    <3>2. thread' = [thread EXCEPT ![t] = g]
      BY <1>1, <3>1
    <3>3. g.at = "deadline" /\ g.until = until
      BY <1>1 DEF Frame
    <3>4. AfterCount(record, now, limit) = [q EXCEPT !.until = until]
      BY <2>3 DEF AfterCount
    <3> HIDE DEF g, q, w, until, end
    <3>5. Rest(g, q, clock, limit) = Outcome(Seen([q EXCEPT !.until = until], clock), FALSE)
      BY <3>3 DEF Rest
    <3>6. (w.used < limit) = FALSE
      BY <1>1, <2>1, <2>3
    <3>7. Rest(g, record', clock', limit) = Rest(f, record, clock, limit)
      BY <1>2, <2>2, <3>1, <3>4, <3>5, <3>6
    <3> QED
      BY <1>1, <1>2, <3>2, <3>7, GoesOn DEF Alike
  <2>4. CASE ~(w.used >= limit)
    <3>1. record' = [w EXCEPT !.used = @ + 1] /\ Call(t)
      BY <1>1, <1>4, <2>1, <2>4 DEF Count
    <3>2. AfterCount(record, now, limit) = record'
      BY <2>4, <3>1 DEF AfterCount
    <3> HIDE DEF w
    <3>3. (w.used < limit) = TRUE
      BY <1>1, <2>1, <2>4
    <3> DEFINE g == [Idle EXCEPT !.at = "calling"]
    <3>4. Rest(g, record', clock, limit) = Outcome(Seen(record', clock), TRUE)
      BY LastFrames
    <3>5. thread' = [thread EXCEPT ![t] = g]
      BY <3>1 DEF Call
    <3> HIDE DEF g
    <3>6. Rest(g, record', clock', limit) = Rest(f, record, clock, limit)
      BY <1>2, <2>2, <3>2, <3>3, <3>4
    <3> QED
      BY <1>1, <1>2, <3>5, <3>6, GoesOn DEF Alike
  <2> QED
    BY <2>3, <2>4
<1> QED
  BY <1>3, <1>4

LEMMA RecordAlike ==
    ASSUME TypeInv, Begun(record, clock), OneAtATime, NEW t \in Threads,
           RecordSuccess(t) \/ CountFailure(t) \/ ReadFailureClock(t) \/ Judge(t)
    PROVE  Alike
<1> DEFINE f == thread[t]
           s == Seen(record, clock)
<1>1. /\ f \in Frame /\ thread \in [Threads -> Frame] /\ record \in Record
      /\ clock \in Nat /\ Inside(t)
  BY DEF TypeInv, TypeOK, RecordSuccess, CountFailure, ReadFailureClock, Judge, At, Inside
<1>2. UNCHANGED <<clock, limit>>
  BY DEF RecordSuccess, CountFailure, ReadFailureClock, Judge
<1>3. CASE RecordSuccess(t)
  <2>1. Rest(f, record, clock, limit) = Outcome(Succeeded(s), FALSE)
    BY <1>3 DEF RecordSuccess, At, Runs, Rest, MethodOutcome
  <2>2. Succeeded(s) = Seen(record', clock)
    BY <1>1, <1>3, SeenSucceeded DEF RecordSuccess
  <2>3. Leave(t)
    BY <1>3 DEF RecordSuccess
  <2> HIDE DEF s
  <2>4. Rest(Idle, record', clock', limit) = Rest(f, record, clock, limit)
    BY <1>2, <2>1, <2>2, LastFrames
  <2> QED
    BY <1>1, <1>2, <2>3, <2>4, GoesOn DEF Leave, Alike
<1>4. CASE CountFailure(t)
  <2>1. Rest(f, record, clock, limit) = Outcome(Failed(Counted(s), f.kind, f.retry), FALSE)
    BY <1>4 DEF CountFailure, At, Runs, Rest, MethodOutcome
  <2>2. Counted(s) = Seen(record', clock)
    BY <1>1, <1>4, SeenCounted DEF CountFailure
  <2>3. PICK g : /\ thread' = [thread EXCEPT ![t] = g]
                 /\ g.at = "clock" /\ g.kind = f.kind /\ g.retry = f.retry
    BY <1>4, GotoFrame DEF CountFailure
  <2> HIDE DEF s
  <2>4. Rest(g, record', clock, limit)
          = Outcome(Failed(Seen(record', clock), g.kind, g.retry), FALSE)
    BY <2>3 DEF Rest
  <2>5. Rest(g, record', clock', limit) = Rest(f, record, clock, limit)
    BY <1>2, <2>1, <2>2, <2>3, <2>4
  <2> QED
    BY <1>1, <1>2, <2>3, <2>5, GoesOn DEF Alike
<1>5. CASE ReadFailureClock(t)
  <2> DEFINE g == [f EXCEPT !.at = "judge", !.now = clock]
  <2>1. thread' = [thread EXCEPT ![t] = g] /\ UNCHANGED record
    BY <1>1, <1>5 DEF ReadFailureClock
  <2>2. /\ g.at = "judge" /\ g.now = clock /\ g.kind = f.kind /\ g.retry = f.retry
        /\ g \in Frame
    BY <1>1 DEF Frame, Places
  <2>3. f.kind # None
    BY <1>5 DEF ReadFailureClock, At, TypeInv, FrameSound
  <2> HIDE DEF g
  <2>4. Rest(f, record, clock, limit) = Outcome(Failed(s, f.kind, f.retry), FALSE)
    BY <1>5 DEF ReadFailureClock, At, Rest
  <2>5. Rest(g, record, clock, limit) = Outcome(Seen(AfterJudge(record, g), clock), FALSE)
    BY <2>2 DEF Rest
  <2>6. Failed(s, g.kind, g.retry) = Seen(AfterJudge(record, g), clock)
    BY <1>1, <2>2, <2>3, SeenFailed
  <2> HIDE DEF s
  <2>7. Rest(g, record, clock, limit) = Rest(f, record, clock, limit)
    BY <2>2, <2>4, <2>5, <2>6
  <2> QED
    BY <1>1, <1>2, <2>1, <2>7, GoesOn DEF Alike
<1>6. CASE Judge(t)
  <2> DEFINE c == FailedCooldown(f.kind, record.failures, f.retry)
             state == FailedState(f.kind, record.failures)
             q == [record EXCEPT !.state = state]
  <2>1. Rest(f, record, clock, limit) = Outcome(Seen(AfterJudge(record, f), clock), FALSE)
    BY <1>6 DEF Judge, At, Rest
  <2>2. record' = q
    BY <1>6 DEF Judge
  <2>3. AfterJudge(record, f) = [record EXCEPT !.state = state,
                                               !.until = IF c = None THEN record.until
                                                         ELSE f.now + c]
    BY <1>1 DEF AfterJudge, Record
  <2>4. CASE c = None
    <3>1. Leave(t)
      BY <1>6, <2>4 DEF Judge
    <3>2. AfterJudge(record, f) = q
      <4> HIDE DEF c, state
      <4> QED
        BY <1>1, <2>3, <2>4 DEF Record
    <3> HIDE DEF q
    <3> QED
      BY <1>1, <1>2, <2>1, <2>2, <3>1, <3>2, LastFrames, GoesOn DEF Leave, Alike
  <2>5. CASE c # None
    <3> DEFINE until == f.now + c
               g == [f EXCEPT !.at = "deadline", !.until = until, !.now = 0]
    <3>1. thread' = [thread EXCEPT ![t].at = "deadline",
                                   ![t].until = until, ![t].now = 0]
      BY <1>6, <2>5 DEF Judge
    <3>2. thread' = [thread EXCEPT ![t] = g]
      BY <1>1, <3>1
    <3>3. g.at = "deadline" /\ g.until = until
      BY <1>1 DEF Frame
    <3> HIDE DEF g
    <3>4. Rest(g, q, clock, limit) = Outcome(Seen([q EXCEPT !.until = until], clock), FALSE)
      BY <3>3 DEF Rest
    <3> HIDE DEF c, state, until
    <3>5. AfterJudge(record, f) = [q EXCEPT !.until = until]
      BY <1>1, <2>3, <2>5 DEF Record, until
    <3> HIDE DEF q
    <3>6. Rest(g, record', clock', limit) = Rest(f, record, clock, limit)
      BY <1>2, <2>1, <2>2, <3>4, <3>5
    <3> QED
      BY <1>1, <1>2, <3>2, <3>6, GoesOn DEF Alike
  <2> QED
    BY <2>4, <2>5
<1> QED
  BY <1>3, <1>4, <1>5, <1>6

LEMMA DeadlineAlike ==
    ASSUME TypeInv, OneAtATime, NEW t \in Threads, ComputeDeadline(t) \/ WriteDeadline(t)
    PROVE  Alike
<1> DEFINE f == thread[t]
<1>1. f \in Frame /\ thread \in [Threads -> Frame] /\ Inside(t)
  BY DEF TypeInv, TypeOK, ComputeDeadline, WriteDeadline, At, Inside
<1>2. UNCHANGED <<clock, limit>>
  BY DEF ComputeDeadline, WriteDeadline
<1>3. CASE ComputeDeadline(t)
  <2> DEFINE until == clock + RateWindow
             g == [f EXCEPT !.at = "deadline", !.until = until]
  <2>1. thread' = [thread EXCEPT ![t] = g] /\ UNCHANGED record
    BY <1>1, <1>3 DEF ComputeDeadline
  <2>2. g.at = "deadline" /\ g.until = until
    BY <1>1 DEF Frame
  <2> HIDE DEF g
  <2>3. Rest(f, record, clock, limit)
          = Outcome(Seen([record EXCEPT !.until = until], clock), FALSE)
    BY <1>3 DEF ComputeDeadline, At, Rest
  <2>4. Rest(g, record, clock, limit)
          = Outcome(Seen([record EXCEPT !.until = until], clock), FALSE)
    BY <2>2 DEF Rest
  <2> HIDE DEF until
  <2> QED
    BY <1>1, <1>2, <2>1, <2>3, <2>4, GoesOn DEF Alike
<1>4. CASE WriteDeadline(t)
  <2>1. Rest(f, record, clock, limit) = Outcome(Seen(record', clock), FALSE)
    BY <1>4 DEF WriteDeadline, At, Rest
  <2>2. Leave(t)
    BY <1>4 DEF WriteDeadline
  <2> QED
    BY <1>1, <1>2, <2>1, <2>2, LastFrames, GoesOn DEF Leave, Alike
<1> QED
  BY <1>3, <1>4

-----------------------------------------------------------------------------
(***************************************************************************)
(* The thread that enters a method takes it whole.                         *)
(***************************************************************************)
LEMMA Enters ==
    ASSUME TypeInv, OneAtATime', NEW t \in Threads, ~Inside(t), NEW g, g.at = "read",
           thread' = [thread EXCEPT ![t] = g], UNCHANGED <<record, clock, limit>>
    PROVE  /\ PendingHealth = Seen(record, clock)
           /\ PendingHealth' = Rest(g, record, clock, limit).health
           /\ PendingCalls = {u \in Threads : At(u, "calling")}
           /\ PendingCalls' = {u \in Threads : IF u = t
                                               THEN Rest(g, record, clock, limit).call
                                               ELSE At(u, "calling")}
<1>1. /\ thread'[t] = g
      /\ \A u \in Threads \ {t} : thread'[u] = thread[u]
  BY DEF TypeInv, TypeOK
<1>2. \A u \in Threads : thread[u].at \in {"idle", "calling"}
  BY <1>1 DEF OneAtATime, Inside
<1>3. PendingHealth = Seen(record, clock)
  BY <1>2 DEF PendingHealth, Inside
<1>4. PendingHealth' = Rest(g, record, clock, limit).health
  <2> DEFINE c == CHOOSE u \in Threads : thread'[u].at \notin {"idle", "calling"}
  <2>1. \E u \in Threads : thread'[u].at \notin {"idle", "calling"}
    BY <1>1
  <2>2. c \in Threads /\ thread'[c].at \notin {"idle", "calling"}
    BY <2>1
  <2>3. PendingHealth' = Rest(thread'[c], record', clock', limit').health
    BY <2>1 DEF PendingHealth, Pending, Inside
  <2> HIDE DEF c
  <2>4. c = t
    BY <1>1, <1>2, <2>2
  <2> QED
    BY <1>1, <2>3, <2>4
<1>5. \A u \in Threads : Rest(thread[u], record, clock, limit).call = At(u, "calling")
  BY <1>2, OutsideRest DEF Outcome, At
<1>6. PendingCalls = {u \in Threads : At(u, "calling")}
  BY <1>5 DEF PendingCalls, Pending
<1>7. PendingCalls' = {u \in Threads : IF u = t THEN Rest(g, record, clock, limit).call
                                               ELSE At(u, "calling")}
  <2>1. \A u \in Threads : Rest(thread'[u], record, clock, limit).call
                             = IF u = t THEN Rest(g, record, clock, limit).call
                                        ELSE At(u, "calling")
    BY <1>1, <1>5
  <2> QED
    BY <2>1 DEF PendingCalls, Pending
<1> QED
  BY <1>3, <1>4, <1>6, <1>7

\* WholeCircuit's operators are those of ProviderRegistry.
LEMMA WholeOperators ==
    /\ \A h : /\ Whole!Refreshed(h) = Refreshed(h)
              /\ Whole!QuotaSpent(h) <=> QuotaSpent(h)
              /\ Whole!QuotaRefused(h) = QuotaRefused(h)
              /\ Whole!LimitRefused(h) = LimitRefused(h)
              /\ Whole!WindowRefused(h) = WindowRefused(h)
              /\ Whole!WindowTaken(h) = WindowTaken(h)
              /\ Whole!AfterSuccess(h) = AfterSuccess(h)
              /\ Whole!Elapse(h) = Elapse(h)
    /\ \A h, rate : Whole!WindowFull(h, rate) <=> WindowFull(h, rate)
    /\ \A h, kind, retry : Whole!AfterFailure(h, kind, retry)
                             = AfterFailure(h, kind, retry)
    /\ Whole!OpenStates = OpenStates
<1>1. \A h : Whole!Refreshed(h) = Refreshed(h)
  BY DEF Whole!Refreshed, Refreshed, Whole!CoolingStates, CoolingStates,
         Whole!Recovered, Recovered
<1>2. \A h : Whole!CurrentWindow(h) = CurrentWindow(h)
  BY DEF Whole!CurrentWindow, CurrentWindow
<1>3. \A kind, n : Whole!FailedState(kind, n) = FailedState(kind, n)
  BY DEF Whole!FailedState, FailedState, Whole!Transient, Transient
<1>4. \A kind, n, retry : Whole!FailedCooldown(kind, n, retry)
                            = FailedCooldown(kind, n, retry)
  BY DEF Whole!FailedCooldown, FailedCooldown, Whole!Transient, Transient,
         Whole!OrDefault, OrDefault
<1>5. ASSUME NEW h, NEW kind, NEW retry
      PROVE  Whole!AfterFailure(h, kind, retry) = AfterFailure(h, kind, retry)
  <2> DEFINE r == Refreshed(h)
             n == IF r.failures < CircuitBreakerFailures THEN r.failures + 1
                                                         ELSE r.failures
             c == FailedCooldown(kind, n, retry)
             state == FailedState(kind, n)
             result == [r EXCEPT !.failures = n, !.state = state,
                                 !.until = IF c = None THEN @ ELSE c]
  <2>1. AfterFailure(h, kind, retry) = result
    BY DEF AfterFailure
  <2>2. /\ Whole!Refreshed(h) = r
        /\ Whole!FailedState(kind, n) = state
        /\ Whole!FailedCooldown(kind, n, retry) = c
    BY <1>1, <1>3, <1>4
  <2> HIDE DEF r, c, state
  <2>3. Whole!AfterFailure(h, kind, retry) = result
    BY <2>2 DEF Whole!AfterFailure
  <2> QED
    BY <2>1, <2>3
<1>6. \A h : /\ Whole!QuotaSpent(h) <=> QuotaSpent(h)
             /\ Whole!QuotaRefused(h) = QuotaRefused(h)
             /\ Whole!LimitRefused(h) = LimitRefused(h)
             /\ Whole!Elapse(h) = Elapse(h)
  BY DEF Whole!QuotaSpent, QuotaSpent, Whole!QuotaRefused, QuotaRefused,
         Whole!LimitRefused, LimitRefused, Whole!Elapse, Elapse
<1>7. \A h : /\ Whole!WindowRefused(h) = WindowRefused(h)
             /\ Whole!WindowTaken(h) = WindowTaken(h)
  BY <1>2, Zenon DEF Whole!WindowRefused, WindowRefused, Whole!WindowTaken, WindowTaken
<1>8. \A h : Whole!AfterSuccess(h) = AfterSuccess(h)
  BY <1>1, Zenon DEF Whole!AfterSuccess, AfterSuccess
<1>9. \A h, rate : Whole!WindowFull(h, rate) <=> WindowFull(h, rate)
  BY <1>2, Zenon DEF Whole!WindowFull, WindowFull
<1>10. Whole!OpenStates = OpenStates
  BY DEF Whole!OpenStates, OpenStates
<1> QED
  BY <1>1, <1>5, <1>6, <1>7, <1>8, <1>9, <1>10

\* What record_failure comes to is what AfterFailure says.
LEMMA FailureWhole ==
    ASSUME NEW h \in View, NEW kind, NEW retry
    PROVE  Failed(Counted(Refreshed(h)), kind, retry) = AfterFailure(h, kind, retry)
<1> DEFINE r == Refreshed(h)
           n == IF r.failures < CircuitBreakerFailures THEN r.failures + 1 ELSE r.failures
           k == [r EXCEPT !.failures = n]
<1>1. r \in View
  BY DEF Refreshed, View, Recovered, HealthStates, Optional
<1> HIDE DEF r
<1>2. Counted(r) = k
  BY <1>1 DEF Counted, View
<1>3. k.failures = n /\ k.until = r.until
  BY <1>1 DEF View
<1> HIDE DEF n
<1> DEFINE c == FailedCooldown(kind, n, retry)
<1>4. Failed(k, kind, retry)
        = [k EXCEPT !.state = FailedState(kind, n), !.until = IF c = None THEN r.until ELSE c]
  <2> HIDE DEF k
  <2> QED
    BY <1>3 DEF Failed
<1>5. AfterFailure(h, kind, retry)
        = [r EXCEPT !.failures = n, !.state = FailedState(kind, n),
                    !.until = IF c = None THEN r.until ELSE c]
  BY <1>1 DEF AfterFailure, r, n, View
<1> QED
  BY <1>2, <1>4, <1>5 DEF r

LEMMA BeginWhole ==
    ASSUME TypeInv, OneAtATime', NEW t \in Threads, Begin(t)
    PROVE  Whole!Look(t) \/ Whole!Reserve(t)
<1> DEFINE r == Refreshed(Seen(record, clock))
<1>1. PICK m \in {"health", "reserve_request"} :
        thread' = [thread EXCEPT ![t] = [Idle EXCEPT !.at = "read", !.method = m]]
  BY DEF Begin
<1> DEFINE g == [Idle EXCEPT !.at = "read", !.method = m]
           o == MethodOutcome(g, r, limit)
<1>2. g.at = "read" /\ g.method = m
  BY DEF Idle
<1>3. thread' = [thread EXCEPT ![t] = g]
  BY <1>1
<1>4. ~Inside(t) /\ ~At(t, "calling") /\ UNCHANGED <<record, clock, limit>>
  BY DEF Begin, At, Inside
<1> HIDE DEF g
<1>5. Rest(g, record, clock, limit) = o
  BY <1>2 DEF Rest
<1>6. /\ PendingHealth = Seen(record, clock)
      /\ PendingHealth' = o.health
      /\ PendingCalls = {u \in Threads : At(u, "calling")}
      /\ PendingCalls' = {u \in Threads : IF u = t THEN o.call ELSE At(u, "calling")}
  <2> HIDE DEF o
  <2>1. /\ PendingHealth = Seen(record, clock)
        /\ PendingHealth' = Rest(g, record, clock, limit).health
        /\ PendingCalls = {u \in Threads : At(u, "calling")}
        /\ PendingCalls' = {u \in Threads : IF u = t
                                            THEN Rest(g, record, clock, limit).call
                                            ELSE At(u, "calling")}
    BY <1>2, <1>3, <1>4, Enters
  <2> QED
    BY <1>5, <2>1, Zenon
<1>7. t \notin PendingCalls
  BY <1>4, <1>6
<1>8. /\ o.call = TRUE => PendingCalls' = PendingCalls \cup {t}
      /\ o.call = FALSE => PendingCalls' = PendingCalls
  BY <1>4, <1>6
<1>9. Whole!Refreshed(PendingHealth) = r
  BY <1>6, WholeOperators
<1> HIDE DEF r
<1>10. CASE m = "health"
  <2>1. o = Outcome(r, FALSE)
    BY <1>2, <1>10 DEF MethodOutcome
  <2> QED
    BY <1>4, <1>6, <1>7, <1>8, <1>9, <2>1 DEF Whole!Look, Outcome
<1>11. CASE m = "reserve_request"
  <2>1. o = ReserveOutcome(r, limit)
    BY <1>2, <1>11 DEF MethodOutcome
  <2> HIDE DEF o
  <2>2. CASE r.state \notin OpenStates
    <3>1. o = Outcome(r, FALSE)
      BY <2>1, <2>2 DEF ReserveOutcome
    <3> QED
      BY <1>4, <1>6, <1>7, <1>8, <1>9, <2>2, <3>1, WholeOperators
         DEF Whole!Reserve, Whole!Refuse, Outcome
  <2>3. CASE r.state \in OpenStates /\ QuotaSpent(r)
    <3>1. o = Outcome(QuotaRefused(r), FALSE)
      BY <2>1, <2>3 DEF ReserveOutcome
    <3> QED
      BY <1>4, <1>6, <1>7, <1>8, <1>9, <2>3, <3>1, WholeOperators
         DEF Whole!Reserve, Whole!Refuse, Outcome
  <2>4. CASE r.state \in OpenStates /\ ~QuotaSpent(r) /\ limit = None
    <3>1. o = Outcome(r, TRUE)
      BY <2>1, <2>4 DEF ReserveOutcome
    <3> QED
      BY <1>4, <1>6, <1>7, <1>8, <1>9, <2>4, <3>1, WholeOperators
         DEF Whole!Reserve, Whole!Admit, Outcome
  <2>5. CASE r.state \in OpenStates /\ ~QuotaSpent(r) /\ limit = 0
    <3>0. limit # None
      <4>1. None # 0
        BY NoneAssumption
      <4> QED
        BY <2>5, <4>1
    <3>1. o = Outcome(LimitRefused(r), FALSE)
      BY <2>1, <2>5, <3>0 DEF ReserveOutcome
    <3> QED
      <4>1. o.health = LimitRefused(r) /\ o.call = FALSE
        BY <3>1 DEF Outcome
      <4>2. /\ r.state \in Whole!OpenStates /\ ~Whole!QuotaSpent(r)
            /\ Whole!LimitRefused(r) = LimitRefused(r)
        BY <2>5, WholeOperators
      <4>3. Whole!Refuse(Whole!LimitRefused(r))
        BY <1>6, <1>8, <4>1, <4>2 DEF Whole!Refuse
      <4> QED
        BY <1>4, <1>7, <1>9, <2>5, <4>2, <4>3, Zenon DEF Whole!Reserve
  <2>6. CASE /\ r.state \in OpenStates /\ ~QuotaSpent(r) /\ limit \notin {None, 0}
             /\ WindowFull(r, limit)
    <3>1. o = Outcome(WindowRefused(r), FALSE)
      BY <2>1, <2>6 DEF ReserveOutcome, WindowOutcome
    <3> QED
      BY <1>4, <1>6, <1>7, <1>8, <1>9, <2>6, <3>1, WholeOperators
         DEF Whole!Reserve, Whole!Refuse, Outcome
  <2>7. CASE /\ r.state \in OpenStates /\ ~QuotaSpent(r) /\ limit \notin {None, 0}
             /\ ~WindowFull(r, limit)
    <3>1. o = Outcome(WindowTaken(r), TRUE)
      BY <2>1, <2>7 DEF ReserveOutcome, WindowOutcome
    <3> QED
      BY <1>4, <1>6, <1>7, <1>8, <1>9, <2>7, <3>1, WholeOperators
         DEF Whole!Reserve, Whole!Admit, Outcome
  <2> QED
    BY <2>2, <2>3, <2>4, <2>5, <2>6, <2>7
<1> QED
  BY <1>10, <1>11

LEMMA ReturnWhole ==
    ASSUME TypeInv, Begun(record, clock), OneAtATime', NEW t \in Threads, Return(t)
    PROVE  Whole!Answer(t)
<1> DEFINE s == Seen(record, clock)
<1>1. thread[t] \in Frame /\ thread \in [Threads -> Frame] /\ record \in Record
      /\ clock \in Nat
  BY DEF TypeInv, TypeOK
<1>2. ~Inside(t) /\ At(t, "calling") /\ UNCHANGED <<record, clock, limit>>
  BY DEF Return, At, Inside
<1>3. PICK g, h :
        /\ thread' = [thread EXCEPT ![t] = g] /\ g.at = "read"
        /\ MethodOutcome(g, Refreshed(s), limit) = Outcome(h, FALSE)
        /\ \/ h = AfterSuccess(s)
           \/ \E f \in FailureModes : h = AfterFailure(s, f.kind, f.retry)
  <2> HIDE DEF s
  <2>1. CASE thread' = [thread EXCEPT ![t].at = "read", ![t].method = "record_success"]
    <3> DEFINE g == [thread[t] EXCEPT !.at = "read", !.method = "record_success"]
    <3>1. thread' = [thread EXCEPT ![t] = g]
      BY <1>1, <2>1
    <3>2. g.at = "read" /\ g.method = "record_success"
      BY <1>1 DEF Frame
    <3> HIDE DEF g
    <3>3. MethodOutcome(g, Refreshed(s), limit) = Outcome(Succeeded(Refreshed(s)), FALSE)
      BY <3>2 DEF MethodOutcome
    <3>4. Succeeded(Refreshed(s)) = AfterSuccess(s)
      BY DEF Succeeded, AfterSuccess
    <3> QED
      BY <3>1, <3>2, <3>3, <3>4
  <2>2. ASSUME NEW f \in FailureModes,
               thread' = [thread EXCEPT ![t].at = "read", ![t].method = "record_failure",
                                        ![t].kind = f.kind, ![t].retry = f.retry]
        PROVE  \E g, h :
                 /\ thread' = [thread EXCEPT ![t] = g] /\ g.at = "read"
                 /\ MethodOutcome(g, Refreshed(s), limit) = Outcome(h, FALSE)
                 /\ \E e \in FailureModes : h = AfterFailure(s, e.kind, e.retry)
    <3> DEFINE g == [thread[t] EXCEPT !.at = "read", !.method = "record_failure",
                                      !.kind = f.kind, !.retry = f.retry]
    <3>1. thread' = [thread EXCEPT ![t] = g]
      BY <1>1, <2>2
    <3>2. g.at = "read" /\ g.method = "record_failure" /\ g.kind = f.kind
          /\ g.retry = f.retry
      BY <1>1 DEF Frame
    <3> HIDE DEF g
    <3>3. MethodOutcome(g, Refreshed(s), limit)
            = Outcome(Failed(Counted(Refreshed(s)), f.kind, f.retry), FALSE)
      BY <3>2 DEF MethodOutcome
    <3>4. Failed(Counted(Refreshed(s)), f.kind, f.retry) = AfterFailure(s, f.kind, f.retry)
      BY <1>1, SeenFields, FailureWhole DEF s
    <3> QED
      BY <3>1, <3>2, <3>3, <3>4
  <2>3. \/ thread' = [thread EXCEPT ![t].at = "read", ![t].method = "record_success"]
        \/ \E f \in FailureModes :
             thread' = [thread EXCEPT ![t].at = "read", ![t].method = "record_failure",
                                      ![t].kind = f.kind, ![t].retry = f.retry]
    BY Zenon DEF Return
  <2> QED
    BY <2>1, <2>2, <2>3, Zenon
<1>4. Rest(g, record, clock, limit) = Outcome(h, FALSE)
  BY <1>3 DEF Rest
<1>5. /\ PendingHealth = s
      /\ PendingHealth' = h
      /\ PendingCalls = {u \in Threads : At(u, "calling")}
      /\ PendingCalls' = {u \in Threads : IF u = t THEN FALSE ELSE At(u, "calling")}
  <2>1. /\ PendingHealth = Seen(record, clock)
        /\ PendingHealth' = Rest(g, record, clock, limit).health
        /\ PendingCalls = {u \in Threads : At(u, "calling")}
        /\ PendingCalls' = {u \in Threads : IF u = t
                                            THEN Rest(g, record, clock, limit).call
                                            ELSE At(u, "calling")}
    BY <1>2, <1>3, Enters
  <2>2. Outcome(h, FALSE).health = h /\ Outcome(h, FALSE).call = FALSE
    BY DEF Outcome
  <2> QED
    BY <1>4, <2>1, <2>2, Zenon
<1>6. t \in PendingCalls /\ PendingCalls' = PendingCalls \ {t}
  BY <1>2, <1>5
<1> HIDE DEF s
<1> QED
  BY <1>2, <1>3, <1>5, <1>6, WholeOperators DEF Whole!Answer

LEMMA TickWhole ==
    ASSUME TypeInv, Begun(record, clock), Prompt, Tick
    PROVE  Whole!Tick
<1>1. record \in Record /\ clock \in Nat /\ clock' = clock + 1
      /\ UNCHANGED <<limit, record, thread>>
  BY DEF TypeInv, TypeOK, Tick
<1>2. \A u \in Threads : thread[u].at \in {"idle", "calling"}
  BY <1>1 DEF Prompt, Inside
<1>3. PendingHealth = Seen(record, clock)
  BY <1>2 DEF PendingHealth, Inside
<1>4. PendingHealth' = Seen(record, clock + 1)
  BY <1>1, <1>2 DEF PendingHealth, Inside
<1>5. PendingCalls' = PendingCalls
  <2>1. \A u \in Threads : Rest(thread[u], record, clock + 1, limit).call
                             = Rest(thread[u], record, clock, limit).call
    BY <1>2, OutsideRest DEF Outcome
  <2> QED
    BY <1>1, <2>1 DEF PendingCalls, Pending
<1> QED
  BY <1>1, <1>3, <1>4, <1>5, SeenElapsed, WholeOperators DEF Whole!Tick

WholeStep == Whole!Next \/ UNCHANGED <<limit, PendingHealth, PendingCalls>>

LEMMA StepIsWhole ==
    ASSUME TypeInv, Begun(record, clock), OneAtATime, OneAtATime', Prompt, Next
    PROVE  WholeStep
<1>1. ASSUME NEW t \in Threads, Begin(t) \/ Return(t) PROVE WholeStep
  BY <1>1, BeginWhole, ReturnWhole DEF WholeStep, Whole!Next
<1>2. ASSUME NEW t \in Threads,
             \/ ReadDeadline(t) \/ Refresh(t) \/ Reserve(t) \/ ReadWindowClock(t)
             \/ Count(t) \/ RecordSuccess(t) \/ CountFailure(t) \/ ReadFailureClock(t)
             \/ Judge(t) \/ ComputeDeadline(t) \/ WriteDeadline(t)
      PROVE  WholeStep
  <2>1. Alike
    BY <1>2, RefreshAlike, ReserveAlike, WindowAlike, RecordAlike, DeadlineAlike
  <2>2. UNCHANGED limit
    BY <1>2 DEF ReadDeadline, Refresh, Reserve, ReadWindowClock, Count, RecordSuccess,
       CountFailure, ReadFailureClock, Judge, ComputeDeadline, WriteDeadline
  <2> QED
    BY <2>1, <2>2 DEF WholeStep, Alike
<1>3. CASE Tick
  BY <1>3, TickWhole DEF WholeStep, Whole!Next
<1> QED
  BY <1>1, <1>2, <1>3 DEF Next

(***************************************************************************)
(* Whatever overlapped before, a step of the circuit at which no two       *)
(* methods overlap and no time passes inside one is a step of WholeCircuit *)
(* or none: for any number of threads, any limit, quota and cooldowns.     *)
(***************************************************************************)
THEOREM MethodsAloneTakenWhole == Spec => MethodsAloneAreWhole
<1> DEFINE Step == OneAtATime /\ OneAtATime' /\ Prompt => WholeStep
<1>1. TypeInv /\ Begun(record, clock) /\ [Next]_vars => [Step]_vars
  BY StepIsWhole
<1>2. Spec => [][Step]_vars
  BY <1>1, InitType, NextType, InitBegun, NextBegun, PTL DEF Spec
<1> QED
  BY <1>2 DEF MethodsAloneAreWhole, WholeStep

LEMMA InitWhole == Init => Whole!Init
<1> SUFFICES ASSUME Init PROVE Whole!Init
  OBVIOUS
<1>1. PICK d \in Descriptors :
        /\ limit = d.limit
        /\ record = [state |-> "healthy", failures |-> 0, until |-> None,
                     quota |-> d.quota, start |-> None, used |-> 0]
  BY DEF Init
<1>2. \A u \in Threads : thread[u].at = "idle"
  BY DEF Init, Idle
<1>3. PendingHealth = Whole!NewHealth("healthy", d.quota)
  <2>1. PendingHealth = Seen(record, clock)
    BY <1>2 DEF PendingHealth, Inside
  <2>2. /\ Seen(record, clock).state = "healthy"
        /\ Seen(record, clock).failures = 0
        /\ Seen(record, clock).until = None
        /\ Seen(record, clock).quota = d.quota
        /\ Seen(record, clock).age = None
        /\ Seen(record, clock).used = 0
    BY <1>1 DEF Seen
  <2>3. Seen(record, clock)
          = [state |-> "healthy", failures |-> 0, until |-> None,
             quota |-> d.quota, age |-> None, used |-> 0]
    BY <2>2, Zenon DEF Seen
  <2> QED
    BY <2>1, <2>3 DEF Whole!NewHealth
<1>4. PendingCalls = {}
  <2>1. \A u \in Threads : Pending(u).call = FALSE
    <3> SUFFICES ASSUME NEW u \in Threads PROVE Pending(u).call = FALSE
      OBVIOUS
    <3>1. Pending(u) = Outcome(Seen(record, clock), FALSE)
      BY <1>2, Zenon DEF Pending, Rest
    <3> QED
      BY <3>1 DEF Outcome
  <2> QED
    BY <2>1 DEF PendingCalls
<1> QED
  BY <1>1, <1>3, <1>4 DEF Whole!Init

(***************************************************************************)
(* Where no two methods ever overlap and no time passes inside one, the    *)
(* circuit that runs call by call implements the one the Gateway takes     *)
(* whole.                                                                  *)
(***************************************************************************)
THEOREM CircuitAloneIsWhole ==
    Spec /\ []OneAtATime /\ [][Prompt]_vars => ImplementsWhole
<1>1. TypeInv /\ Begun(record, clock) /\ OneAtATime /\ OneAtATime'
        /\ [Prompt]_vars /\ [Next]_vars
        => [Whole!Next]_<<limit, PendingHealth, PendingCalls>>
  <2>1. UNCHANGED vars => UNCHANGED <<limit, PendingHealth, PendingCalls>>
    BY DEF vars, PendingHealth, PendingCalls, Pending, Inside
  <2> QED
    BY <2>1, StepIsWhole DEF WholeStep
<1> QED
  BY <1>1, InitWhole, InitType, NextType, InitBegun, NextBegun, PTL
     DEF Spec, ImplementsWhole, Whole!Spec
=============================================================================
