---------------------------- MODULE SharedPoolProofs ----------------------------
(***************************************************************************)
(* Theorems about a shared pool entry, for any number of threads, metrics  *)
(* and observations and without a bound on time.                           *)
(***************************************************************************)
EXTENDS SharedPool, TLAPS

\* What a frame holds at each place.
FrameSound(f) ==
    /\ f.at \in {"refresh", "decide", "build"} => f.seen \in Entry
    /\ f.at # "idle" => f.method \in Methods
    /\ f.at = "decide" => f.method = "rejection_reasons" /\ f.first \in Entry
    /\ f.at = "build" => f.method = "apply"
    /\ f.at # "idle" /\ f.method = "apply" => f.observed \in Observed

TypeInv == TypeOK /\ \A t \in Threads : FrameSound(thread[t])

(***************************************************************************)
(* A verdict in the making is about the entry: every copy an undisturbed   *)
(* rejection_reasons took could be scheduled at a moment of the call if it *)
(* says so.                                                                *)
(***************************************************************************)
Witnessed(t) ==
    LET f == thread[t]
    IN  Judging(t) /\ ~f.moved =>
          /\ f.at # "idle" /\ Eligible(Current(entry)) => f.open
          /\ f.at = "refresh" => f.seen = entry
          /\ f.first # None /\ ~Failures(f.first) => f.open
          /\ f.at = "decide" => f.first # None
          /\ f.at = "decide" /\ Eligible(f.seen) => f.open

VerdictInv == \A t \in Threads : Witnessed(t)

(***************************************************************************)
(* What the threads hold of a lone observation is that observation.        *)
(***************************************************************************)
LoneInv ==
    lone # None =>
        /\ LoneObservationKept
        /\ \A t \in Threads :
             /\ At(t, "refresh") => thread[t].seen = lone
             /\ At(t, "build") => thread[t].seen.quota = lone.quota

-----------------------------------------------------------------------------
(***************************************************************************)
(* Types.                                                                  *)
(***************************************************************************)
LEMMA EndedOK ==
    ASSUME NEW e \in Entry
    PROVE  Ended(e) \in Entry /\ Current(e) \in Entry /\ Ended(e).quota = e.quota
BY DEF Entry, Ended, Current, ResourceHealth, Optional

LEMMA MergedOK ==
    ASSUME NEW e \in Entry, NEW o \in Observed, ~Unknown(o)
    PROVE  Merged(e, o) \in Entry
<1>1. PICK x \in Observations : o.quota = x.quota
  BY DEF Observed
<1>2. \A m \in DOMAIN o.quota : o.quota[m] \in Optional(Nat)
  BY <1>1, PoolAssumption
<1>3. [m \in Metrics |-> IF m \in DOMAIN o.quota THEN o.quota[m] ELSE e.quota[m]]
        \in [Metrics -> Optional(Nat)]
  BY <1>2 DEF Entry
<1> QED
  BY <1>3 DEF Merged, Entry, Observed

LEMMA KnownOK ==
    ASSUME TypeInv, NEW e \in Entry, NEW o \in Observed
    PROVE  Known(o, e) \in Entry
<1>1. PICK x \in Observations : o.quota = x.quota
  BY DEF Observed
<1>2. \A m \in DOMAIN o.quota : o.quota[m] \in Optional(Nat)
  BY <1>1, PoolAssumption
<1>3. lone = None \/ lone \in Entry
  BY DEF TypeInv, TypeOK, Optional
<1> DEFINE q == [m \in Metrics |->
                   CASE m \in DOMAIN o.quota -> o.quota[m]
                     [] m \notin DOMAIN o.quota /\ lone # None -> lone.quota[m]
                     [] OTHER -> e.quota[m]]
<1>4. q \in [Metrics -> Optional(Nat)]
  BY <1>2, <1>3 DEF Entry
<1>5. Known(o, e) = [health |-> o.health, until |-> o.until, quota |-> q]
  BY DEF Known
<1> HIDE DEF q
<1> QED
  BY <1>4, <1>5 DEF Entry, Observed

LEMMA IdleOK == Idle \in Frame /\ FrameSound(Idle) /\ Idle.at = "idle"
BY DEF Idle, Frame, FrameSound, Places, Optional

LEMMA FrameStep ==
    ASSUME TypeInv, NEW t \in Threads, NEW f \in Frame, FrameSound(f),
           thread' = [thread EXCEPT ![t] = f]
    PROVE  thread' \in [Threads -> Frame] /\ \A u \in Threads : FrameSound(thread'[u])
BY DEF TypeInv, TypeOK

LEMMA ReplacedStep ==
    ASSUME TypeInv, NEW t \in Threads, NEW e \in Entry, NEW f \in Frame, FrameSound(f),
           thread' = [Replaced(e, t) EXCEPT ![t] = f]
    PROVE  thread' \in [Threads -> Frame] /\ \A u \in Threads : FrameSound(thread'[u])
<1>1. \A u \in Threads : thread[u] \in Frame /\ FrameSound(thread[u])
  BY DEF TypeInv, TypeOK
<1>2. ASSUME NEW u \in Threads, u # t
      PROVE  thread'[u] \in Frame /\ FrameSound(thread'[u])
  BY <1>1, <1>2 DEF Replaced, Frame, FrameSound
<1> QED
  BY <1>2 DEF Replaced

LEMMA FoundOK ==
    ASSUME TypeInv, NEW t \in Threads, NEW e \in Entry, thread[t].at \in {"read", "refresh"}
    PROVE  Found(t, e) \in Frame /\ FrameSound(Found(t, e))
<1>1. thread[t] \in Frame /\ FrameSound(thread[t])
  BY DEF TypeInv, TypeOK
<1>2. thread[t].method \in Methods
  BY <1>1 DEF FrameSound
<1>3. CASE thread[t].method = "get"
  <2>1. Found(t, e) = Idle
    BY <1>3 DEF Found, Runs, Judging
  <2> QED
    BY <2>1, IdleOK
<1>4. CASE thread[t].method = "apply"
  <2>1. Found(t, e) = [thread[t] EXCEPT !.at = "build", !.seen = e]
    BY <1>4 DEF Found, Runs, Judging
  <2>2. thread[t].observed \in Observed
    BY <1>1, <1>4 DEF FrameSound
  <2> QED
    BY <1>1, <1>4, <2>1, <2>2 DEF Frame, FrameSound, Places, Methods, Optional
<1>5. CASE thread[t].method = "rejection_reasons" /\ thread[t].first = None
  <2>1. Found(t, e) = [thread[t] EXCEPT !.at = "read", !.first = e, !.seen = None]
    BY <1>5 DEF Found, Runs, Judging
  <2> QED
    BY <1>1, <1>5, <2>1 DEF Frame, FrameSound, Places, Methods, Optional
<1>6. CASE thread[t].method = "rejection_reasons" /\ thread[t].first # None
  <2>1. Found(t, e) = [thread[t] EXCEPT !.at = "decide", !.seen = e]
    BY <1>6 DEF Found, Runs, Judging
  <2> QED
    BY <1>1, <1>6, <2>1 DEF Frame, FrameSound, Places, Methods, Optional
<1> QED
  BY <1>2, <1>3, <1>4, <1>5, <1>6 DEF Methods

LEMMA InitTypeInv == Init => TypeInv
BY IdleOK, PoolAssumption DEF Init, TypeInv, TypeOK, Entry, Optional

LEMMA NextTypeInv == TypeInv /\ [Next]_vars => TypeInv'
<1> SUFFICES ASSUME TypeInv, [Next]_vars PROVE TypeInv'
  OBVIOUS
<1>1. /\ clock \in Nat /\ entry \in Entry /\ lone \in Optional(Entry)
      /\ thread \in [Threads -> Frame]
      /\ \A t \in Threads : FrameSound(thread[t])
  BY DEF TypeInv, TypeOK
<1>2. ASSUME NEW t \in Threads, Begin(t) PROVE TypeInv'
  <2>1. PICK m \in {"get", "rejection_reasons"}, open \in BOOLEAN :
          thread' = [thread EXCEPT ![t] = [Idle EXCEPT !.at = "read", !.method = m,
                                                       !.open = open]]
    BY <1>2 DEF Begin
  <2>2. /\ [Idle EXCEPT !.at = "read", !.method = m, !.open = open] \in Frame
        /\ FrameSound([Idle EXCEPT !.at = "read", !.method = m, !.open = open])
    BY DEF Idle, Frame, FrameSound, Places, Methods, Optional
  <2> QED
    BY <1>1, <1>2, <2>1, <2>2, FrameStep DEF Begin, TypeInv, TypeOK
<1>3. ASSUME NEW t \in Threads, BeginApply(t) PROVE TypeInv'
  <2>1. PICK o \in Observations :
          thread' = [thread EXCEPT ![t] =
                       [Idle EXCEPT !.at = "read", !.method = "apply",
                          !.observed = [health |-> o.health,
                                        until |-> IF o.cooldown = None
                                                  THEN None ELSE clock + o.cooldown,
                                        quota |-> o.quota]]]
    BY <1>3 DEF BeginApply
  <2> DEFINE x == [health |-> o.health,
                   until |-> IF o.cooldown = None THEN None ELSE clock + o.cooldown,
                   quota |-> o.quota]
             f == [Idle EXCEPT !.at = "read", !.method = "apply", !.observed = x]
  <2>2. x \in Observed
    BY <1>1, PoolAssumption DEF Observed, Optional
  <2> HIDE DEF x
  <2>3. f \in Frame /\ FrameSound(f)
    BY <2>2 DEF Idle, Frame, FrameSound, Places, Methods, Optional
  <2>4. thread' = [thread EXCEPT ![t] = f]
    BY <2>1 DEF x
  <2> HIDE DEF f
  <2> QED
    BY <1>1, <1>3, <2>3, <2>4, FrameStep DEF BeginApply, TypeInv, TypeOK
<1>4. ASSUME NEW t \in Threads, Read(t) PROVE TypeInv'
  <2>1. CASE entry.health \in TransientHealth /\ entry.until # None
    <3> DEFINE f == [thread[t] EXCEPT !.at = "refresh", !.seen = entry]
    <3>1. f \in Frame /\ FrameSound(f)
      BY <1>1, <1>4 DEF Read, At, Frame, FrameSound, Places, Optional
    <3> QED
      BY <1>1, <1>4, <2>1, <3>1, FrameStep DEF Read, TypeInv, TypeOK
  <2>2. CASE ~(entry.health \in TransientHealth /\ entry.until # None)
    <3>1. Found(t, entry) \in Frame /\ FrameSound(Found(t, entry))
      BY <1>1, <1>4, FoundOK DEF Read, At
    <3> QED
      BY <1>1, <1>4, <2>2, <3>1, FrameStep DEF Read, TypeInv, TypeOK
  <2> QED
    BY <2>1, <2>2
<1>5. ASSUME NEW t \in Threads, Refresh(t) PROVE TypeInv'
  <2> DEFINE e == thread[t].seen
  <2>1. e \in Entry /\ thread[t].at = "refresh"
    BY <1>1, <1>5 DEF Refresh, At, FrameSound
  <2>2. /\ Found(t, e) \in Frame /\ FrameSound(Found(t, e))
        /\ Ended(e) \in Entry
        /\ Found(t, Ended(e)) \in Frame /\ FrameSound(Found(t, Ended(e)))
    BY <2>1, EndedOK, FoundOK
  <2>3. UNCHANGED <<clock, lone>>
    BY <1>5 DEF Refresh
  <2>4. CASE Due(e)
    <3>1. /\ entry' = Ended(e)
          /\ thread' = [Replaced(Ended(e), t) EXCEPT ![t] = Found(t, Ended(e))]
      BY <1>5, <2>4 DEF Refresh
    <3> HIDE DEF e
    <3>2. thread' \in [Threads -> Frame] /\ \A u \in Threads : FrameSound(thread'[u])
      BY <2>2, <3>1, ReplacedStep
    <3> QED
      BY <1>1, <2>2, <2>3, <3>1, <3>2 DEF TypeInv, TypeOK
  <2>5. CASE ~Due(e)
    <3>1. entry' = entry /\ thread' = [thread EXCEPT ![t] = Found(t, e)]
      BY <1>5, <2>5 DEF Refresh
    <3> HIDE DEF e
    <3> QED
      BY <1>1, <2>2, <2>3, <3>1, FrameStep DEF TypeInv, TypeOK
  <2> QED
    BY <2>4, <2>5
<1>6. ASSUME NEW t \in Threads, Decide(t) \/ ApplyRaises(t) PROVE TypeInv'
  BY <1>1, <1>6, IdleOK, FrameStep DEF Decide, ApplyRaises, TypeInv, TypeOK
<1>7. ASSUME NEW t \in Threads, Apply(t) PROVE TypeInv'
  <2> DEFINE o == thread[t].observed
             e == Merged(thread[t].seen, o)
  <2>1. thread[t].seen \in Entry /\ o \in Observed /\ ~Unknown(o)
    BY <1>1, <1>7 DEF Apply, At, FrameSound
  <2>2. e \in Entry /\ Known(o, e) \in Entry
    BY <2>1, MergedOK, KnownOK
  <2>3. /\ entry' = e
        /\ thread' = [Replaced(e, t) EXCEPT ![t] = Idle]
        /\ lone' \in {Known(o, e), None}
        /\ UNCHANGED clock
    BY <1>7 DEF Apply
  <2> HIDE DEF o, e
  <2>4. thread' \in [Threads -> Frame] /\ \A u \in Threads : FrameSound(thread'[u])
    BY <2>2, <2>3, IdleOK, ReplacedStep
  <2> QED
    BY <1>1, <2>2, <2>3, <2>4 DEF TypeInv, TypeOK, Optional
<1>8. CASE Tick
  <2>1. ASSUME NEW u \in Threads PROVE thread'[u] \in Frame /\ FrameSound(thread'[u])
    BY <1>1, <1>8 DEF Tick, Frame, FrameSound
  <2>2. DOMAIN thread' = Threads /\ thread' = [u \in Threads |-> thread'[u]]
    BY <1>8 DEF Tick
  <2>3. thread' \in [Threads -> Frame]
    BY <2>1, <2>2
  <2>4. clock' \in Nat /\ UNCHANGED <<entry, lone>>
    BY <1>1, <1>8 DEF Tick
  <2> QED
    BY <1>1, <2>1, <2>3, <2>4 DEF TypeInv, TypeOK
<1>9. CASE UNCHANGED vars
  BY <1>9 DEF vars, TypeInv, TypeOK
<1> QED
  BY <1>2, <1>3, <1>4, <1>5, <1>6, <1>7, <1>8, <1>9 DEF Next

(***************************************************************************)
(* The entry, the threads' copies of it and the history keep their types.  *)
(***************************************************************************)
THEOREM PoolTyped == Spec => []TypeOK
<1>1. TypeInv => TypeOK
  BY DEF TypeInv
<1> QED
  BY <1>1, InitTypeInv, NextTypeInv, PTL DEF Spec

-----------------------------------------------------------------------------
(***************************************************************************)
(* An undisturbed observation is kept.                                     *)
(***************************************************************************)
LEMMA InitLone == Init => LoneInv
BY DEF Init, LoneInv

\* Where a lookup returns to: what it returned is built on only by apply.
LEMMA FoundPlace ==
    ASSUME TypeInv, NEW t \in Threads, NEW e \in Entry, thread[t].at \in {"read", "refresh"}
    PROVE  /\ Found(t, e).at # "refresh"
           /\ Found(t, e).at = "build" => Found(t, e).seen = e
<1>1. thread[t] \in Frame
  BY DEF TypeInv, TypeOK
<1> QED
  BY <1>1 DEF Found, Idle, Frame, Runs, Judging

\* The others' frames, as a replacement of the entry leaves them.
LEMMA OthersKept ==
    ASSUME TypeInv, NEW t \in Threads, NEW e, NEW f,
           thread' = [Replaced(e, t) EXCEPT ![t] = f]
    PROVE  /\ thread'[t] = f
           /\ \A u \in Threads \ {t} : /\ thread'[u].at = thread[u].at
                                       /\ thread'[u].method = thread[u].method
                                       /\ thread'[u].seen = thread[u].seen
                                       /\ thread'[u].first = thread[u].first
<1>1. thread \in [Threads -> Frame]
  BY DEF TypeInv, TypeOK
<1> QED
  BY <1>1 DEF Replaced, Frame

\* The entry and the history stand still, and one thread moves.
LEMMA QuietLone ==
    ASSUME TypeInv, LoneInv, NEW t \in Threads, NEW f,
           thread' = [thread EXCEPT ![t] = f],
           UNCHANGED <<clock, entry, lone>>,
           lone # None /\ f.at = "refresh" => f.seen = lone,
           lone # None /\ f.at = "build" => f.seen.quota = lone.quota
    PROVE  LoneInv'
BY DEF TypeInv, TypeOK, LoneInv, LoneObservationKept, At

LEMMA NextLone == TypeInv /\ LoneInv /\ [Next]_vars => LoneInv'
<1> SUFFICES ASSUME TypeInv, LoneInv, [Next]_vars PROVE LoneInv'
  OBVIOUS
<1>1. /\ clock \in Nat /\ entry \in Entry /\ lone \in Optional(Entry)
      /\ thread \in [Threads -> Frame]
      /\ \A t \in Threads : FrameSound(thread[t])
  BY DEF TypeInv, TypeOK
<1>2. ASSUME NEW t \in Threads, Begin(t) \/ BeginApply(t) \/ Decide(t) \/ ApplyRaises(t)
      PROVE  LoneInv'
  <2>1. /\ \A u \in Threads \ {t} : thread'[u] = thread[u]
        /\ thread'[t].at \in {"idle", "read"}
        /\ UNCHANGED <<clock, entry, lone>>
    <3>1. CASE Begin(t)
      BY <1>1, <3>1 DEF Begin, Idle
    <3>2. CASE BeginApply(t)
      BY <1>1, <3>2 DEF BeginApply, Idle
    <3>3. CASE Decide(t) \/ ApplyRaises(t)
      BY <1>1, <3>3 DEF Decide, ApplyRaises, Idle
    <3> QED
      BY <1>2, <3>1, <3>2, <3>3
  <2> QED
    BY <2>1 DEF LoneInv, LoneObservationKept, At
<1>3. ASSUME NEW t \in Threads, Read(t) PROVE LoneInv'
  <2>1. UNCHANGED <<clock, entry, lone>>
    BY <1>3 DEF Read
  <2>2. CASE entry.health \in TransientHealth /\ entry.until # None
    <3> DEFINE f == [thread[t] EXCEPT !.at = "refresh", !.seen = entry]
    <3>1. thread' = [thread EXCEPT ![t] = f] /\ f.at = "refresh" /\ f.seen = entry
      BY <1>1, <1>3, <2>2 DEF Read, Frame
    <3>2. lone # None => entry = lone
      BY <1>1, <2>2 DEF LoneInv, LoneObservationKept, TransientHealth, Entry, Optional
    <3> HIDE DEF f
    <3> QED
      BY <2>1, <3>1, <3>2, QuietLone
  <2>3. CASE ~(entry.health \in TransientHealth /\ entry.until # None)
    <3> DEFINE f == Found(t, entry)
    <3>1. thread' = [thread EXCEPT ![t] = f]
      BY <1>3, <2>3 DEF Read
    <3>2. f.at # "refresh" /\ (f.at = "build" => f.seen = entry)
      BY <1>1, <1>3, FoundPlace DEF Read, At
    <3>3. lone # None => entry.quota = lone.quota
      BY <1>1 DEF LoneInv, LoneObservationKept, Entry, Optional
    <3> HIDE DEF f
    <3> QED
      BY <2>1, <3>1, <3>2, <3>3, QuietLone
  <2> QED
    BY <2>2, <2>3
<1>4. ASSUME NEW t \in Threads, Refresh(t) PROVE LoneInv'
  <2> DEFINE e == thread[t].seen
  <2>1. /\ e \in Entry /\ thread[t].at = "refresh"
        /\ lone # None => e = lone
        /\ UNCHANGED <<clock, lone>>
    BY <1>1, <1>4 DEF Refresh, At, FrameSound, LoneInv
  <2>2. CASE Due(e)
    <3>1. /\ entry' = Ended(e)
          /\ thread' = [Replaced(Ended(e), t) EXCEPT ![t] = Found(t, Ended(e))]
      BY <1>4, <2>2 DEF Refresh
    <3>2. /\ Found(t, Ended(e)).at # "refresh"
          /\ Found(t, Ended(e)).at = "build" => Found(t, Ended(e)).seen = Ended(e)
          /\ Ended(e).quota = e.quota
      BY <2>1, EndedOK, FoundPlace
    <3>3. /\ thread'[t] = Found(t, Ended(e))
          /\ \A u \in Threads \ {t} : /\ thread'[u].at = thread[u].at
                                      /\ thread'[u].seen = thread[u].seen
      BY <3>1, OthersKept
    <3>4. lone # None => LoneObservationKept'
      BY <2>1, <2>2, <3>1 DEF Due, Ended, LoneObservationKept
    <3> HIDE DEF e
    <3>5. lone # None =>
            \A u \in Threads : /\ At(u, "refresh")' => thread'[u].seen = lone
                               /\ At(u, "build")' => thread'[u].seen.quota = lone.quota
      BY <2>1, <3>2, <3>3 DEF LoneInv, At
    <3> QED
      BY <2>1, <3>4, <3>5 DEF LoneInv
  <2>3. CASE ~Due(e)
    <3>1. entry' = entry /\ thread' = [thread EXCEPT ![t] = Found(t, e)]
      BY <1>4, <2>3 DEF Refresh
    <3>2. /\ Found(t, e).at # "refresh"
          /\ Found(t, e).at = "build" => Found(t, e).seen = e
      BY <2>1, FoundPlace
    <3> HIDE DEF e
    <3> QED
      BY <2>1, <3>1, <3>2, QuietLone
  <2> QED
    BY <2>2, <2>3
<1>5. ASSUME NEW t \in Threads, Apply(t) PROVE LoneInv'
  <2> DEFINE o == thread[t].observed
             c == thread[t].seen
             e == Merged(c, o)
  <2>1. /\ thread' = [Replaced(e, t) EXCEPT ![t] = Idle]
        /\ entry' = e
        /\ lone' = IF \A u \in Threads \ {t} : At(u, "idle") THEN Known(o, e) ELSE None
        /\ At(t, "build")
    BY <1>5 DEF Apply
  <2>2. c \in Entry /\ (lone # None => c.quota = lone.quota)
    BY <1>1, <2>1 DEF At, FrameSound, LoneInv
  <2>3. Known(o, e) = e
    <3>1. \A m \in Metrics : e.quota[m] = IF m \in DOMAIN o.quota THEN o.quota[m] ELSE c.quota[m]
      BY DEF Merged
    <3>2. [m \in Metrics |->
             CASE m \in DOMAIN o.quota -> o.quota[m]
               [] m \notin DOMAIN o.quota /\ lone # None -> lone.quota[m]
               [] OTHER -> e.quota[m]] = e.quota
      <4>1. e.quota = [m \in Metrics |-> e.quota[m]]
        BY DEF Merged
      <4> HIDE DEF e
      <4> QED
        BY <2>2, <3>1, <4>1
    <3> QED
      BY <3>2 DEF Known, Merged
  <2> HIDE DEF e, o
  <2>4. \A u \in Threads \ {t} : thread'[u].at = thread[u].at
    BY <2>1, OthersKept
  <2>5. thread'[t].at = "idle"
    <3>1. thread'[t] = Idle
      BY <2>1, OthersKept
    <3> QED
      BY <3>1, IdleOK
  <2>6. lone' # None => \A u \in Threads : At(u, "idle")'
    BY <2>1, <2>4, <2>5 DEF At
  <2>7. lone' # None => entry' = lone'
    BY <2>1, <2>3
  <2> QED
    BY <2>6, <2>7 DEF LoneInv, LoneObservationKept, At
<1>6. CASE Tick
  <2>1. /\ \A u \in Threads : /\ thread'[u].at = thread[u].at
                              /\ thread'[u].seen = thread[u].seen
        /\ UNCHANGED <<entry, lone>>
    BY <1>1, <1>6 DEF Tick, Frame
  <2>2. clock' = clock + 1 /\ clock \in Nat
    BY <1>1, <1>6 DEF Tick
  <2>3. lone # None /\ lone.until # None => lone.until \in Nat
    BY <1>1 DEF Entry, Optional
  <2>4. lone # None => LoneObservationKept'
    BY <2>1, <2>2, <2>3 DEF LoneInv, LoneObservationKept
  <2> QED
    BY <2>1, <2>4 DEF LoneInv, At
<1>7. CASE UNCHANGED vars
  BY <1>7 DEF vars, LoneInv, LoneObservationKept, At
<1> QED
  BY <1>2, <1>3, <1>4, <1>5, <1>6, <1>7 DEF Next

(***************************************************************************)
(* An observation that finished while no other thread was in the pool is   *)
(* the entry until the next one, or until its own cooldown is over; so is  *)
(* all that such observations saw of the quota.                            *)
(***************************************************************************)
THEOREM LoneObservationsKept == Spec => []LoneObservationKept
<1>1. LoneInv => LoneObservationKept
  BY DEF LoneInv, LoneObservationKept
<1> QED
  BY <1>1, InitTypeInv, NextTypeInv, InitLone, NextLone, PTL DEF Spec

-----------------------------------------------------------------------------
(***************************************************************************)
(* A verdict is about the entry.                                           *)
(***************************************************************************)
LEMMA InitVerdict == Init => VerdictInv
BY DEF Init, VerdictInv, Witnessed, Idle, Judging, Runs

\* A copy that could be scheduled gives no reason.
LEMMA ReasonsAgree == ASSUME NEW e \in Entry PROVE Eligible(e) <=> ~Failures(e)
BY DEF Eligible, Failures, Schedulable

\* A lookup that found e, the entry or its refresh, is witnessed.
LEMMA FoundWitnessed ==
    ASSUME TypeInv, NEW t \in Threads, NEW e \in Entry, At(t, "read") \/ At(t, "refresh"),
           thread'[t] = Found(t, e), Witnessed(t),
           ~thread[t].moved => entry' = e /\ Current(entry)' = e /\ e = Current(entry)
    PROVE  Witnessed(t)'
<1> DEFINE f == thread[t]
<1>1. f \in Frame /\ FrameSound(f)
  BY DEF TypeInv, TypeOK
<1>2. CASE f.method # "rejection_reasons"
  <2>1. Found(t, e).method # "rejection_reasons" \/ Found(t, e) = Idle
    BY <1>1, <1>2 DEF Found, Runs, Judging, Frame
  <2> QED
    BY <2>1 DEF Witnessed, Judging, Runs, Idle
<1>3. CASE f.method = "rejection_reasons" /\ ~f.moved
  <2>1. Eligible(e) => f.open
    BY <1>3 DEF Witnessed, Judging, Runs, At
  <2>2. CASE f.first = None
    <3>1. thread'[t] = [f EXCEPT !.at = "read", !.first = e, !.seen = None]
      BY <1>3, <2>2 DEF Found, Runs, Judging
    <3>2. /\ thread'[t].at = "read" /\ thread'[t].first = e /\ thread'[t].open = f.open
      BY <1>1, <3>1 DEF Frame
    <3> QED
      BY <1>3, <2>1, <3>2, ReasonsAgree DEF Witnessed
  <2>3. CASE f.first # None
    <3>1. thread'[t] = [f EXCEPT !.at = "decide", !.seen = e]
      BY <1>3, <2>3 DEF Found, Runs, Judging
    <3>2. /\ thread'[t].at = "decide" /\ thread'[t].first = f.first
          /\ thread'[t].seen = e /\ thread'[t].open = f.open
      BY <1>1, <3>1 DEF Frame
    <3>3. ~Failures(f.first) => f.open
      BY <1>3, <2>3 DEF Witnessed, Judging, Runs
    <3> QED
      BY <1>3, <2>1, <2>3, <3>2, <3>3 DEF Witnessed
  <2> QED
    BY <2>2, <2>3
<1>4. CASE f.method = "rejection_reasons" /\ f.moved
  <2>1. thread'[t].moved
    BY <1>1, <1>4 DEF Found, Runs, Judging, Frame
  <2> QED
    BY <2>1 DEF Witnessed
<1> QED
  BY <1>2, <1>3, <1>4

\* Whoever replaces the entry leaves the others' verdicts witnessed.
LEMMA OthersWitnessed ==
    ASSUME TypeInv, VerdictInv, NEW t \in Threads, NEW e \in Entry, NEW f,
           entry' = e, UNCHANGED clock, thread' = [Replaced(e, t) EXCEPT ![t] = f],
           NEW u \in Threads, u # t
    PROVE  Witnessed(u)'
<1>1. thread \in [Threads -> Frame] /\ thread[u] \in Frame
  BY DEF TypeInv, TypeOK
<1>2. Current(entry)' = Current(e)
  BY DEF Current, Due, Ended
<1>3. CASE ~Judging(u)
  <2>1. thread'[u] = thread[u]
    BY <1>1, <1>3 DEF Replaced
  <2> QED
    BY <1>3, <2>1 DEF Witnessed, Judging, Runs
<1>4. CASE Judging(u)
  <2> DEFINE o == thread[u].open \/ Eligible(Current(e))
             m == thread[u].moved \/ (At(u, "refresh") /\ e # entry)
  <2>1. thread'[u] = [thread[u] EXCEPT !.open = o, !.moved = m]
    BY <1>1, <1>4 DEF Replaced
  <2>4. PICK x, y : thread'[u] = [thread[u] EXCEPT !.open = x, !.moved = y]
                    /\ x = o /\ y = m
    BY <2>1, Zenon
  <2>5. /\ thread'[u].open = x /\ thread'[u].moved = y
        /\ thread'[u].at = thread[u].at /\ thread'[u].method = thread[u].method
        /\ thread'[u].seen = thread[u].seen /\ thread'[u].first = thread[u].first
    <3> DEFINE h == thread'[u]
               g == thread[u]
    <3>1. g \in Frame /\ h = [g EXCEPT !.open = x, !.moved = y]
      BY <1>1, <2>4
    <3> HIDE DEF g, h
    <3>2. h.open = x /\ h.moved = y
      BY <3>1 DEF Frame
    <3>3. h.at = g.at /\ h.method = g.method /\ h.seen = g.seen /\ h.first = g.first
      BY <3>1 DEF Frame
    <3> QED
      BY <3>2, <3>3 DEF g, h
  <2>2. /\ thread'[u].open <=> o
        /\ thread'[u].moved <=> m
        /\ thread'[u].at = thread[u].at /\ thread'[u].method = thread[u].method
        /\ thread'[u].seen = thread[u].seen /\ thread'[u].first = thread[u].first
    BY <2>4, <2>5, Zenon
  <2>3. Witnessed(u)
    BY DEF VerdictInv
  <2> QED
    BY <1>2, <1>4, <2>2, <2>3 DEF Witnessed, Judging, Runs, At
<1> QED
  BY <1>3, <1>4

LEMMA NextVerdict == TypeInv /\ VerdictInv /\ [Next]_vars => VerdictInv'
<1> SUFFICES ASSUME TypeInv, VerdictInv, [Next]_vars PROVE VerdictInv'
  OBVIOUS
<1>1. /\ clock \in Nat /\ entry \in Entry
      /\ thread \in [Threads -> Frame]
      /\ \A t \in Threads : FrameSound(thread[t]) /\ Witnessed(t)
  BY DEF TypeInv, TypeOK, VerdictInv
<1>2. ASSUME NEW t \in Threads, UNCHANGED <<clock, entry>>,
             \A u \in Threads \ {t} : thread'[u] = thread[u],
             NEW u \in Threads, u # t
      PROVE  Witnessed(u)'
  BY <1>1, <1>2 DEF Witnessed, Judging, Runs, Current, Due, Ended
<1>3. ASSUME NEW t \in Threads, Begin(t) PROVE VerdictInv'
  <2>1. PICK m \in {"get", "rejection_reasons"} :
          thread' = [thread EXCEPT ![t] =
                       [Idle EXCEPT !.at = "read", !.method = m,
                                    !.open = m = "rejection_reasons"
                                               /\ Eligible(Current(entry))]]
    BY <1>3 DEF Begin
  <2> DEFINE o == m = "rejection_reasons" /\ Eligible(Current(entry))
  <2>4. thread'[t] = [Idle EXCEPT !.at = "read", !.method = m, !.open = o]
    BY <1>1, <2>1
  <2> HIDE DEF o
  <2>5. thread'[t].open = o
    BY <2>4 DEF Idle
  <2> USE DEF o
  <2>6. thread'[t].open <=> o
    BY <2>5, Zenon
  <2>2. /\ thread'[t].at = "read" /\ thread'[t].method = m /\ thread'[t].first = None
        /\ m = "rejection_reasons" => (thread'[t].open <=> Eligible(Current(entry)))
        /\ \A u \in Threads \ {t} : thread'[u] = thread[u]
        /\ UNCHANGED <<clock, entry>>
    BY <1>1, <1>3, <2>1, <2>4, <2>6 DEF Begin, Idle
  <2>3. Witnessed(t)'
    BY <2>2 DEF Witnessed, Judging, Runs, Current, Due, Ended
  <2> QED
    BY <1>2, <2>2, <2>3 DEF VerdictInv
<1>4. ASSUME NEW t \in Threads, BeginApply(t) \/ Decide(t) \/ ApplyRaises(t)
      PROVE  VerdictInv'
  <2>1. /\ thread'[t].method = "apply" \/ thread'[t] = Idle
        /\ \A u \in Threads \ {t} : thread'[u] = thread[u]
        /\ UNCHANGED <<clock, entry>>
    <3>1. CASE BeginApply(t)
      BY <1>1, <3>1 DEF BeginApply, Idle
    <3>2. CASE Decide(t) \/ ApplyRaises(t)
      BY <1>1, <3>2 DEF Decide, ApplyRaises
    <3> QED
      BY <1>4, <3>1, <3>2
  <2>2. Witnessed(t)'
    BY <2>1 DEF Witnessed, Judging, Runs, Idle
  <2> QED
    BY <1>2, <2>1, <2>2 DEF VerdictInv
<1>5. ASSUME NEW t \in Threads, Read(t) PROVE VerdictInv'
  <2>1. /\ \A u \in Threads \ {t} : thread'[u] = thread[u]
        /\ UNCHANGED <<clock, entry>>
        /\ At(t, "read")
    BY <1>1, <1>5 DEF Read
  <2>2. CASE entry.health \in TransientHealth /\ entry.until # None
    <3>1. thread'[t] = [thread[t] EXCEPT !.at = "refresh", !.seen = entry]
      BY <1>1, <1>5, <2>2 DEF Read
    <3>2. /\ thread'[t].at = "refresh" /\ thread'[t].seen = entry
          /\ thread'[t].method = thread[t].method /\ thread'[t].first = thread[t].first
          /\ thread'[t].open = thread[t].open /\ thread'[t].moved = thread[t].moved
      BY <1>1, <3>1 DEF Frame
    <3>3. Witnessed(t)'
      BY <1>1, <2>1, <3>2 DEF Witnessed, Judging, Runs, At, Current, Due, Ended
    <3> QED
      BY <1>2, <2>1, <3>3 DEF VerdictInv
  <2>3. CASE ~(entry.health \in TransientHealth /\ entry.until # None)
    <3>1. thread'[t] = Found(t, entry)
      BY <1>1, <1>5, <2>3 DEF Read
    <3>2. Current(entry) = entry /\ Current(entry)' = entry
      BY <2>1, <2>3 DEF Current, Due
    <3>3. Witnessed(t)'
      BY <1>1, <2>1, <3>1, <3>2, FoundWitnessed
    <3> QED
      BY <1>2, <2>1, <3>3 DEF VerdictInv
  <2> QED
    BY <2>2, <2>3
<1>6. ASSUME NEW t \in Threads, Refresh(t) PROVE VerdictInv'
  <2> DEFINE e == thread[t].seen
  <2>1. e \in Entry /\ At(t, "refresh") /\ UNCHANGED clock
    BY <1>1, <1>6 DEF Refresh, At, FrameSound
  <2>2. Judging(t) /\ ~thread[t].moved => e = entry
    BY <1>1, <2>1 DEF Witnessed, At
  <2>3. CASE Due(e)
    <3>1. /\ entry' = Ended(e)
          /\ thread' = [Replaced(Ended(e), t) EXCEPT ![t] = Found(t, Ended(e))]
      BY <1>6, <2>3 DEF Refresh
    <3>2. Ended(e) \in Entry /\ Ended(e).health = "DEGRADED"
      BY <2>1, EndedOK DEF Entry, Ended
    <3>3. Current(entry)' = Ended(e)
      BY <3>1, <3>2 DEF Current, Due, TransientHealth
    <3>4. thread'[t] = Found(t, Ended(e))
      BY <3>1, OthersKept
    <3>5. Judging(t) /\ ~thread[t].moved => Ended(e) = Current(entry)
      BY <2>2, <2>3 DEF Current
    <3> HIDE DEF e
    <3>6. Witnessed(t)'
      <4>1. CASE Judging(t)
        BY <1>1, <2>1, <3>1, <3>2, <3>3, <3>4, <3>5, <4>1, FoundWitnessed
      <4>2. CASE ~Judging(t)
        <5>1. Found(t, Ended(e)).method # "rejection_reasons" \/ Found(t, Ended(e)) = Idle
          BY <1>1, <4>2 DEF Found, Runs, Judging, Frame
        <5> QED
          BY <3>4, <5>1 DEF Witnessed, Judging, Runs, Idle
      <4> QED
        BY <4>1, <4>2
    <3>7. ASSUME NEW u \in Threads, u # t PROVE Witnessed(u)'
      BY <2>1, <3>1, <3>2, <3>7, OthersWitnessed
    <3> QED
      BY <3>6, <3>7 DEF VerdictInv
  <2>4. CASE ~Due(e)
    <3>1. entry' = entry /\ thread' = [thread EXCEPT ![t] = Found(t, e)]
      BY <1>6, <2>4 DEF Refresh
    <3>2. thread'[t] = Found(t, e) /\ \A u \in Threads \ {t} : thread'[u] = thread[u]
      BY <1>1, <3>1
    <3>3. Judging(t) /\ ~thread[t].moved
            => e = Current(entry) /\ Current(entry)' = e /\ entry' = e
      BY <2>1, <2>2, <2>4, <3>1 DEF Current, Due
    <3> HIDE DEF e
    <3>4. Witnessed(t)'
      <4>1. CASE Judging(t)
        BY <1>1, <2>1, <3>1, <3>2, <3>3, <4>1, FoundWitnessed
      <4>2. CASE ~Judging(t)
        <5>1. Found(t, e).method # "rejection_reasons" \/ Found(t, e) = Idle
          BY <1>1, <4>2 DEF Found, Runs, Judging, Frame
        <5> QED
          BY <3>2, <5>1 DEF Witnessed, Judging, Runs, Idle
      <4> QED
        BY <4>1, <4>2
    <3> QED
      BY <1>2, <2>1, <3>1, <3>2, <3>4 DEF VerdictInv
  <2> QED
    BY <2>3, <2>4
<1>7. ASSUME NEW t \in Threads, Apply(t) PROVE VerdictInv'
  <2> DEFINE e == Merged(thread[t].seen, thread[t].observed)
  <2>1. e \in Entry
    BY <1>1, <1>7, MergedOK DEF Apply, At, FrameSound
  <2>2. /\ thread' = [Replaced(e, t) EXCEPT ![t] = Idle]
        /\ entry' = e /\ UNCHANGED clock
    BY <1>7 DEF Apply
  <2> HIDE DEF e
  <2>3. thread'[t] = Idle
    BY <2>2, OthersKept
  <2>4. Witnessed(t)'
    BY <2>3 DEF Witnessed, Judging, Runs, Idle
  <2>5. ASSUME NEW u \in Threads, u # t PROVE Witnessed(u)'
    BY <2>1, <2>2, <2>5, OthersWitnessed
  <2> QED
    BY <2>4, <2>5 DEF VerdictInv
<1>8. CASE Tick
  <2>1. ASSUME NEW u \in Threads PROVE Witnessed(u)'
    <3> DEFINE o == thread[u].open \/ (Judging(u) /\ Eligible(Current(entry)'))
    <3>1. thread'[u] = [thread[u] EXCEPT !.open = o] /\ UNCHANGED entry
      BY <1>8 DEF Tick
    <3>2. /\ thread'[u].open = o /\ thread'[u].moved = thread[u].moved
          /\ thread'[u].at = thread[u].at /\ thread'[u].method = thread[u].method
          /\ thread'[u].seen = thread[u].seen /\ thread'[u].first = thread[u].first
      BY <1>1, <3>1 DEF Frame
    <3>3. Eligible(Current(entry))' <=> Eligible(Current(entry)')
      BY DEF Eligible, Schedulable, Spent
    <3> QED
      BY <1>1, <3>1, <3>2, <3>3 DEF Witnessed, Judging, Runs
  <2> QED
    BY <2>1 DEF VerdictInv
<1>9. CASE UNCHANGED vars
  BY <1>1, <1>9 DEF vars, VerdictInv, Witnessed, Judging, Runs, Current, Due, Ended
<1> QED
  BY <1>3, <1>4, <1>5, <1>6, <1>7, <1>8, <1>9 DEF Next

(***************************************************************************)
(* rejection_reasons lets through no resource that could not be scheduled  *)
(* at any moment of the call, unless a refresh brought an old copy back.   *)
(***************************************************************************)
THEOREM VerdictsHonest == Spec => []VerdictHonest
<1>1. TypeInv /\ VerdictInv => VerdictHonest
  <2> SUFFICES ASSUME TypeInv, VerdictInv, NEW t \in Threads,
                      At(t, "decide"), Accepted(thread[t]), ~thread[t].moved
               PROVE  thread[t].open
    BY DEF VerdictHonest
  <2>1. /\ Witnessed(t) /\ FrameSound(thread[t])
    BY DEF TypeInv, VerdictInv
  <2>2. Judging(t) /\ thread[t].first \in Entry
    BY <2>1 DEF FrameSound, At, Judging, Runs
  <2> QED
    BY <2>1, <2>2 DEF Witnessed, Accepted, At
<1> QED
  BY <1>1, InitTypeInv, NextTypeInv, InitVerdict, NextVerdict, PTL DEF Spec
=============================================================================
