----------------------------- MODULE RequestProofs -----------------------------
(***************************************************************************)
(* What a request goes through in the Gateway, for every set of threads    *)
(* and providers: the attempts it shows, the events it leaves in the       *)
(* ledger, and that it keeps RequestContract.  RequestOK is the induction: *)
(* between calls everything that was called is shown and accounted for,    *)
(* and from a call's return to its accounting exactly that call is owed.   *)
(***************************************************************************)
EXTENDS GatewayProofs, FiniteSetTheorems

Bills(s) == [i \in DOMAIN s |-> Bill(s[i])]

NoneFinal(s) == \A i \in DOMAIN s : ~Final(s[i].outcome)

Untried(s, p) == \A i \in DOMAIN s : s[i].provider # p

Distinct(s) == \A i, j \in DOMAIN s : i # j => s[i].provider # s[j].provider

FinalIsLast(s) == \A i \in DOMAIN s : Final(s[i].outcome) => i = Len(s)

\* The outcome of the call in hand, as the frame has it.
InHand(r) == IF r.status = "succeeded" THEN "success" ELSE r.kind

Owing == {"record", "project", "report", "usage"}

Pending(r) == r.at \in Owing /\ r.status \in {"succeeded", "failed"}

\* Every call is accounted for and shown.
SettledUp(r) == r.calls = r.attempts /\ r.events = Bills(r.attempts)

\* The call in hand is the one that is not.
Owes(r) ==
    /\ \E o \in Outcomes :
         /\ r.calls = Append(r.attempts, [provider |-> r.provider, outcome |-> o])
         /\ ~r.blank => o = InHand(r)
    /\ r.events = Bills(r.attempts)

RequestOK(r) ==
    /\ r.at \notin {"idle", "pick"} => r.provider \notin r.todo
    /\ r.at # "idle" =>
         /\ r.result = "none"
         /\ NoneFinal(r.attempts)
         /\ \A p \in r.todo : Untried(r.calls, p)
         /\ Pending(r) => Owes(r)
         /\ ~Pending(r) => SettledUp(r)
         /\ r.at \in {"window", "calling"} => Untried(r.calls, r.provider)
         /\ Pending(r) => Untried(r.attempts, r.provider)
    /\ r.at = "idle" /\ ~r.blank => SettledUp(r)
    /\ Distinct(r.attempts)
    /\ FinalIsLast(r.attempts)
    /\ r.at = "idle" =>
         (r.result = "ok" <=> /\ r.attempts # <<>>
                              /\ r.attempts[Len(r.attempts)].outcome = "success")
    /\ r.blank => r.attempts = <<>> /\ r.events = <<>>
    /\ r.blank \in BlankTask \/ ~r.blank

RequestInv == \A t \in Threads : RequestOK(req[t])

-----------------------------------------------------------------------------
(***************************************************************************)
(* Sequences with one element more.                                        *)
(***************************************************************************)
LEMMA Appended ==
    ASSUME NEW S, NEW s \in Seq(S), NEW e \in S
    PROVE  /\ Append(s, e) \in Seq(S)
           /\ DOMAIN s = 1 .. Len(s) /\ Len(s) \in Nat
           /\ DOMAIN Append(s, e) = 1 .. (Len(s) + 1)
           /\ Len(Append(s, e)) = Len(s) + 1
           /\ \A i \in 1 .. Len(s) : Append(s, e)[i] = s[i]
           /\ Append(s, e)[Len(s) + 1] = e
           /\ Append(s, e) # <<>>
OBVIOUS

LEMMA BillsTyped ==
    ASSUME NEW s \in Seq(Attempt)
    PROVE  Bills(s) \in Seq(UsageEvent) /\ Len(Bills(s)) = Len(s)
<1>1. DOMAIN s = 1 .. Len(s) /\ Len(s) \in Nat
  OBVIOUS
<1>2. \A i \in 1 .. Len(s) : Bill(s[i]) \in UsageEvent
  <2>1. \A c \in Attempt : Bill(c) \in UsageEvent
    BY DEF Attempt, UsageEvent, Bill
  <2> QED
    BY <2>1
<1>3. Bills(s) \in [1 .. Len(s) -> UsageEvent]
  BY <1>1, <1>2 DEF Bills
<1> QED
  BY <1>1, <1>3

LEMMA BillsAppended ==
    ASSUME NEW s \in Seq(Attempt), NEW c \in Attempt
    PROVE  Bills(Append(s, c)) = Append(Bills(s), Bill(c))
<1> DEFINE b == Bills(Append(s, c))
           a == Append(Bills(s), Bill(c))
<1>1. Bill(c) \in UsageEvent
  BY DEF Attempt, UsageEvent, Bill
<1>2. /\ b \in Seq(UsageEvent) /\ Len(b) = Len(s) + 1
      /\ a \in Seq(UsageEvent) /\ Len(a) = Len(s) + 1
  <2>1. Append(s, c) \in Seq(Attempt) /\ Len(Append(s, c)) = Len(s) + 1
    OBVIOUS
  <2>2. Bills(s) \in Seq(UsageEvent) /\ Len(Bills(s)) = Len(s)
    BY BillsTyped
  <2>3. b \in Seq(UsageEvent) /\ Len(b) = Len(s) + 1
    BY <2>1, BillsTyped
  <2> QED
    BY <1>1, <2>2, <2>3
<1>3. ASSUME NEW i \in 1 .. (Len(s) + 1) PROVE a[i] = b[i]
  <2>1. b[i] = Bill(Append(s, c)[i])
    BY Appended DEF Bills
  <2>2. CASE i = Len(s) + 1
    BY <1>1, <2>1, <2>2, BillsTyped, Appended
  <2>3. CASE i # Len(s) + 1
    <3>1. i \in 1 .. Len(s) /\ i \in DOMAIN s
      BY <2>3, Appended
    <3>2. a[i] = Bills(s)[i] /\ b[i] = Bill(s[i])
      BY <1>1, <2>1, <3>1, BillsTyped, Appended
    <3> QED
      BY <3>1, <3>2 DEF Bills
  <2> QED
    BY <2>2, <2>3
<1> HIDE DEF a, b
<1>4. a = b
  BY <1>2, <1>3
<1> QED
  BY <1>4 DEF a, b

-----------------------------------------------------------------------------
(***************************************************************************)
(* One thread moves.                                                       *)
(***************************************************************************)
LEMMA RequestStep ==
    ASSUME TypeInv, RequestInv, NEW t \in Threads, NEW r, RequestOK(r),
           req' = [req EXCEPT ![t] = r]
    PROVE  RequestInv'
BY DEF TypeInv, TypeOK, RequestInv

LEMMA EmptyOK == /\ Bills(<<>>) = <<>>
                 /\ DOMAIN <<>> = {}
BY DEF Bills

LEMMA InitRequest == Init => RequestInv
BY EmptyOK DEF Init, RequestInv, RequestOK, NewRequest, SettledUp, Distinct, FinalIsLast

LEMMA RouteRequest ==
    ASSUME TypeInv, RequestInv, NEW t \in Threads, Route(t)
    PROVE  RequestInv'
<1>1. PICK admitted \in Routes, blank \in BlankTask :
        LET fresh == [p \in Providers |-> Reopened(pool[p])]
            allowed == {p \in admitted : ~PoolRejects(fresh[p])}
            circuit == [p \in Providers |-> IF p \in allowed
                                            THEN Refreshed(health[p])
                                            ELSE health[p]]
            candidates == {p \in allowed : Routable(circuit[p])}
        IN  req' = [req EXCEPT ![t] =
                      [NewRequest EXCEPT
                         !.blank = blank,
                         !.todo = candidates,
                         !.at = IF candidates = {} THEN "idle" ELSE "pick",
                         !.result = IF candidates = {} THEN "unavailable" ELSE "none"]]
  BY DEF Route
<1> DEFINE fresh == [p \in Providers |-> Reopened(pool[p])]
           allowed == {p \in admitted : ~PoolRejects(fresh[p])}
           circuit == [p \in Providers |-> IF p \in allowed
                                           THEN Refreshed(health[p])
                                           ELSE health[p]]
           candidates == {p \in allowed : Routable(circuit[p])}
           r == [NewRequest EXCEPT
                   !.blank = blank,
                   !.todo = candidates,
                   !.at = IF candidates = {} THEN "idle" ELSE "pick",
                   !.result = IF candidates = {} THEN "unavailable" ELSE "none"]
<1>3. req' = [req EXCEPT ![t] = r]
  BY <1>1
<1> HIDE DEF candidates
<1>2. RequestOK(r)
  BY EmptyOK DEF RequestOK, NewRequest, SettledUp, NoneFinal, Untried, Distinct, FinalIsLast,
                 Pending, Owing
<1> HIDE DEF r
<1> QED
  BY <1>2, <1>3, RequestStep

LEMMA LoopRequest ==
    ASSUME TypeInv, RequestInv, NEW t \in Threads, GiveUp(t) \/ SkipCandidate(t)
    PROVE  RequestInv'
<1>1. req[t] \in Request /\ RequestOK(req[t])
  BY DEF TypeInv, TypeOK, RequestInv
<1>2. PICK r : req' = [req EXCEPT ![t] = r] /\ RequestOK(r)
  <2>1. CASE GiveUp(t)
    <3> DEFINE r == [req[t] EXCEPT !.at = "idle", !.result = "unavailable"]
    <3>1. req' = [req EXCEPT ![t] = r]
      BY <2>1 DEF GiveUp
    <3>2. Len(req[t].attempts) \in DOMAIN req[t].attempts \/ req[t].attempts = <<>>
      BY <1>1 DEF Request
    <3>3. RequestOK(r)
      BY <1>1, <2>1, <3>2
         DEF Request, GiveUp, At, RequestOK, SettledUp, NoneFinal, Final, Pending, Owing
    <3> QED
      BY <3>1, <3>3
  <2>2. CASE SkipCandidate(t)
    <3>1. PICK p \in req[t].todo : req' = [req EXCEPT ![t].todo = @ \ {p}]
      BY <2>2 DEF SkipCandidate
    <3> DEFINE r == [req[t] EXCEPT !.todo = @ \ {p}]
    <3>2. RequestOK(r)
      BY <1>1, <2>2 DEF SkipCandidate, At, Request, RequestOK, SettledUp, Owes, InHand,
                        Pending, Owing
    <3> QED
      BY <3>1, <3>2
  <2> QED
    BY <2>1, <2>2
<1> QED
  BY <1>2, RequestStep

\* A candidate is taken, and is refused or gets on.
LEMMA TakeRequest ==
    ASSUME TypeInv, RequestInv, NEW t \in Threads, Reserve(t) \/ ReserveInWindow(t)
    PROVE  RequestInv'
<1>1. req[t] \in Request /\ RequestOK(req[t])
  BY DEF TypeInv, TypeOK, RequestInv
<1>2. PICK r : req' = [req EXCEPT ![t] = r] /\ RequestOK(r)
  <2>1. CASE Reserve(t)
    <3>1. PICK p \in req[t].todo, place \in {"window", "calling", "refused"} : Take(t, p, place)
      BY <2>1 DEF Reserve
    <3> DEFINE r == [req[t] EXCEPT
                       !.todo = @ \ {p}, !.provider = p,
                       !.status = IF place = "refused" THEN "skipped" ELSE "none",
                       !.kind = None, !.retry = None, !.at = place]
    <3>2. req' = [req EXCEPT ![t] = r]
      BY <3>1 DEF Take
    <3>3. RequestOK(r)
      BY <1>1, <2>1 DEF Reserve, At, Request, RequestOK, SettledUp, Pending, Owing
    <3> QED
      BY <3>2, <3>3
  <2>2. CASE ReserveInWindow(t)
    <3>1. PICK place \in {"calling", "refused"}, status \in {req[t].status, "skipped"} :
            /\ place = "refused" => status = "skipped"
            /\ req' = [req EXCEPT ![t].at = place, ![t].status = status]
      <4>1. \/ req' = [req EXCEPT ![t].at = "refused", ![t].status = "skipped"]
            \/ req' = [req EXCEPT ![t].at = "calling"]
        BY <2>2 DEF ReserveInWindow
      <4>2. req \in [Threads -> Request]
        BY DEF TypeInv, TypeOK
      <4>3. [req EXCEPT ![t].at = "calling"]
              = [req EXCEPT ![t].at = "calling", ![t].status = req[t].status]
        BY <4>2 DEF Request
      <4> QED
        BY <4>1, <4>3
    <3> DEFINE r == [req[t] EXCEPT !.at = place, !.status = status]
    <3>2. req' = [req EXCEPT ![t] = r]
      BY <3>1
    <3>3. RequestOK(r)
      BY <1>1, <2>2, <3>1
         DEF ReserveInWindow, At, Request, RequestOK, SettledUp, Pending, Owing
    <3> QED
      BY <3>2, <3>3
  <2> QED
    BY <2>1, <2>2
<1> QED
  BY <1>2, RequestStep

\* What is reported of a refused or a failed candidate.
LEMMA ReportRequest ==
    ASSUME TypeInv, RequestInv, NEW t \in Threads,
           \/ ClassifyRefusal(t) \/ RecordSuccess(t) \/ RecordFailure(t)
           \/ ReadCooldown(t) \/ ReportSuccess(t) \/ ReportFailure(t)
    PROVE  RequestInv'
<1>1. req[t] \in Request /\ RequestOK(req[t]) /\ FrameOK(req[t])
  BY DEF TypeInv, TypeOK, RequestInv
<1>2. CASE ClassifyRefusal(t)
  <2>1. PICK kind : req' = [req EXCEPT ![t].kind = kind, ![t].at = "project"]
    BY <1>2 DEF ClassifyRefusal
  <2> DEFINE r == [req[t] EXCEPT !.kind = kind, !.at = "project"]
  <2>2. req[t].at = "refused" /\ req[t].status = "skipped"
    BY <1>1, <1>2 DEF ClassifyRefusal, At, FrameOK
  <2>3. RequestOK(r)
    BY <1>1, <2>2 DEF Request, RequestOK, SettledUp, Pending, Owing
  <2> QED
    BY <2>1, <2>3, RequestStep
<1>3. CASE RecordSuccess(t) \/ RecordFailure(t) \/ ReportSuccess(t) \/ ReportFailure(t)
  <2>1. PICK place \in {"report", "project", "usage", "pick"} :
          /\ req' = [req EXCEPT ![t].at = place]
          /\ place = "pick" <=> req[t].status = "skipped"
          /\ req[t].at \in {"record", "report"}
          /\ req[t].status # "none"
    BY <1>1, <1>3 DEF RecordSuccess, RecordFailure, ReportSuccess, ReportFailure, At, FrameOK
  <2> DEFINE r == [req[t] EXCEPT !.at = place]
  <2>2. RequestOK(r)
    BY <1>1, <2>1
       DEF Request, RequestOK, SettledUp, Owes, InHand, Pending, Owing, FrameOK, Statuses
  <2> QED
    BY <2>1, <2>2, RequestStep
<1>4. CASE ReadCooldown(t)
  <2>1. PICK retry : req' = [req EXCEPT ![t].retry = retry, ![t].at = "report"]
    BY <1>4 DEF ReadCooldown
  <2> DEFINE r == [req[t] EXCEPT !.retry = retry, !.at = "report"]
  <2>2. req[t].at = "project"
    BY <1>4 DEF ReadCooldown, At
  <2>3. /\ r.at = "report"
        /\ r.status = req[t].status /\ r.todo = req[t].todo
        /\ r.provider = req[t].provider /\ r.kind = req[t].kind
        /\ r.blank = req[t].blank /\ r.result = req[t].result
        /\ r.attempts = req[t].attempts /\ r.events = req[t].events
        /\ r.calls = req[t].calls
    BY <1>1 DEF Request
  <2> HIDE DEF r
  <2>4. RequestOK(r)
    BY <1>1, <2>2, <2>3 DEF RequestOK, SettledUp, Owes, InHand, Pending, Owing
  <2> QED
    BY <2>1, <2>4, RequestStep DEF r
<1> QED
  BY <1>2, <1>3, <1>4

\* A call comes to o.
LEMMA Returned ==
    ASSUME TypeInv, RequestInv, NEW t \in Threads, At(t, "calling"),
           NEW status \in {"succeeded", "failed"}, NEW kind, NEW retry, NEW o \in Outcomes,
           o = IF status = "succeeded" THEN "success" ELSE kind,
           req' = [req EXCEPT ![t] =
                     [req[t] EXCEPT
                        !.status = status, !.at = "record", !.kind = kind, !.retry = retry,
                        !.calls = Append(@, [provider |-> req[t].provider, outcome |-> o])]]
    PROVE  RequestInv'
<1>1. req[t] \in Request /\ RequestOK(req[t]) /\ FrameOK(req[t])
  BY DEF TypeInv, TypeOK, RequestInv
<1> DEFINE c == [provider |-> req[t].provider, outcome |-> o]
           r == [req[t] EXCEPT
                   !.status = status, !.at = "record", !.kind = kind, !.retry = retry,
                   !.calls = Append(@, c)]
<1>3. c \in Attempt
  BY <1>1 DEF Attempt, At, FrameOK
<1>4. /\ req[t].calls \in Seq(Attempt)
      /\ req[t].calls = req[t].attempts
      /\ req[t].events = Bills(req[t].attempts)
      /\ Untried(req[t].calls, req[t].provider)
      /\ \A p \in req[t].todo : Untried(req[t].calls, p) /\ p # req[t].provider
  BY <1>1 DEF Request, RequestOK, At, SettledUp, Pending, Owing
<1>5. \A p \in req[t].todo : Untried(r.calls, p)
  BY <1>3, <1>4, Appended DEF Untried
<1>6. Owes(r)
  BY <1>1, <1>4 DEF Owes, InHand, Request
<1>7. Untried(r.attempts, r.provider)
  BY <1>1, <1>4 DEF Request
<1>8. RequestOK(r)
  BY <1>1, <1>5, <1>6, <1>7 DEF RequestOK, Request, At, Pending, Owing
<1>9. req' = [req EXCEPT ![t] = r]
  OBVIOUS
<1> HIDE DEF r
<1> QED
  BY <1>8, <1>9, RequestStep

LEMMA ReturnRequest ==
    ASSUME TypeInv, RequestInv, NEW t \in Threads, Return(t)
    PROVE  RequestInv'
<1>1. req \in [Threads -> Request] /\ req[t] \in Request /\ At(t, "calling")
  BY DEF TypeInv, TypeOK, Return
<1>2. CASE req' = [req EXCEPT
                     ![t].status = "succeeded", ![t].at = "record",
                     ![t].calls = Append(@, [provider |-> req[t].provider,
                                             outcome |-> "success"])]
  <2>1. req' = [req EXCEPT ![t] =
                  [req[t] EXCEPT
                     !.status = "succeeded", !.at = "record",
                     !.kind = req[t].kind, !.retry = req[t].retry,
                     !.calls = Append(@, [provider |-> req[t].provider,
                                          outcome |-> "success"])]]
    BY <1>1, <1>2 DEF Request
  <2>2. "success" \in Outcomes
    BY DEF Outcomes
  <2> QED
    BY <1>1, <2>1, <2>2, Returned
<1>3. ASSUME NEW f \in FailureModes,
             req' = [req EXCEPT
                       ![t].status = "failed", ![t].at = "record",
                       ![t].kind = f.kind, ![t].retry = f.retry,
                       ![t].calls = Append(@, [provider |-> req[t].provider,
                                               outcome |-> f.kind])]
      PROVE  RequestInv'
  <2>1. req' = [req EXCEPT ![t] =
                  [req[t] EXCEPT
                     !.status = "failed", !.at = "record",
                     !.kind = f.kind, !.retry = f.retry,
                     !.calls = Append(@, [provider |-> req[t].provider,
                                          outcome |-> f.kind])]]
    BY <1>3
  <2>2. f.kind \in Outcomes
    BY GatewayAssumption DEF Outcomes
  <2> QED
    BY <1>1, <2>1, <2>2, Returned
<1> QED
  BY <1>2, <1>3 DEF Return

\* The call in hand is accounted for and shown.
LEMMA AccountRequest ==
    ASSUME TypeInv, RequestInv, NEW t \in Threads, Account(t)
    PROVE  RequestInv'
<1> DEFINE outcome == IF req[t].status = "succeeded" THEN "success" ELSE req[t].kind
           c == [provider |-> req[t].provider, outcome |-> outcome]
           r == [req[t] EXCEPT
                   !.events = Ledger(req[t]),
                   !.attempts = Append(@, c),
                   !.at = IF Final(outcome) THEN "idle" ELSE "pick",
                   !.result = CASE outcome = "success" -> "ok"
                                [] outcome = "invalid_request" -> "unavailable"
                                [] OTHER -> @]
<1>1. /\ req[t] \in Request /\ RequestOK(req[t]) /\ FrameOK(req[t])
      /\ req[t].at = "usage" /\ ~req[t].blank
  BY DEF TypeInv, TypeOK, RequestInv, Account, At
<1>2. /\ req[t].status \in {"succeeded", "failed"}
      /\ outcome \in Outcomes
      /\ c \in Attempt
      /\ outcome = "success" <=> req[t].status = "succeeded"
  BY <1>1 DEF FrameOK, Outcomes, FailureKinds, Attempt
<1>3. /\ req[t].calls = Append(req[t].attempts, c)
      /\ req[t].events = Bills(req[t].attempts)
      /\ NoneFinal(req[t].attempts)
      /\ Untried(req[t].attempts, req[t].provider)
      /\ req[t].result = "none"
      /\ \A p \in req[t].todo : Untried(req[t].calls, p)
  BY <1>1, <1>2 DEF RequestOK, Pending, Owing, Owes, InHand
<1>4. req[t].attempts \in Seq(Attempt)
  BY <1>1 DEF Request
<1>5. Ledger(req[t]) = Bills(Append(req[t].attempts, c))
  <2>1. Bill(c) = [provider |-> req[t].provider, status |-> req[t].status]
    BY <1>1, <1>2 DEF Bill
  <2> QED
    BY <1>2, <1>3, <1>4, <2>1, BillsAppended DEF Ledger, Recorded
<1>6. /\ r.attempts = Append(req[t].attempts, c)
      /\ r.calls = r.attempts
      /\ r.events = Bills(r.attempts)
      /\ r.at = IF Final(outcome) THEN "idle" ELSE "pick"
      /\ r.todo = req[t].todo
      /\ r.blank = FALSE
      /\ r.result = "ok" <=> outcome = "success"
      /\ ~Final(outcome) => r.result = "none"
  BY <1>1, <1>3, <1>5 DEF Request, Final
<1>7. req' = [req EXCEPT ![t] = r]
  BY DEF Account
<1> HIDE DEF r
<1>8. /\ DOMAIN r.attempts = 1 .. Len(r.attempts)
      /\ Len(r.attempts) = Len(req[t].attempts) + 1
      /\ DOMAIN req[t].attempts = 1 .. Len(req[t].attempts)
      /\ Len(req[t].attempts) \in Nat
      /\ \A i \in 1 .. Len(req[t].attempts) : r.attempts[i] = req[t].attempts[i]
      /\ r.attempts[Len(r.attempts)] = c
      /\ r.attempts # <<>>
  BY <1>2, <1>4, <1>6, Appended
<1> HIDE DEF outcome
<1>9. FinalIsLast(r.attempts)
  BY <1>3, <1>8 DEF NoneFinal, FinalIsLast
<1>10. Distinct(r.attempts)
  <2>1. \A i \in 1 .. Len(req[t].attempts) : r.attempts[i].provider # c.provider
    BY <1>3, <1>8 DEF Untried
  <2>2. Distinct(req[t].attempts)
    BY <1>1 DEF RequestOK
  <2>3. ASSUME NEW i \in DOMAIN r.attempts, NEW j \in DOMAIN r.attempts, i # j
        PROVE  r.attempts[i].provider # r.attempts[j].provider
    <3>1. CASE i = Len(r.attempts) \/ j = Len(r.attempts)
      <4> HIDE DEF c
      <4>1. \A k \in DOMAIN r.attempts :
              k # Len(r.attempts) => r.attempts[k].provider # c.provider
        BY <1>8, <2>1
      <4>2. r.attempts[Len(r.attempts)] = c
        BY <1>8
      <4> QED
        BY <2>3, <3>1, <4>1, <4>2
    <3>2. CASE i # Len(r.attempts) /\ j # Len(r.attempts)
      <4>1. i \in DOMAIN req[t].attempts /\ j \in DOMAIN req[t].attempts
        BY <1>8, <3>2
      <4>2. r.attempts[i] = req[t].attempts[i] /\ r.attempts[j] = req[t].attempts[j]
        BY <1>8, <4>1
      <4> QED
        BY <2>2, <2>3, <4>1, <4>2 DEF Distinct
    <3> QED
      BY <3>1, <3>2
  <2> QED
    BY <2>3 DEF Distinct
<1>11. ~Final(outcome) => NoneFinal(r.attempts)
  <2>1. c.outcome = outcome
    OBVIOUS
  <2> QED
    BY <1>8, <1>9, <2>1 DEF NoneFinal, FinalIsLast
<1>12. \A p \in r.todo : Untried(r.calls, p)
  BY <1>3, <1>6
<1>13. RequestOK(r)
  <2>1. r.at \in {"idle", "pick"} /\ SettledUp(r) /\ ~Pending(r)
    BY <1>6 DEF SettledUp, Pending, Owing
  <2>2. r.at = "idle" =>
          (r.result = "ok" <=> /\ r.attempts # <<>>
                               /\ r.attempts[Len(r.attempts)].outcome = "success")
    BY <1>6, <1>8
  <2>3. r.at # "idle" => r.result = "none" /\ NoneFinal(r.attempts)
    BY <1>6, <1>11
  <2> HIDE DEF c
  <2> QED
    BY <1>6, <1>9, <1>10, <1>12, <2>1, <2>2, <2>3 DEF RequestOK
<1> QED
  BY <1>7, <1>13, RequestStep

\* The ledger refuses the call in hand: a blank task_id.
LEMMA RaiseRequest ==
    ASSUME TypeInv, RequestInv, NEW t \in Threads, AccountRaises(t)
    PROVE  RequestInv'
<1>1. /\ req[t] \in Request /\ RequestOK(req[t])
      /\ req[t].at = "usage" /\ req[t].blank
  BY DEF TypeInv, TypeOK, RequestInv, AccountRaises, At
<1>2. CASE req[t].status = "succeeded"
  <2> DEFINE r == [req[t] EXCEPT !.status = "failed", !.kind = "provider_error",
                                 !.retry = None, !.at = "record"]
  <2>1. req' = [req EXCEPT ![t] = r]
    BY <1>2 DEF AccountRaises
  <2>2. /\ r.at = "record" /\ r.status = "failed" /\ r.todo = req[t].todo
        /\ r.provider = req[t].provider
        /\ r.blank = req[t].blank /\ r.result = req[t].result
        /\ r.attempts = req[t].attempts /\ r.events = req[t].events
        /\ r.calls = req[t].calls
    BY <1>1 DEF Request
  <2> HIDE DEF r
  <2>3. Pending(req[t]) /\ Pending(r)
    BY <1>1, <1>2, <2>2 DEF Pending, Owing
  <2>4. Owes(r)
    BY <1>1, <2>2, <2>3 DEF RequestOK, Owes
  <2>5. RequestOK(r)
    BY <1>1, <2>2, <2>3, <2>4 DEF RequestOK
  <2> QED
    BY <2>1, <2>5, RequestStep
<1>3. CASE req[t].status = "failed"
  <2> DEFINE r == [req[t] EXCEPT !.at = "idle", !.result = "error"]
  <2>1. req' = [req EXCEPT ![t] = r]
    BY <1>3 DEF AccountRaises
  <2>2. RequestOK(r)
    BY <1>1 DEF Request, RequestOK
  <2> QED
    BY <2>1, <2>2, RequestStep
<1> QED
  BY <1>2, <1>3 DEF AccountRaises

LEMMA NextRequest == TypeInv /\ RequestInv /\ [Next]_vars => RequestInv'
<1> SUFFICES ASSUME TypeInv, RequestInv, [Next]_vars PROVE RequestInv'
  OBVIOUS
<1>1. ASSUME NEW t \in Threads, Route(t) \/ Advance(t) PROVE RequestInv'
  BY <1>1, RouteRequest, LoopRequest, TakeRequest, ReportRequest, ReturnRequest,
     AccountRequest, RaiseRequest DEF Advance
<1>2. CASE Tick \/ Snapshot \/ (\E p \in Providers : ObserveQuota(p)) \/ UNCHANGED vars
  <2>1. UNCHANGED req
    BY <1>2 DEF Tick, Snapshot, ObserveQuota, vars
  <2> QED
    BY <2>1 DEF RequestInv
<1> QED
  BY <1>1, <1>2 DEF Next

(***************************************************************************)
(* What a caller is shown is what happened, whatever other requests do to  *)
(* the circuits and the pool in the meantime.                              *)
(***************************************************************************)
THEOREM AttemptsAreHonest == Spec => []AttemptsHonest
<1>1. TypeInv /\ RequestInv => AttemptsHonest
  <2> SUFFICES ASSUME TypeInv, RequestInv, NEW t \in Threads
               PROVE  LET a == req[t].attempts
                      IN  /\ \A i, j \in 1 .. Len(a) :
                               i # j => a[i].provider # a[j].provider
                          /\ \A i \in 1 .. Len(a) :
                               a[i].outcome \in {"success", "invalid_request"}
                                 => i = Len(a) /\ At(t, "idle")
                          /\ req[t].result = "ok"
                               <=> a # <<>> /\ a[Len(a)].outcome = "success"
    BY DEF AttemptsHonest
  <2>1. /\ RequestOK(req[t])
        /\ DOMAIN req[t].attempts = 1 .. Len(req[t].attempts)
        /\ req[t].attempts # <<>> => Len(req[t].attempts) \in DOMAIN req[t].attempts
    BY DEF TypeInv, TypeOK, RequestInv, Request
  <2> QED
    BY <2>1 DEF RequestOK, NoneFinal, Distinct, FinalIsLast, Final, At
<1> QED
  BY <1>1, InitTypeInv, NextTypeInv, InitRequest, NextRequest, PTL DEF Spec

(***************************************************************************)
(* Which calls the ledger misses.  Requests with and without a task_id may *)
(* come in any mix: one that names its task has, once it is over, an event *)
(* for each of its calls, in order and with its outcome; one that does not *)
(* never gets an event, whatever it called.                                *)
(***************************************************************************)
Billed(r) ==
    /\ r.at = "idle" /\ ~r.blank
         => r.events = [i \in 1 .. Len(r.calls) |-> Bill(r.calls[i])]
    /\ r.blank => r.events = <<>>

THEOREM OnlyBlankTasksEscape == Spec => [](\A t \in Threads : Billed(req[t]))
<1>1. TypeInv /\ RequestInv => \A t \in Threads : Billed(req[t])
  <2> SUFFICES ASSUME TypeInv, RequestInv, NEW t \in Threads PROVE Billed(req[t])
    OBVIOUS
  <2>1. /\ RequestOK(req[t])
        /\ DOMAIN req[t].calls = 1 .. Len(req[t].calls)
    BY DEF TypeInv, TypeOK, RequestInv, Request
  <2> QED
    BY <2>1 DEF Billed, RequestOK, SettledUp, Bills
<1> QED
  BY <1>1, InitTypeInv, NextTypeInv, InitRequest, NextRequest, PTL DEF Spec

(***************************************************************************)
(* So where every request names its task nothing is missed.                *)
(***************************************************************************)
THEOREM EveryCallIsBilled ==
    ASSUME BlankTask = {FALSE}
    PROVE  Spec => []EveryCallBilled
<1>1. TypeInv /\ RequestInv /\ (\A t \in Threads : Billed(req[t])) => EveryCallBilled
  <2> SUFFICES ASSUME TypeInv, RequestInv, \A t \in Threads : Billed(req[t]),
                      NEW t \in Threads, At(t, "idle")
               PROVE  req[t].events = [i \in 1 .. Len(req[t].calls) |-> Bill(req[t].calls[i])]
    BY DEF EveryCallBilled
  <2>1. RequestOK(req[t]) /\ req[t].blank \in BOOLEAN
    BY DEF TypeInv, TypeOK, RequestInv, Request
  <2>2. ~req[t].blank
    BY <2>1 DEF RequestOK
  <2> QED
    BY <2>2 DEF Billed, At
<1> QED
  BY <1>1, InitTypeInv, NextTypeInv, InitRequest, NextRequest, OnlyBlankTasksEscape, PTL
     DEF Spec

-----------------------------------------------------------------------------
(***************************************************************************)
(* complete() implements RequestContract.  What the contract sees of a     *)
(* request is its view.                                                    *)
(***************************************************************************)
View(r) == [phase |-> IF r.at = "idle" THEN "over" ELSE "running",
            calls |-> r.calls, billed |-> r.events, result |-> r.result]

LEMMA ViewStep ==
    ASSUME TypeInv, NEW t \in Threads, NEW r, req' = [req EXCEPT ![t] = r]
    PROVE  /\ ContractView' = [ContractView EXCEPT ![t] = View(r)]
           /\ ContractView[t] = View(req[t])
           /\ View(r) = View(req[t]) => UNCHANGED ContractView
<1>1. req \in [Threads -> Request] /\ req' \in [Threads -> Request \cup {r}]
  BY DEF TypeInv, TypeOK
<1>2. /\ ContractView = [u \in Threads |-> View(req[u])]
      /\ ContractView' = [u \in Threads |-> View(req'[u])]
  BY DEF ContractView, View, At
<1>3. req'[t] = r /\ \A u \in Threads \ {t} : req'[u] = req[u]
  BY <1>1
<1> HIDE DEF View
<1> QED
  BY <1>2, <1>3

\* The steps the contract does not see.
LEMMA UnseenSteps ==
    ASSUME TypeInv, NEW t \in Threads,
           \/ SkipCandidate(t) \/ Reserve(t) \/ ReserveInWindow(t) \/ ClassifyRefusal(t)
           \/ RecordSuccess(t) \/ RecordFailure(t) \/ ReadCooldown(t)
           \/ ReportSuccess(t) \/ ReportFailure(t)
    PROVE  UNCHANGED ContractView
<1> DEFINE Kept == /\ \A u \in Threads \ {t} : req'[u] = req[u]
                  /\ req'[t].at # "idle" /\ req[t].at # "idle"
                  /\ req'[t].calls = req[t].calls
                  /\ req'[t].events = req[t].events
                  /\ req'[t].result = req[t].result
<1>1. req \in [Threads -> Request] /\ req[t] \in Request
  BY DEF TypeInv, TypeOK
<1>2. ASSUME Kept PROVE UNCHANGED ContractView
  BY <1>2 DEF ContractView, At
<1>3. CASE SkipCandidate(t)
  BY <1>1, <1>2, <1>3 DEF SkipCandidate, At, Request
<1>4. CASE ReserveInWindow(t) \/ ClassifyRefusal(t)
  <2>1. Kept
    BY <1>1, <1>4 DEF ReserveInWindow, ClassifyRefusal, At, Request
  <2> QED
    BY <1>2, <2>1
<1>5. CASE ReadCooldown(t)
  <2>1. Kept
    BY <1>1, <1>5 DEF ReadCooldown, At, Request
  <2> QED
    BY <1>2, <2>1
<1>6. CASE \/ RecordSuccess(t) \/ RecordFailure(t) \/ ReportSuccess(t) \/ ReportFailure(t)
  <2>1. Kept
    BY <1>1, <1>6
       DEF RecordSuccess, RecordFailure, ReportSuccess, ReportFailure, At, Request
  <2> QED
    BY <1>2, <2>1
<1>7. CASE Reserve(t)
  <2>1. PICK p \in Providers, place \in {"window", "calling", "refused"} :
          At(t, "pick") /\ Take(t, p, place)
    BY <1>7, GatewayAssumption DEF Reserve
  <2>2. Kept
    BY <1>1, <2>1 DEF Take, At, Request
  <2> QED
    BY <1>2, <2>2
<1> QED
  BY <1>3, <1>4, <1>5, <1>6, <1>7

LEMMA RouteBegins ==
    ASSUME TypeInv, NEW t \in Threads, Route(t)
    PROVE  Contract!Begin(t)
<1>1. PICK admitted \in Routes, blank \in BlankTask :
        LET fresh == [p \in Providers |-> Reopened(pool[p])]
            allowed == {p \in admitted : ~PoolRejects(fresh[p])}
            circuit == [p \in Providers |-> IF p \in allowed
                                            THEN Refreshed(health[p])
                                            ELSE health[p]]
            candidates == {p \in allowed : Routable(circuit[p])}
        IN  req' = [req EXCEPT ![t] =
                      [NewRequest EXCEPT
                         !.blank = blank,
                         !.todo = candidates,
                         !.at = IF candidates = {} THEN "idle" ELSE "pick",
                         !.result = IF candidates = {} THEN "unavailable" ELSE "none"]]
  BY DEF Route
<1> DEFINE fresh == [p \in Providers |-> Reopened(pool[p])]
           allowed == {p \in admitted : ~PoolRejects(fresh[p])}
           circuit == [p \in Providers |-> IF p \in allowed
                                           THEN Refreshed(health[p])
                                           ELSE health[p]]
           candidates == {p \in allowed : Routable(circuit[p])}
           r == [NewRequest EXCEPT
                   !.blank = blank,
                   !.todo = candidates,
                   !.at = IF candidates = {} THEN "idle" ELSE "pick",
                   !.result = IF candidates = {} THEN "unavailable" ELSE "none"]
<1>2. req' = [req EXCEPT ![t] = r]
  BY <1>1
<1> HIDE DEF candidates
<1>3. View(r) \in {[Contract!Fresh EXCEPT !.phase = "running"],
                   [Contract!Fresh EXCEPT !.result = "unavailable"]}
  BY DEF View, NewRequest, Contract!Fresh
<1> HIDE DEF r
<1>4. ContractView[t].phase = "over"
  BY DEF Route, ContractView
<1>5. ContractView' = [ContractView EXCEPT ![t] = View(r)]
  BY <1>2, ViewStep
<1> QED
  BY <1>3, <1>4, <1>5 DEF Contract!Begin

LEMMA ReturnCalls ==
    ASSUME TypeInv, RequestInv, NEW t \in Threads, Return(t)
    PROVE  Contract!Call(t)
<1>1. /\ RequestOK(req[t]) /\ FrameOK(req[t]) /\ req[t] \in Request /\ req[t].at = "calling"
      /\ req \in [Threads -> Request]
  BY DEF TypeInv, TypeOK, RequestInv, Return, At
<1>2. PICK o \in Outcomes :
        /\ \A u \in Threads \ {t} : req'[u] = req[u]
        /\ req'[t].at = "record"
        /\ req'[t].events = req[t].events /\ req'[t].result = req[t].result
        /\ req'[t].calls = Append(req[t].calls, [provider |-> req[t].provider, outcome |-> o])
  <2>1. CASE req' = [req EXCEPT
                       ![t].status = "succeeded", ![t].at = "record",
                       ![t].calls = Append(@, [provider |-> req[t].provider,
                                               outcome |-> "success"])]
    <3>1. "success" \in Outcomes
      BY DEF Outcomes
    <3> QED
      BY <1>1, <2>1, <3>1 DEF Request
  <2>2. ASSUME NEW f \in FailureModes,
               req' = [req EXCEPT
                         ![t].status = "failed", ![t].at = "record",
                         ![t].kind = f.kind, ![t].retry = f.retry,
                         ![t].calls = Append(@, [provider |-> req[t].provider,
                                                 outcome |-> f.kind])]
        PROVE  \E o \in Outcomes :
                 /\ \A u \in Threads \ {t} : req'[u] = req[u]
                 /\ req'[t].at = "record"
                 /\ req'[t].events = req[t].events /\ req'[t].result = req[t].result
                 /\ req'[t].calls =
                      Append(req[t].calls, [provider |-> req[t].provider, outcome |-> o])
    <3>1. f.kind \in Outcomes
      BY GatewayAssumption DEF Outcomes
    <3> QED
      BY <1>1, <2>2, <3>1 DEF Request
  <2> QED
    BY <2>1, <2>2 DEF Return
<1>3. /\ req[t].calls = req[t].attempts
      /\ req[t].events = Bills(req[t].attempts)
      /\ NoneFinal(req[t].attempts)
      /\ Untried(req[t].calls, req[t].provider)
      /\ req[t].provider \in Providers
      /\ req[t].attempts \in Seq(Attempt)
  BY <1>1 DEF RequestOK, FrameOK, SettledUp, Pending, Owing, Request
<1> DEFINE v == ContractView[t]
<1>4. /\ v.phase = "running" /\ v.calls = req[t].calls /\ v.billed = req[t].events
      /\ v.result = req[t].result
  BY <1>1 DEF ContractView, At
<1>5. Len(v.billed) = Len(v.calls)
  BY <1>3, <1>4, BillsTyped
<1>6. \A i \in DOMAIN v.calls : ~Contract!Final(v.calls[i])
  BY <1>3, <1>4 DEF NoneFinal, Final, Contract!Final
<1>7. \A i \in DOMAIN v.calls : v.calls[i].provider # req[t].provider
  BY <1>3, <1>4 DEF Untried
<1>8. ContractView' = [ContractView EXCEPT ![t].calls =
                         Append(@, [provider |-> req[t].provider, outcome |-> o])]
  BY <1>1, <1>2 DEF ContractView, At
<1> HIDE DEF v
<1>9. \E p \in Providers, q \in Outcomes :
        /\ \A i \in DOMAIN v.calls : v.calls[i].provider # p
        /\ ContractView' = [ContractView EXCEPT ![t].calls =
                              Append(@, [provider |-> p, outcome |-> q])]
  BY <1>3, <1>7, <1>8
<1> QED
  BY <1>4, <1>5, <1>6, <1>9 DEF Contract!Call, v

LEMMA AccountBills ==
    ASSUME TypeInv, RequestInv, NEW t \in Threads, Account(t)
    PROVE  Contract!Account(t)
<1> DEFINE outcome == IF req[t].status = "succeeded" THEN "success" ELSE req[t].kind
           c == [provider |-> req[t].provider, outcome |-> outcome]
           v == ContractView[t]
<1>1. /\ req[t] \in Request /\ RequestOK(req[t]) /\ FrameOK(req[t])
      /\ req[t].at = "usage" /\ ~req[t].blank
      /\ req \in [Threads -> Request]
  BY DEF TypeInv, TypeOK, RequestInv, Account, At
<1>2. /\ req[t].status \in {"succeeded", "failed"}
      /\ c \in Attempt
      /\ outcome = "success" <=> req[t].status = "succeeded"
  BY <1>1 DEF FrameOK, Outcomes, FailureKinds, Attempt
<1>3. /\ req[t].calls = Append(req[t].attempts, c)
      /\ req[t].events = Bills(req[t].attempts)
      /\ req[t].result = "none"
      /\ req[t].attempts \in Seq(Attempt)
  BY <1>1, <1>2 DEF RequestOK, Pending, Owing, Owes, InHand, Request
<1>4. /\ \A u \in Threads \ {t} : req'[u] = req[u]
      /\ req'[t].at = IF Final(outcome) THEN "idle" ELSE "pick"
      /\ req'[t].calls = req[t].calls
      /\ req'[t].events = Append(req[t].events, [provider |-> req[t].provider,
                                                 status |-> req[t].status])
      /\ req'[t].result = CASE outcome = "success" -> "ok"
                            [] outcome = "invalid_request" -> "unavailable"
                            [] OTHER -> req[t].result
  BY <1>1 DEF Account, Ledger, Recorded, Request
<1>5. /\ v.phase = "running" /\ v.calls = req[t].calls /\ v.billed = req[t].events
      /\ v.result = req[t].result
  BY <1>1 DEF ContractView, At
<1>6. Len(v.calls) = Len(v.billed) + 1 /\ Contract!Last(v.calls) = c
  BY <1>2, <1>3, <1>5, BillsTyped, Appended DEF Contract!Last
<1>7. Contract!Event(c) = [provider |-> req[t].provider, status |-> req[t].status]
  BY <1>1, <1>2 DEF Contract!Event
<1>8. Contract!Final(c) <=> Final(outcome)
  BY DEF Contract!Final, Final
<1> HIDE DEF outcome
<1>9. ContractView' =
        [ContractView EXCEPT
           ![t].billed = Append(@, Contract!Event(c)),
           ![t].phase = IF Contract!Final(c) THEN "over" ELSE "running",
           ![t].result = CASE outcome = "success" -> "ok"
                           [] outcome = "invalid_request" -> "unavailable"
                           [] OTHER -> @]
  <2> DEFINE result == CASE outcome = "success" -> "ok"
                         [] outcome = "invalid_request" -> "unavailable"
                         [] OTHER -> req[t].result
             phase == IF Final(outcome) THEN "over" ELSE "running"
             billed == Append(req[t].events, [provider |-> req[t].provider,
                                              status |-> req[t].status])
  <2>1. /\ req'[t].result = result
        /\ (IF req'[t].at = "idle" THEN "over" ELSE "running") = phase
        /\ req'[t].events = billed
        /\ req'[t].calls = req[t].calls
        /\ \A u \in Threads \ {t} : req'[u] = req[u]
    BY <1>4
  <2> HIDE DEF result, phase, billed, v
  <2>2. ContractView' = [ContractView EXCEPT ![t].billed = billed, ![t].phase = phase,
                                             ![t].result = result]
    BY <2>1 DEF ContractView, At
  <2>3. /\ billed = Append(v.billed, Contract!Event(c))
        /\ phase = IF Contract!Final(c) THEN "over" ELSE "running"
        /\ result = CASE outcome = "success" -> "ok"
                      [] outcome = "invalid_request" -> "unavailable"
                      [] OTHER -> v.result
    BY <1>5, <1>7, <1>8 DEF billed, phase, result
  <2> QED
    BY <2>2, <2>3 DEF v
<1>10. c.outcome = outcome
  OBVIOUS
<1> HIDE DEF v, c
<1> QED
  BY <1>5, <1>6, <1>9, <1>10 DEF Contract!Account, v

LEMMA OthersEnd ==
    ASSUME TypeInv, RequestInv, NEW t \in Threads, GiveUp(t) \/ AccountRaises(t)
    PROVE  Contract!GiveUp(t) \/ Contract!Fail(t) \/ UNCHANGED ContractView
<1>1. /\ req[t] \in Request /\ RequestOK(req[t])
      /\ req \in [Threads -> Request]
  BY DEF TypeInv, TypeOK, RequestInv
<1> DEFINE v == ContractView[t]
<1>2. /\ v.calls = req[t].calls /\ v.billed = req[t].events
      /\ v.phase = IF req[t].at = "idle" THEN "over" ELSE "running"
  BY DEF ContractView, At
<1>3. CASE GiveUp(t)
  <2>1. ContractView' = [ContractView EXCEPT ![t].phase = "over", ![t].result = "unavailable"]
    BY <1>1, <1>3 DEF GiveUp, ContractView, At, Request
  <2>2. /\ req[t].at = "pick" /\ req[t].calls \in Seq(Attempt)
        /\ req[t].events = Bills(req[t].calls)
    BY <1>1, <1>3 DEF GiveUp, At, Request, RequestOK, SettledUp, Pending, Owing
  <2>3. Len(v.billed) = Len(v.calls)
    BY <1>2, <2>2, BillsTyped
  <2> HIDE DEF v
  <2> QED
    BY <1>2, <2>1, <2>2, <2>3 DEF Contract!GiveUp, v
<1>4. CASE AccountRaises(t) /\ req[t].status = "succeeded"
  <2>1. /\ \A u \in Threads \ {t} : req'[u] = req[u]
        /\ req'[t].at # "idle" /\ req[t].at # "idle"
        /\ req'[t].calls = req[t].calls
        /\ req'[t].events = req[t].events
        /\ req'[t].result = req[t].result
    BY <1>1, <1>4 DEF AccountRaises, At, Request
  <2> QED
    BY <2>1 DEF ContractView, At
<1>5. CASE AccountRaises(t) /\ req[t].status = "failed"
  <2>1. ContractView' = [ContractView EXCEPT ![t].phase = "over", ![t].result = "error"]
    <3>1. /\ \A u \in Threads \ {t} : req'[u] = req[u]
          /\ req'[t].at = "idle" /\ req'[t].result = "error"
          /\ req'[t].calls = req[t].calls
          /\ req'[t].events = req[t].events
      BY <1>1, <1>5 DEF AccountRaises, Request
    <3> QED
      BY <3>1 DEF ContractView, At
  <2>2. req[t].at = "usage" /\ req[t].blank
    BY <1>5 DEF AccountRaises, At
  <2>3. /\ req[t].events = <<>>
        /\ TRUE \in BlankTask
        /\ Owes(req[t])
    BY <1>1, <1>5, <2>2 DEF RequestOK, Pending, Owing, Request
  <2>4. req[t].calls # <<>>
    BY <1>1, <2>3 DEF Owes, Request
  <2> HIDE DEF v
  <2> QED
    BY <1>2, <2>1, <2>2, <2>3, <2>4 DEF Contract!Fail, v
<1> QED
  BY <1>3, <1>4, <1>5 DEF AccountRaises

LEMMA StepOfContract ==
    TypeInv /\ RequestInv /\ [Next]_vars => [Contract!Next]_ContractView
<1> SUFFICES ASSUME TypeInv, RequestInv, [Next]_vars
             PROVE  [Contract!Next]_ContractView
  OBVIOUS
<1>1. ASSUME NEW t \in Threads, Route(t) \/ Advance(t)
      PROVE  [Contract!Next]_ContractView
  BY <1>1, RouteBegins, ReturnCalls, AccountBills, OthersEnd, UnseenSteps
     DEF Advance, Contract!Next
<1>2. CASE Tick \/ Snapshot \/ (\E p \in Providers : ObserveQuota(p)) \/ UNCHANGED vars
  <2>1. UNCHANGED req
    BY <1>2 DEF Tick, Snapshot, ObserveQuota, vars
  <2> QED
    BY <2>1 DEF ContractView, At
<1> QED
  BY <1>1, <1>2 DEF Next

(***************************************************************************)
(* complete() implements the contract of a request: with threads that      *)
(* share circuits and a pool, refusals, cooldowns, failures and blank task *)
(* names, each request goes as if it were alone with its providers.        *)
(***************************************************************************)
THEOREM GatewayImplementsContract == Spec => ImplementsContract
<1>1. Init => Contract!Init
  BY DEF Init, NewRequest, ContractView, At, Contract!Init, Contract!Fresh
<1> QED
  BY <1>1, InitTypeInv, NextTypeInv, InitRequest, NextRequest, StepOfContract, PTL
     DEF Spec, ImplementsContract, Contract!Spec

-----------------------------------------------------------------------------
(***************************************************************************)
(* A request runs out of things to do.  Every step a thread takes inside   *)
(* complete() moves its frame along the loop: from one place to the next   *)
(* with the same candidate, or to a candidate that is off the list.        *)
(***************************************************************************)
\* With the same candidate, the frame r of a step and the frame s after it.
Follows(r, s) ==
    \/ r.at = "window" /\ s.at \in {"refused", "calling"}
    \/ r.at = "refused" /\ s.at = "project"
    \/ r.at = "calling" /\ s.at = "record" /\ s.status \in {"succeeded", "failed"}
    \/ /\ r.at = "record"
       /\ s.status = r.status
       /\ s.at = IF r.status = "succeeded" THEN "report" ELSE "project"
    \/ /\ r.at = "project"
       /\ s.at = "report" /\ s.status = r.status /\ r.status # "succeeded"
    \/ /\ r.at = "report"
       /\ s.status = r.status
       /\ s.at = IF r.status = "skipped" THEN "pick" ELSE "usage"
    \/ r.at = "usage" /\ s.at \in {"idle", "pick"}
    \/ /\ r.at = "usage" /\ r.status = "succeeded"
       /\ s.at = "record" /\ s.status = "failed"

\* With a candidate off the list, or with none left.
Chooses(r, s) ==
    /\ r.at = "pick"
    /\ \/ s.at = "idle"
       \/ \E p \in r.todo :
            /\ s.todo = r.todo \ {p}
            /\ \/ s.at = "pick"
               \/ s.at \in {"refused", "calling", "window"} /\ s.provider = p

Moves(r, s) ==
    \/ Chooses(r, s)
    \/ Follows(r, s) /\ s.todo = r.todo /\ s.provider = r.provider

LEMMA ChoosingMoves ==
    ASSUME TypeInv, NEW t \in Threads, GiveUp(t) \/ SkipCandidate(t) \/ Reserve(t)
    PROVE  Moves(req[t], req'[t]) /\ \A u \in Threads \ {t} : req'[u] = req[u]
<1>1. req[t] \in Request
  BY DEF TypeInv, TypeOK
<1>2. CASE GiveUp(t)
  BY <1>1, <1>2 DEF GiveUp, At, Moves, Chooses, TypeInv, TypeOK, Request
<1>3. CASE SkipCandidate(t)
  <2>1. PICK p \in req[t].todo : req' = [req EXCEPT ![t].todo = @ \ {p}]
    BY <1>3 DEF SkipCandidate
  <2>2. req[t].at = "pick"
    BY <1>3 DEF SkipCandidate, At
  <2>3. req'[t].at = "pick" /\ req'[t].todo = req[t].todo \ {p}
    BY <1>1, <2>1, <2>2 DEF TypeInv, TypeOK, Request
  <2>4. \A u \in Threads \ {t} : req'[u] = req[u]
    BY <2>1 DEF TypeInv, TypeOK
  <2> QED
    BY <2>2, <2>3, <2>4 DEF Moves, Chooses
<1>4. CASE Reserve(t)
  <2>1. PICK p \in req[t].todo, place \in {"refused", "calling", "window"} :
          Take(t, p, place)
    BY <1>4, Zenon DEF Reserve
  <2>2. req[t].at = "pick"
    BY <1>4 DEF Reserve, At
  <2>3. /\ req'[t].at = place /\ req'[t].provider = p
        /\ req'[t].todo = req[t].todo \ {p}
    BY <1>1, <2>1 DEF Take, TypeInv, TypeOK, Request
  <2>4. \A u \in Threads \ {t} : req'[u] = req[u]
    BY <2>1 DEF Take, TypeInv, TypeOK
  <2> QED
    BY <2>2, <2>3, <2>4 DEF Moves, Chooses
<1> QED
  BY <1>2, <1>3, <1>4

LEMMA RegistryMoves ==
    ASSUME TypeInv, NEW t \in Threads,
           \/ ReserveInWindow(t) \/ ClassifyRefusal(t) \/ ReadCooldown(t)
           \/ RecordSuccess(t) \/ RecordFailure(t)
           \/ ReportSuccess(t) \/ ReportFailure(t)
    PROVE  Moves(req[t], req'[t]) /\ \A u \in Threads \ {t} : req'[u] = req[u]
<1>1. req[t] \in Request /\ FrameOK(req[t])
  BY DEF TypeInv, TypeOK
<1>2. CASE ReserveInWindow(t)
  BY <1>1, <1>2 DEF ReserveInWindow, At, Moves, Follows, TypeInv, TypeOK, Request
<1>3. CASE ClassifyRefusal(t)
  BY <1>1, <1>3 DEF ClassifyRefusal, At, Moves, Follows, TypeInv, TypeOK, Request
<1>4. CASE ReadCooldown(t)
  BY <1>1, <1>4 DEF ReadCooldown, At, Moves, Follows, FrameOK, TypeInv, TypeOK, Request
<1>5. CASE RecordSuccess(t)
  BY <1>1, <1>5 DEF RecordSuccess, At, Moves, Follows, TypeInv, TypeOK, Request
<1>6. CASE RecordFailure(t)
  BY <1>1, <1>6 DEF RecordFailure, At, Moves, Follows, TypeInv, TypeOK, Request
<1>7. CASE ReportSuccess(t)
  BY <1>1, <1>7 DEF ReportSuccess, At, Moves, Follows, TypeInv, TypeOK, Request
<1>8. CASE ReportFailure(t)
  BY <1>1, <1>8 DEF ReportFailure, At, Moves, Follows, TypeInv, TypeOK, Request
<1> QED
  BY <1>2, <1>3, <1>4, <1>5, <1>6, <1>7, <1>8

LEMMA CallMoves ==
    ASSUME TypeInv, NEW t \in Threads, Return(t) \/ Account(t) \/ AccountRaises(t)
    PROVE  Moves(req[t], req'[t]) /\ \A u \in Threads \ {t} : req'[u] = req[u]
<1>1. req[t] \in Request /\ FrameOK(req[t])
  BY DEF TypeInv, TypeOK
<1>2. CASE Return(t)
  <2> DEFINE called(o) == Append(req[t].calls,
                                 [provider |-> req[t].provider, outcome |-> o])
  <2>1. \/ req' = [req EXCEPT ![t].status = "succeeded", ![t].at = "record",
                              ![t].calls = called("success")]
        \/ \E f \in FailureModes :
             req' = [req EXCEPT ![t].status = "failed", ![t].at = "record",
                                ![t].kind = f.kind, ![t].retry = f.retry,
                                ![t].calls = called(f.kind)]
    BY <1>2 DEF Return
  <2> HIDE DEF called
  <2>2. CASE req' = [req EXCEPT ![t].status = "succeeded", ![t].at = "record",
                                ![t].calls = called("success")]
    <3>1. /\ req'[t].at = "record" /\ req'[t].status = "succeeded"
          /\ req'[t].todo = req[t].todo /\ req'[t].provider = req[t].provider
          /\ \A u \in Threads \ {t} : req'[u] = req[u]
      BY <1>1, <2>2 DEF TypeInv, TypeOK, Request
    <3> QED
      BY <1>2, <3>1 DEF Return, At, Moves, Follows
  <2>3. ASSUME NEW f \in FailureModes,
               req' = [req EXCEPT ![t].status = "failed", ![t].at = "record",
                                  ![t].kind = f.kind, ![t].retry = f.retry,
                                  ![t].calls = called(f.kind)]
        PROVE  Moves(req[t], req'[t]) /\ \A u \in Threads \ {t} : req'[u] = req[u]
    <3> DEFINE c == called(f.kind)
    <3>1. req' = [req EXCEPT ![t].status = "failed", ![t].at = "record",
                             ![t].kind = f.kind, ![t].retry = f.retry,
                             ![t].calls = c]
      BY <2>3
    <3> HIDE DEF c
    <3>2. /\ req'[t].at = "record" /\ req'[t].status = "failed"
          /\ req'[t].todo = req[t].todo /\ req'[t].provider = req[t].provider
          /\ \A u \in Threads \ {t} : req'[u] = req[u]
      BY <1>1, <3>1 DEF TypeInv, TypeOK, Request
    <3> QED
      BY <1>2, <3>2 DEF Return, At, Moves, Follows
  <2> QED
    BY <2>1, <2>2, <2>3
<1>3. CASE Account(t)
  <2>1. \E attempts, events, result, place :
          /\ req' = [req EXCEPT ![t].events = events, ![t].attempts = attempts,
                                ![t].at = place, ![t].result = result]
          /\ place \in {"idle", "pick"}
    <3> DEFINE outcome == IF req[t].status = "succeeded" THEN "success"
                                                         ELSE req[t].kind
               place == IF Final(outcome) THEN "idle" ELSE "pick"
               attempts == Append(req[t].attempts, [provider |-> req[t].provider,
                                                    outcome |-> outcome])
               result == CASE outcome = "success" -> "ok"
                           [] outcome = "invalid_request" -> "unavailable"
                           [] OTHER -> req[t].result
    <3>1. req' = [req EXCEPT ![t].events = Ledger(req[t]), ![t].attempts = attempts,
                             ![t].at = place, ![t].result = result]
      BY <1>3, Zenon DEF Account
    <3>2. place \in {"idle", "pick"}
      OBVIOUS
    <3> HIDE DEF place, attempts, result
    <3> QED
      BY <3>1, <3>2
  <2>3. PICK attempts, events, result, place :
          /\ req' = [req EXCEPT ![t].events = events, ![t].attempts = attempts,
                                ![t].at = place, ![t].result = result]
          /\ place \in {"idle", "pick"}
    BY <2>1
  <2>2. /\ req'[t].at = place /\ req'[t].todo = req[t].todo
        /\ req'[t].provider = req[t].provider
        /\ \A u \in Threads \ {t} : req'[u] = req[u]
    BY <1>1, <2>3 DEF TypeInv, TypeOK, Request
  <2> QED
    BY <1>3, <2>2, <2>3 DEF Account, At, Moves, Follows
<1>4. CASE AccountRaises(t)
  BY <1>1, <1>4 DEF AccountRaises, At, Moves, Follows, TypeInv, TypeOK, Request
<1> QED
  BY <1>2, <1>3, <1>4

LEMMA EveryAdvanceMoves ==
    ASSUME TypeInv, NEW t \in Threads, Advance(t)
    PROVE  Moves(req[t], req'[t]) /\ \A u \in Threads \ {t} : req'[u] = req[u]
BY ChoosingMoves, RegistryMoves, CallMoves DEF Advance

(***************************************************************************)
(* What is left of a request: thirteen steps for each candidate not taken, *)
(* the way from its place to the next candidate, and four more after a     *)
(* success, which may come back as a failure.                              *)
(***************************************************************************)
StepsToNext(r) ==
    CASE r.at = "pick" -> 1
      [] r.at = "usage" -> 4
      [] r.at = "report" -> 5
      [] r.at = "project" -> 6
      [] r.at \in {"record", "refused"} -> 7
      [] r.at = "calling" -> 12
      [] r.at = "window" -> 13
      [] OTHER -> 0

MayComeBack(r) == r.at \in {"record", "report", "usage"} /\ r.status = "succeeded"

StepsLeft(r) ==
    IF r.at = "idle"
    THEN 0
    ELSE 13 * Cardinality(r.todo) + StepsToNext(r) + (IF MayComeBack(r) THEN 4 ELSE 0)

(***************************************************************************)
(* No step of anybody takes a running request back: one that touches its   *)
(* frame brings it nearer to its end.                                      *)
(***************************************************************************)
EveryStepNearsTheEnd ==
    [][\A t \in Threads :
         ~At(t, "idle") /\ req'[t] # req[t]
           => StepsLeft(req'[t]) < StepsLeft(req[t])]_vars

LEMMA LeftTyped ==
    ASSUME IsFiniteSet(Providers), NEW r \in Request
    PROVE  /\ IsFiniteSet(r.todo) /\ Cardinality(r.todo) \in Nat
           /\ Cardinality(r.todo) <= Cardinality(Providers)
           /\ StepsToNext(r) \in Nat /\ StepsLeft(r) \in Nat
<1>1. r.todo \subseteq Providers
  BY DEF Request
<1>2. IsFiniteSet(r.todo) /\ Cardinality(r.todo) <= Cardinality(Providers)
  BY <1>1, FS_Subset
<1>3. Cardinality(r.todo) \in Nat
  BY <1>2, FS_CardinalityType
<1>4. StepsToNext(r) \in Nat
  BY DEF StepsToNext
<1> QED
  BY <1>2, <1>3, <1>4 DEF StepsLeft

LEMMA LeftAtPick ==
    ASSUME IsFiniteSet(Providers), NEW r \in Request, r.at = "pick"
    PROVE  StepsLeft(r) = 13 * Cardinality(r.todo) + 1
<1> DEFINE n == Cardinality(r.todo)
<1>1. n \in Nat
  BY LeftTyped
<1>2. StepsToNext(r) = 1 /\ ~MayComeBack(r)
  BY DEF StepsToNext, MayComeBack
<1>3. StepsLeft(r) = 13 * n + 1 + 0
  BY <1>2 DEF StepsLeft
<1> HIDE DEF n
<1> QED
  BY <1>1, <1>3 DEF n

LEMMA MovesNearTheEnd ==
    ASSUME IsFiniteSet(Providers), NEW r \in Request, NEW s \in Request,
           Moves(r, s), FrameOK(r)
    PROVE  StepsLeft(s) < StepsLeft(r)
<1> DEFINE n == Cardinality(r.todo)
           m == Cardinality(s.todo)
<1>1. n \in Nat /\ m \in Nat /\ IsFiniteSet(r.todo)
  BY LeftTyped
<1>2. CASE Chooses(r, s)
  <2>1. StepsLeft(r) = 13 * n + 1
    BY <1>2, LeftAtPick DEF Chooses
  <2>2. CASE s.at = "idle"
    <3>1. StepsLeft(s) = 0
      BY <2>2 DEF StepsLeft
    <3> HIDE DEF n
    <3> QED
      BY <1>1, <2>1, <3>1
  <2>3. CASE s.at # "idle"
    <3>1. PICK p \in r.todo : s.todo = r.todo \ {p}
      BY <1>2, <2>3 DEF Chooses
    <3>2. n = m + 1
      <4>1. m = n - 1
        BY <1>1, <3>1, FS_RemoveElement
      <4> HIDE DEF n, m
      <4> QED
        BY <1>1, <4>1
    <3>3. s.at \in {"pick", "refused", "calling", "window"}
      BY <1>2, <2>3 DEF Chooses
    <3>4. StepsLeft(s) = 13 * m + StepsToNext(s) /\ StepsToNext(s) \in 1 .. 13
      BY <1>1, <3>3 DEF StepsLeft, StepsToNext, MayComeBack
    <3> HIDE DEF n, m
    <3> QED
      BY <1>1, <2>1, <3>2, <3>4
  <2> QED
    BY <2>2, <2>3
<1>3. CASE Follows(r, s) /\ s.todo = r.todo
  <2>1. n = m
    BY <1>3
  <2> HIDE DEF n, m
  <2>2. StepsToNext(s) + (IF MayComeBack(s) THEN 4 ELSE 0)
          < StepsToNext(r) + (IF MayComeBack(r) THEN 4 ELSE 0)
    BY <1>3 DEF Follows, FrameOK, StepsToNext, MayComeBack
  <2>3. StepsLeft(r) = 13 * n + (StepsToNext(r) + (IF MayComeBack(r) THEN 4 ELSE 0))
    BY <1>1, <1>3, LeftTyped DEF Follows, StepsLeft, n
  <2>4. StepsLeft(s) \in {0, 13 * m + (StepsToNext(s)
                                       + (IF MayComeBack(s) THEN 4 ELSE 0))}
    BY <1>1, LeftTyped DEF StepsLeft, m
  <2>5. StepsToNext(s) \in Nat /\ StepsToNext(r) \in Nat
    BY LeftTyped
  <2> QED
    BY <1>1, <2>1, <2>2, <2>3, <2>4, <2>5
<1> QED
  BY <1>2, <1>3 DEF Moves

LEMMA StepNears ==
    ASSUME IsFiniteSet(Providers), TypeInv, [Next]_vars,
           NEW t \in Threads, ~At(t, "idle"), req'[t] # req[t]
    PROVE  StepsLeft(req'[t]) < StepsLeft(req[t])
<1>1. TypeInv'
  BY NextTypeInv
<1>2. req[t] \in Request /\ FrameOK(req[t]) /\ req'[t] \in Request
  BY <1>1 DEF TypeInv, TypeOK
<1>3. UNCHANGED req => FALSE
  OBVIOUS
<1>4. PICK u \in Threads : Route(u) \/ Advance(u)
  BY <1>3 DEF Next, ObserveQuota, Tick, Snapshot, vars
<1>5. CASE Route(u)
  <2>1. PICK r : req' = [req EXCEPT ![u] = r]
    BY <1>5, Zenon DEF Route
  <2>2. t = u
    BY <2>1 DEF TypeInv, TypeOK
  <2> QED
    BY <1>5, <2>2 DEF Route
<1>6. CASE Advance(u)
  <2>1. t = u /\ Moves(req[t], req'[t])
    BY <1>6, EveryAdvanceMoves
  <2> QED
    BY <1>2, <2>1, MovesNearTheEnd
<1> QED
  BY <1>4, <1>5, <1>6

(***************************************************************************)
(* Of finitely many providers a request takes at most thirteen steps each  *)
(* and one more, whatever the other threads, time and quota observations   *)
(* do to the circuits and the pool in between.                             *)
(***************************************************************************)
THEOREM RequestsAreFinite ==
    ASSUME IsFiniteSet(Providers)
    PROVE  /\ Spec => EveryStepNearsTheEnd
           /\ Spec => [](\A t \in Threads :
                           At(t, "pick") => StepsLeft(req[t])
                                              <= 13 * Cardinality(Providers) + 1)
<1>1. TypeInv /\ [Next]_vars
        => [\A t \in Threads :
              ~At(t, "idle") /\ req'[t] # req[t]
                => StepsLeft(req'[t]) < StepsLeft(req[t])]_vars
  BY StepNears
<1>2. TypeInv => \A t \in Threads :
                   At(t, "pick") => StepsLeft(req[t]) <= 13 * Cardinality(Providers) + 1
  <2> SUFFICES ASSUME TypeInv, NEW t \in Threads, At(t, "pick")
               PROVE  StepsLeft(req[t]) <= 13 * Cardinality(Providers) + 1
    OBVIOUS
  <2>1. req[t] \in Request
    BY DEF TypeInv, TypeOK
  <2>2. StepsLeft(req[t]) = 13 * Cardinality(req[t].todo) + 1
    BY <2>1, LeftAtPick DEF At
  <2> DEFINE n == Cardinality(req[t].todo)
             all == Cardinality(Providers)
  <2>3. n \in Nat /\ all \in Nat /\ n <= all
    BY <2>1, LeftTyped, FS_CardinalityType
  <2> HIDE DEF n, all
  <2>4. 13 * n + 1 <= 13 * all + 1
    BY <2>3
  <2> QED
    BY <2>2, <2>4 DEF n, all
<1>3. Spec => []TypeInv
  BY InitTypeInv, NextTypeInv, PTL DEF Spec
<1> QED
  BY <1>1, <1>2, <1>3, PTL DEF Spec, EveryStepNearsTheEnd
=============================================================================
