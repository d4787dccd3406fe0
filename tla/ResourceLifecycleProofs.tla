------------------------ MODULE ResourceLifecycleProofs ------------------------
(***************************************************************************)
(* The validation gate and the runtime state hold for any candidates,      *)
(* resources, classes of evidence and observations.                        *)
(***************************************************************************)
EXTENDS ResourceLifecycle, TLAPS

\* What a record tells was observed, and the record made last is the newest there is.
Observed(record, r) == record.snapshot # None => newest[r] # None
Fits(record, r) ==
    /\ record.stamp <= made[r].stamp
    /\ record.stamp = made[r].stamp => record = made[r]

\* So it is of what is stored, of what may still be, and of what the threads hold.
StoredInv == \A r \in Resources : Observed(saved[r], r) /\ Fits(saved[r], r)
LateInv == \A x \in late : Observed(x[2], x[1]) /\ Fits(x[2], x[1])
TaskInv ==
    \A t \in Threads :
      /\ ~Idle(t) => /\ task[t].resource \in Resources
                     /\ Observed(task[t].record, task[t].resource)
      /\ task[t].at = "saving" => Fits(task[t].record, task[t].resource)

\* What is more than a registration was observed.
SeenInv ==
    \A r \in Resources :
      official[r] # None /\ official[r].health # "UNKNOWN" => newest[r] # None

\* The record made last is stored, or on its way, or lost with an error, or about to be
\* followed by another.
OnItsWay(t, r) ==
    task[t].at = "saving" /\ task[t].resource = r /\ task[t].record = made[r]
KeptInv ==
    \A r \in probed :
      \/ errors
      \/ saved[r] = made[r]
      \/ \E t \in Threads : OnItsWay(t, r) \/ Applied(t, r)

\* While observations of a resource come one at a time, the one that is being applied
\* is the newest, and after it the record is.
ApplyingInv == \A t \in Threads, r \in Resources : Applied(t, r) => r \in probed
SingleInv ==
    \A r \in probed \ overlapped :
      /\ \A t, u \in Threads : Applied(t, r) /\ Applied(u, r) => t = u
      /\ \A t \in Threads : Applied(t, r) => task[t].record.snapshot = newest[r]
      /\ (\A t \in Threads : ~Applied(t, r)) => made[r].snapshot = newest[r]

LifecycleInv ==
    /\ TypeOK
    /\ OfficialHasEvidence
    /\ StoredInv /\ LateInv /\ TaskInv /\ SeenInv
    /\ KeptInv
    /\ ApplyingInv /\ SingleInv

-----------------------------------------------------------------------------
LEMMA ResourceIsSome == None \notin Resource
BY LifecycleAssumption

LEMMA RegisteredType == \A h \in ResourceHealth : Registered(h) \in Resource
BY DEF Registered, Resource, Optional

LEMMA ReopenedType == \A x \in Resource : Reopened(x) \in Resource
BY DEF Reopened, Resource, Optional, ResourceHealth

\* Ending a cooldown makes nothing of a resource that is only registered.
LEMMA ReopenedUnknown ==
    \A x \in Resource : Reopened(x).health = "UNKNOWN" <=> x.health = "UNKNOWN"
BY DEF Reopened, Resource, TransientHealth

LEMMA ElapseType ==
    \A x \in Optional(Resource) :
      /\ ElapseIfAny(x) \in Optional(Resource)
      /\ ElapseIfAny(x) = None <=> x = None
      /\ x # None => ElapseIfAny(x).health = x.health
<1> TAKE x \in Optional(Resource)
<1>1. CASE x = None
  BY <1>1 DEF ElapseIfAny, Optional
<1>2. CASE x \in Resource
  <2>1. x # None
    BY <1>2, ResourceIsSome
  <2>2. ElapseResource(x) \in Resource /\ ElapseResource(x).health = x.health
    <3>1. CASE x.until \in {None, 0}
      BY <1>2, <3>1 DEF ElapseResource, Resource
    <3>2. CASE x.until \notin {None, 0}
      <4>1. x.until - 1 \in Nat
        BY <1>2, <3>2 DEF Resource, Optional
      <4> QED
        BY <1>2, <3>2, <4>1 DEF ElapseResource, Resource, Optional
    <3> QED
      BY <3>1, <3>2
  <2> QED
    BY <2>1, <2>2, ResourceIsSome DEF ElapseIfAny, Optional
<1> QED
  BY <1>1, <1>2 DEF Optional

LEMMA FreshType ==
    \A r \in Resources :
      /\ Fresh(r) \in Optional(Resource)
      /\ r \notin Catalog => Fresh(r) = None
      /\ Fresh(r) # None => Fresh(r).health = "UNKNOWN"
BY DEF Fresh, Registered, Resource, Optional, ResourceHealth

LEMMA NoTaskType == NoTask \in Task /\ NoRecord \in Record
BY DEF NoTask, Task, NoRecord, Record, Optional

\* A record as time goes by.
LEMMA ElapseRecordType ==
    \A x \in Record :
      /\ ElapseRecord(x) \in Record
      /\ ElapseRecord(x).stamp = x.stamp
      /\ ElapseRecord(x).snapshot = ElapseIfAny(x.snapshot)
      /\ ElapseRecord(x).snapshot = None <=> x.snapshot = None
<1> TAKE x \in Record
<1>1. x.snapshot \in Optional(Resource)
  BY DEF Record
<1>2. /\ ElapseIfAny(x.snapshot) \in Optional(Resource)
      /\ ElapseIfAny(x.snapshot) = None <=> x.snapshot = None
  BY <1>1, ElapseType
<1> HIDE DEF ElapseIfAny
<1> QED
  BY <1>2 DEF ElapseRecord, Record

-----------------------------------------------------------------------------
LEMMA InitLifecycle == Init => LifecycleInv
<1> SUFFICES ASSUME Init PROVE LifecycleInv
  OBVIOUS
<1>1. TypeOK
  BY FreshType, NoTaskType DEF Init, TypeOK, NotSubmitted, Candidate, Statuses, Optional
<1>2. OfficialHasEvidence
  BY FreshType DEF Init, OfficialHasEvidence
<1>3. SeenInv
  BY FreshType DEF Init, SeenInv
<1>4. StoredInv /\ LateInv
  BY DEF Init, StoredInv, LateInv, Observed, Fits, NoRecord
<1>5. TaskInv /\ ApplyingInv
  BY DEF Init, TaskInv, ApplyingInv, Idle, Applied, NoTask
<1>6. KeptInv /\ SingleInv
  BY DEF Init, KeptInv, SingleInv
<1> QED
  BY <1>1, <1>2, <1>3, <1>4, <1>5, <1>6 DEF LifecycleInv

\* A candidate that carries a resource keeps carrying it.
Carries(c) ==
    candidate[c].status \in {"VALIDATED", "DEPRECATED"} /\ candidate[c].checks = Checks

\* What is said of the runtime variables alone.
RuntimeInv == StoredInv /\ LateInv /\ TaskInv /\ KeptInv /\ ApplyingInv /\ SingleInv

LEMMA RuntimeKept == ASSUME LifecycleInv, UNCHANGED runtime PROVE RuntimeInv'
BY DEF LifecycleInv, runtime, RuntimeInv, StoredInv, LateInv, TaskInv, KeptInv,
       ApplyingInv, SingleInv, Observed, Fits, OnItsWay, Applied, Idle

(***************************************************************************)
(* The steps of the validation gate: none takes a decided candidate's      *)
(* evidence away or reopens it.                                            *)
(***************************************************************************)
LEMMA GateStep ==
    ASSUME LifecycleInv, NEW c \in Candidates, NEW new \in Candidate,
           Becomes(c, new),
           Carries(c) => new.status \in {"VALIDATED", "DEPRECATED"} /\ new.checks = Checks
    PROVE  LifecycleInv'
<1> USE DEF LifecycleInv, Becomes
<1>1. TypeOK'
  BY DEF TypeOK, runtime
<1>2. OfficialHasEvidence'
  <2> SUFFICES ASSUME NEW r \in Resources \ Catalog, official'[r] # None
               PROVE  \E d \in Candidates :
                        /\ Draft[d] = r
                        /\ candidate'[d].status \in {"VALIDATED", "DEPRECATED"}
                        /\ candidate'[d].checks = Checks
    BY DEF OfficialHasEvidence
  <2>1. PICK d \in Candidates : Draft[d] = r /\ Carries(d)
    BY DEF OfficialHasEvidence, Carries
  <2>2. /\ candidate'[d].status \in {"VALIDATED", "DEPRECATED"}
        /\ candidate'[d].checks = Checks
    BY <2>1 DEF Carries, TypeOK
  <2> QED
    BY <2>1, <2>2
<1>3. SeenInv'
  BY DEF SeenInv, runtime
<1>4. RuntimeInv'
  BY RuntimeKept
<1> QED
  BY <1>1, <1>2, <1>3, <1>4 DEF RuntimeInv

LEMMA PromoteStep ==
    ASSUME LifecycleInv, NEW c \in Candidates, Promote(c)
    PROVE  LifecycleInv'
<1> DEFINE r == Draft[c]
<1> USE DEF LifecycleInv, Promote
<1>0. r \in Resources /\ Claim[c] = "UNKNOWN" /\ Carries(c)
  BY LifecycleAssumption DEF Promotable, MissingNone, Carries, TypeOK, Candidate
<1>1. official[r] = None \/ official[r] \in Resource
  BY <1>0 DEF TypeOK, Optional
<1>2. /\ official'[r] \in Resource
      /\ official'[r].health = "UNKNOWN"
           \/ (official[r] # None /\ official[r].health # "UNKNOWN")
  <2>1. CASE official[r] = None
    BY <1>0, <2>1, RegisteredType DEF TypeOK, Registered, ResourceHealth
  <2>2. CASE official[r] \in Resource
    BY <1>0, <2>2, ResourceIsSome, ReopenedType, ReopenedUnknown DEF TypeOK
  <2> QED
    BY <1>1, <2>1, <2>2
<1>3. official' = [official EXCEPT ![r] = official'[r]]
  BY <1>0 DEF TypeOK
<1>4. TypeOK'
  BY <1>0, <1>2, <1>3 DEF TypeOK, Optional, runtime
<1>5. OfficialHasEvidence'
  BY <1>0, <1>3 DEF OfficialHasEvidence, Carries, TypeOK
<1>6. SeenInv'
  BY <1>0, <1>2, <1>3 DEF SeenInv, TypeOK, runtime
<1>7. RuntimeInv'
  BY RuntimeKept
<1> QED
  BY <1>4, <1>5, <1>6, <1>7 DEF RuntimeInv

-----------------------------------------------------------------------------
(***************************************************************************)
(* The steps of the runtime state: all of them leave the candidates alone  *)
(* and register nothing.                                                   *)
(***************************************************************************)
LEMMA RuntimeKeepsEvidence ==
    ASSUME OfficialHasEvidence, UNCHANGED candidate,
           \A r \in Resources : official'[r] # None => official[r] # None
    PROVE  OfficialHasEvidence'
BY DEF OfficialHasEvidence

LEMMA ApplyStep ==
    ASSUME LifecycleInv, NEW t \in Threads, NEW r \in Resources, Apply(t, r)
    PROVE  LifecycleInv'
<1> USE DEF LifecycleInv
<1>0. PICK snapshot \in Observations[r] :
        /\ official' = [official EXCEPT ![r] = snapshot]
        /\ newest' = [newest EXCEPT ![r] = snapshot]
        /\ task' = [task EXCEPT ![t] =
                      [at |-> "applied", resource |-> r,
                       record |-> [NoRecord EXCEPT !.snapshot = snapshot]]]
  BY DEF Apply
<1>1. snapshot \in Resource /\ snapshot # None
  BY LifecycleAssumption, ResourceIsSome
<1> DEFINE new == [at |-> "applied", resource |-> r,
                   record |-> [NoRecord EXCEPT !.snapshot = snapshot]]
<1>2. /\ new \in Task /\ new.at = "applied" /\ new.resource = r
      /\ new.record.snapshot = snapshot
  BY <1>1 DEF NoRecord, Task, Record, Optional
<1>3. /\ Idle(t)
      /\ UNCHANGED <<candidate, saved, late, errors, made>>
      /\ probed' = probed \cup {r}
      /\ overlapped' = IF \E u \in Threads : Applied(u, r) THEN overlapped \cup {r}
                                                           ELSE overlapped
      /\ official[r] # None
  BY DEF Apply
<1>4. task' = [task EXCEPT ![t] = new]
  BY <1>0
<1> HIDE DEF new
<1>5. /\ task'[t] = new
      /\ \A u \in Threads : u # t => task'[u] = task[u]
      /\ newest'[r] = snapshot
      /\ \A q \in Resources : q # r => newest'[q] = newest[q]
  BY <1>0, <1>4 DEF TypeOK
<1>6. TypeOK'
  BY <1>0, <1>1, <1>2, <1>3, <1>4 DEF TypeOK, Optional
<1>7. OfficialHasEvidence'
  BY <1>0, <1>3, RuntimeKeepsEvidence DEF TypeOK
<1>8. SeenInv'
  BY <1>0, <1>1, <1>5 DEF SeenInv, TypeOK
<1>9. StoredInv'
  BY <1>1, <1>3, <1>5 DEF StoredInv, Observed, Fits
<1>10. LateInv'
  BY <1>1, <1>3, <1>5 DEF LateInv, Observed, Fits, TypeOK
<1>11. TaskInv'
  BY <1>1, <1>2, <1>3, <1>5 DEF TaskInv, Observed, Fits, Idle
<1>12. \A u \in Threads, q \in Resources :
         Applied(u, q)' <=> Applied(u, q) \/ (u = t /\ q = r)
  BY <1>2, <1>3, <1>5 DEF Applied, Idle
<1>13. KeptInv'
  <2> SUFFICES ASSUME NEW q \in probed', ~errors, saved[q] # made[q]
               PROVE  \E u \in Threads : OnItsWay(u, q)' \/ Applied(u, q)'
    BY <1>3 DEF KeptInv
  <2>0. q \in Resources
    BY <1>6 DEF TypeOK
  <2>1. CASE q = r
    BY <2>1, <1>12
  <2>2. CASE q # r
    <3>1. PICK u \in Threads : OnItsWay(u, q) \/ Applied(u, q)
      BY <2>2, <1>3 DEF KeptInv
    <3>2. u # t
      BY <3>1, <1>3 DEF OnItsWay, Applied, Idle
    <3> QED
      BY <3>1, <3>2, <1>3, <1>5 DEF OnItsWay, Applied
  <2> QED
    BY <2>1, <2>2
<1>14. ApplyingInv'
  BY <1>3, <1>12 DEF ApplyingInv
<1>15. SingleInv'
  <2> SUFFICES ASSUME NEW q \in probed', q \notin overlapped'
               PROVE  /\ \A u, v \in Threads : Applied(u, q)' /\ Applied(v, q)' => u = v
                      /\ \A u \in Threads : Applied(u, q)' =>
                           task'[u].record.snapshot = newest'[q]
                      /\ (\A u \in Threads : ~Applied(u, q)') =>
                           made'[q].snapshot = newest'[q]
    BY DEF SingleInv
  <2>0. q \in Resources
    BY <1>6 DEF TypeOK
  <2>1. CASE q = r
    <3>1. \A u \in Threads : ~Applied(u, r)
      BY <2>1, <1>3
    <3>2. \A u \in Threads : Applied(u, q)' <=> u = t
      BY <2>1, <3>1, <1>12
    <3> QED
      BY <2>1, <3>2, <1>2, <1>5
  <2>2. CASE q # r
    <3>1. q \in probed \ overlapped
      BY <2>2, <1>3
    <3>2. \A u \in Threads : Applied(u, q)' <=> Applied(u, q)
      BY <2>0, <2>2, <1>12
    <3>3. \A u \in Threads : Applied(u, q) => task'[u] = task[u]
      BY <1>3, <1>5 DEF Applied, Idle
    <3> QED
      BY <2>0, <2>2, <3>1, <3>2, <3>3, <1>3, <1>5 DEF SingleInv
  <2> QED
    BY <2>1, <2>2
<1> QED
  BY <1>6, <1>7, <1>8, <1>9, <1>10, <1>11, <1>13, <1>14, <1>15

LEMMA MakeStep ==
    ASSUME LifecycleInv, NEW t \in Threads, Make(t)
    PROVE  LifecycleInv'
<1> USE DEF LifecycleInv
<1> DEFINE r == task[t].resource
           record == [task[t].record EXCEPT !.stamp = made[r].stamp + 1]
           new == [task[t] EXCEPT !.at = "saving", !.record = record]
<1>1. /\ task[t].at = "applied" /\ r \in Resources /\ Observed(task[t].record, r)
      /\ task[t] \in Task /\ task[t].record \in Record /\ made[r] \in Record
  BY DEF Make, TaskInv, Idle, TypeOK, Task
<1>2. /\ made' = [made EXCEPT ![r] = record]
      /\ UNCHANGED <<candidate, official, saved, late, errors, newest, probed, overlapped>>
  BY DEF Make
<1>3. task' = [task EXCEPT ![t] = new]
  BY DEF Make, TypeOK, Task
<1>4. /\ record \in Record /\ record.stamp = made[r].stamp + 1
      /\ record.snapshot = task[t].record.snapshot
  BY <1>1 DEF Record
<1>5. /\ new \in Task /\ new.at = "saving" /\ new.resource = r /\ new.record = record
  BY <1>1, <1>4 DEF Task
<1>6. Applied(t, r)
  BY <1>1 DEF Applied
<1> HIDE DEF r, record, new
<1>7. /\ task'[t] = new
      /\ \A u \in Threads : u # t => task'[u] = task[u]
      /\ made'[r] = record
      /\ \A q \in Resources : q # r => made'[q] = made[q]
  BY <1>1, <1>2, <1>3 DEF TypeOK
<1>8. TypeOK'
  BY <1>2, <1>3, <1>4, <1>5 DEF TypeOK
<1>9. OfficialHasEvidence' /\ SeenInv'
  BY <1>2 DEF OfficialHasEvidence, SeenInv
\* What fitted the record before is older than the new one.
<1>10. \A q \in Resources, x \in Record : Fits(x, q) => Fits(x, q)'
  <2> TAKE q \in Resources, x \in Record
  <2>1. x.stamp \in Nat /\ made[q].stamp \in Nat
    BY DEF TypeOK, Record
  <2>2. CASE q = r
    <3>1. Fits(x, q) => x.stamp <= made[q].stamp
      BY DEF Fits
    <3>2. made'[q].stamp = made[q].stamp + 1
      BY <2>2, <1>4, <1>7
    <3> QED
      BY <2>1, <3>1, <3>2 DEF Fits
  <2>3. CASE q # r
    BY <2>3, <1>7 DEF Fits
  <2> QED
    BY <2>2, <2>3
<1>11. StoredInv'
  BY <1>2, <1>10 DEF StoredInv, Observed, TypeOK
<1>12. LateInv'
  BY <1>2, <1>10 DEF LateInv, Observed, TypeOK
<1>13. TaskInv'
  <2>2. record.stamp <= made'[r].stamp /\ record = made'[r]
    BY <1>1, <1>4, <1>7 DEF Record
  <2>3. /\ task'[t].resource \in Resources
        /\ task'[t].record.snapshot # None => newest'[task'[t].resource] # None
        /\ task'[t].record.stamp <= made'[task'[t].resource].stamp
        /\ task'[t].record = made'[task'[t].resource]
    BY <2>2, <1>1, <1>2, <1>4, <1>5, <1>7 DEF Observed
  <2>4. ASSUME NEW u \in Threads, u # t, task'[u].at # "idle"
        PROVE  /\ task'[u].resource \in Resources
               /\ task'[u].record.snapshot # None => newest'[task'[u].resource] # None
    BY <2>4, <1>2, <1>7 DEF TaskInv, Idle, Observed
  <2>5. ASSUME NEW u \in Threads, u # t, task'[u].at = "saving"
        PROVE  /\ task'[u].record.stamp <= made'[task'[u].resource].stamp
               /\ task'[u].record.stamp = made'[task'[u].resource].stamp
                    => task'[u].record = made'[task'[u].resource]
    <3>1. /\ task'[u] = task[u] /\ task[u].record \in Record
          /\ task[u].resource \in Resources /\ Fits(task[u].record, task[u].resource)
      BY <2>5, <1>7 DEF TaskInv, Idle, TypeOK, Task
    <3>2. Fits(task[u].record, task[u].resource) =>
            /\ task[u].record.stamp <= made'[task[u].resource].stamp
            /\ task[u].record.stamp = made'[task[u].resource].stamp
                 => task[u].record = made'[task[u].resource]
      BY <3>1, <1>10 DEF Fits
    <3> QED
      BY <3>1, <3>2
  <2> QED
    BY <2>3, <2>4, <2>5 DEF TaskInv, Idle, Observed, Fits
<1>14. \A u \in Threads, q \in Resources : Applied(u, q)' <=> Applied(u, q) /\ u # t
  BY <1>5, <1>7 DEF Applied
<1>15. KeptInv'
  <2> SUFFICES ASSUME NEW q \in probed, ~errors, saved[q] # made'[q]
               PROVE  \E u \in Threads : OnItsWay(u, q)' \/ Applied(u, q)'
    BY <1>2 DEF KeptInv
  <2>0. q \in Resources
    BY DEF TypeOK
  <2>1. CASE q = r
    BY <2>1, <1>5, <1>7 DEF OnItsWay
  <2>2. CASE q # r
    <3>1. PICK u \in Threads : OnItsWay(u, q) \/ Applied(u, q)
      BY <2>0, <2>2, <1>7 DEF KeptInv
    <3>2. u # t
      BY <3>1, <2>2, <1>1 DEF OnItsWay, Applied, r
    <3> QED
      BY <2>0, <2>2, <3>1, <3>2, <1>7 DEF OnItsWay, Applied
  <2> QED
    BY <2>1, <2>2
<1>16. ApplyingInv'
  BY <1>2, <1>14 DEF ApplyingInv
<1>17. SingleInv'
  <2> SUFFICES ASSUME NEW q \in probed, q \notin overlapped
               PROVE  /\ \A u, v \in Threads : Applied(u, q)' /\ Applied(v, q)' => u = v
                      /\ \A u \in Threads : Applied(u, q)' =>
                           task'[u].record.snapshot = newest[q]
                      /\ (\A u \in Threads : ~Applied(u, q)') =>
                           made'[q].snapshot = newest[q]
    BY <1>2 DEF SingleInv
  <2>0. q \in Resources
    BY DEF TypeOK
  <2>1. CASE q = r
    <3>1. task[t].record.snapshot = newest[r]
      BY <2>1, <1>6 DEF SingleInv
    <3>2. \A u \in Threads : ~Applied(u, q)'
      BY <2>0, <2>1, <1>6, <1>14 DEF SingleInv
    <3> QED
      BY <2>1, <3>1, <3>2, <1>4, <1>7
  <2>2. CASE q # r
    <3>1. ~Applied(t, q)
      BY <2>2 DEF Applied, r
    <3>2. \A u \in Threads : Applied(u, q)' <=> Applied(u, q)
      BY <2>0, <3>1, <1>14
    <3>3. \A u \in Threads : Applied(u, q) => task'[u] = task[u]
      BY <3>1, <1>7
    <3> QED
      BY <2>0, <2>2, <3>2, <3>3, <1>7 DEF SingleInv
  <2> QED
    BY <2>1, <2>2
<1> QED
  BY <1>8, <1>9, <1>11, <1>12, <1>13, <1>15, <1>16, <1>17

(***************************************************************************)
(* The store takes a record that fits: what it finds afterwards fits too,  *)
(* and it has the newest record if it had it or was given it.              *)
(***************************************************************************)
LEMMA StoreStep ==
    ASSUME LifecycleInv, NEW r \in Resources, NEW record \in Record,
           Observed(record, r), Fits(record, r), Store(r, record),
           UNCHANGED <<made, newest>>
    PROVE  /\ saved' \in [Resources -> Record]
           /\ StoredInv'
           /\ \A q \in Resources : saved[q] = made[q] => saved'[q] = made[q]
           /\ record = made[r] => saved'[r] = made[r]
<1> USE DEF LifecycleInv
<1>1. /\ saved' \in [Resources -> Record]
      /\ \A q \in Resources : q # r => saved'[q] = saved[q]
      /\ saved'[r] = IF record.stamp > saved[r].stamp THEN record ELSE saved[r]
  BY DEF Store, TypeOK
<1>2. StoredInv'
  BY <1>1 DEF StoredInv, Observed, Fits
<1>3. saved[r] \in Record /\ made[r] \in Record /\ Fits(saved[r], r)
  BY DEF TypeOK, StoredInv
<1>4. saved[r] = made[r] => saved'[r] = made[r]
  BY <1>1, <1>3 DEF Fits, Record
<1>5. record = made[r] => saved'[r] = made[r]
  BY <1>1, <1>3 DEF Fits, Record
<1> QED
  BY <1>1, <1>2, <1>4, <1>5

(***************************************************************************)
(* A thread that saved, gave up or restores: it was not applying, and does *)
(* not start to.                                                           *)
(***************************************************************************)
LEMMA DoneStep ==
    ASSUME LifecycleInv, NEW t \in Threads, NEW new \in Task,
           task[t].at # "applied", new.at \notin {"applied", "saving"},
           new.at # "idle" =>
             new.resource \in Resources /\ Observed(new.record, new.resource),
           task' = [task EXCEPT ![t] = new],
           UNCHANGED <<made, newest, probed, overlapped>>
    PROVE  /\ task' \in [Threads -> Task]
           /\ TaskInv' /\ ApplyingInv' /\ SingleInv'
           /\ \A u \in Threads, q \in Resources : Applied(u, q) => Applied(u, q)'
           /\ \A u \in Threads \ {t}, q \in Resources : OnItsWay(u, q) => OnItsWay(u, q)'
<1> USE DEF LifecycleInv
<1>1. /\ task' \in [Threads -> Task]
      /\ task'[t] = new
      /\ \A u \in Threads : u # t => task'[u] = task[u]
  BY DEF TypeOK
<1>2. TaskInv'
  BY <1>1 DEF TaskInv, Idle, Observed, Fits
<1>3. \A u \in Threads, q \in Resources : Applied(u, q)' <=> Applied(u, q)
  BY <1>1 DEF Applied
<1>4. ApplyingInv'
  BY <1>3 DEF ApplyingInv
<1>5. \A u \in Threads, q \in Resources : Applied(u, q) => task'[u] = task[u]
  BY <1>1 DEF Applied
<1>6. SingleInv'
  <2> SUFFICES ASSUME NEW q \in probed, q \notin overlapped
               PROVE  /\ \A u, v \in Threads : Applied(u, q)' /\ Applied(v, q)' => u = v
                      /\ \A u \in Threads : Applied(u, q)' =>
                           task'[u].record.snapshot = newest[q]
                      /\ (\A u \in Threads : ~Applied(u, q)') =>
                           made[q].snapshot = newest[q]
    BY DEF SingleInv
  <2>1. q \in Resources
    BY DEF TypeOK
  <2> QED
    BY <2>1, <1>3, <1>5 DEF SingleInv
<1>7. \A u \in Threads \ {t}, q \in Resources : OnItsWay(u, q) => OnItsWay(u, q)'
  BY <1>1 DEF OnItsWay
<1> QED
  BY <1>1, <1>2, <1>3, <1>4, <1>6, <1>7

LEMMA SavedStep ==
    ASSUME LifecycleInv, NEW t \in Threads, Saved(t)
    PROVE  LifecycleInv'
<1> USE DEF LifecycleInv
<1> DEFINE r == task[t].resource
           record == task[t].record
<1>1. /\ task[t].at = "saving" /\ Store(r, record) /\ task' = [task EXCEPT ![t] = NoTask]
      /\ UNCHANGED <<candidate, official, late, errors, made, newest, probed, overlapped>>
  BY DEF Saved
<1>2. /\ r \in Resources /\ record \in Record /\ Observed(record, r) /\ Fits(record, r)
  BY <1>1 DEF TaskInv, Idle, TypeOK, Task
<1> HIDE DEF r, record
<1>3. /\ saved' \in [Resources -> Record]
      /\ StoredInv'
      /\ \A q \in Resources : saved[q] = made[q] => saved'[q] = made[q]
      /\ record = made[r] => saved'[r] = made[r]
  BY <1>1, <1>2, StoreStep
<1>4. /\ task' \in [Threads -> Task]
      /\ TaskInv' /\ ApplyingInv' /\ SingleInv'
      /\ \A u \in Threads, q \in Resources : Applied(u, q) => Applied(u, q)'
      /\ \A u \in Threads \ {t}, q \in Resources : OnItsWay(u, q) => OnItsWay(u, q)'
  BY <1>1, NoTaskType, DoneStep DEF NoTask
<1>5. TypeOK'
  BY <1>1, <1>3, <1>4 DEF TypeOK
<1>6. OfficialHasEvidence' /\ SeenInv'
  BY <1>1 DEF OfficialHasEvidence, SeenInv
<1>7. LateInv'
  BY <1>1 DEF LateInv, Observed, Fits
<1>8. KeptInv'
  <2> SUFFICES ASSUME NEW q \in probed, ~errors, saved'[q] # made[q]
               PROVE  \E u \in Threads : OnItsWay(u, q)' \/ Applied(u, q)'
    BY <1>1 DEF KeptInv
  <2>0. q \in Resources
    BY DEF TypeOK
  <2>1. PICK u \in Threads : OnItsWay(u, q) \/ Applied(u, q)
    BY <2>0, <1>3 DEF KeptInv
  <2>2. ~OnItsWay(t, q)
    BY <1>3 DEF OnItsWay, r, record
  <2> QED
    BY <2>0, <2>1, <2>2, <1>4
<1> QED
  BY <1>3, <1>4, <1>5, <1>6, <1>7, <1>8

LEMMA NotSavedStep ==
    ASSUME LifecycleInv, NEW t \in Threads, NotSaved(t)
    PROVE  LifecycleInv'
<1> USE DEF LifecycleInv
<1>1. /\ task[t].at = "saving" /\ errors' = TRUE /\ task' = [task EXCEPT ![t] = NoTask]
      /\ late' \in {late, late \cup {<<task[t].resource, task[t].record>>}}
      /\ UNCHANGED <<candidate, official, saved, made, newest, probed, overlapped>>
  BY DEF NotSaved
<1>2. /\ task[t].resource \in Resources /\ task[t].record \in Record
      /\ Observed(task[t].record, task[t].resource)
      /\ Fits(task[t].record, task[t].resource)
  BY <1>1 DEF TaskInv, Idle, TypeOK, Task
<1>3. task' \in [Threads -> Task] /\ TaskInv' /\ ApplyingInv' /\ SingleInv'
  BY <1>1, NoTaskType, DoneStep DEF NoTask
<1>4. TypeOK'
  BY <1>1, <1>2, <1>3 DEF TypeOK
<1>5. OfficialHasEvidence' /\ SeenInv'
  BY <1>1 DEF OfficialHasEvidence, SeenInv
<1>6. StoredInv'
  BY <1>1 DEF StoredInv, Observed, Fits
<1>7. LateInv'
  BY <1>1, <1>2 DEF LateInv, Observed, Fits
<1>8. KeptInv'
  BY <1>1 DEF KeptInv
<1> QED
  BY <1>3, <1>4, <1>5, <1>6, <1>7, <1>8

LEMMA LandStep == LifecycleInv /\ Land => LifecycleInv'
<1> SUFFICES ASSUME LifecycleInv, Land PROVE LifecycleInv'
  OBVIOUS
<1> USE DEF LifecycleInv
<1>1. PICK x \in late : Store(x[1], x[2]) /\ late' = late \ {x}
  BY DEF Land
<1>2. UNCHANGED <<candidate, official, task, errors, made, newest, probed, overlapped>>
  BY DEF Land
<1>3. x[1] \in Resources /\ x[2] \in Record /\ Observed(x[2], x[1]) /\ Fits(x[2], x[1])
  BY DEF TypeOK, LateInv
<1>4. /\ saved' \in [Resources -> Record]
      /\ StoredInv'
      /\ \A q \in Resources : saved[q] = made[q] => saved'[q] = made[q]
  BY <1>1, <1>2, <1>3, StoreStep
<1>5. TypeOK'
  BY <1>1, <1>2, <1>4 DEF TypeOK
<1>6. OfficialHasEvidence' /\ SeenInv'
  BY <1>2 DEF OfficialHasEvidence, SeenInv
<1>7. LateInv'
  BY <1>1, <1>2 DEF LateInv, Observed, Fits
<1>8. TaskInv' /\ ApplyingInv' /\ SingleInv'
  BY <1>2 DEF TaskInv, ApplyingInv, SingleInv, Idle, Applied, Observed, Fits
<1>9. KeptInv'
  BY <1>2, <1>4 DEF KeptInv, OnItsWay, Applied, TypeOK
<1> QED
  BY <1>4, <1>5, <1>6, <1>7, <1>8, <1>9

LEMMA LookUpStep ==
    ASSUME LifecycleInv, NEW t \in Threads, NEW r \in Resources, LookUp(t, r)
    PROVE  LifecycleInv'
<1> USE DEF LifecycleInv
<1>1. /\ Idle(t)
      /\ UNCHANGED <<candidate, official, saved, late, made, newest, probed, overlapped>>
  BY DEF LookUp
<1>2. OfficialHasEvidence' /\ SeenInv' /\ StoredInv' /\ LateInv'
  BY <1>1 DEF OfficialHasEvidence, SeenInv, StoredInv, LateInv, Observed, Fits
<1>3. CASE task' = [task EXCEPT ![t] =
                      [at |-> "restoring", resource |-> r, record |-> saved[r]]]
           /\ UNCHANGED errors
  <2> DEFINE new == [at |-> "restoring", resource |-> r, record |-> saved[r]]
  <2>1. /\ new \in Task /\ new.at = "restoring" /\ new.resource = r
        /\ Observed(new.record, new.resource)
    BY DEF Task, TypeOK, StoredInv, Optional
  <2>2. task' = [task EXCEPT ![t] = new]
    BY <1>3
  <2> HIDE DEF new
  <2>3. /\ task' \in [Threads -> Task]
        /\ TaskInv' /\ ApplyingInv' /\ SingleInv'
        /\ \A u \in Threads, q \in Resources : Applied(u, q) => Applied(u, q)'
        /\ \A u \in Threads \ {t}, q \in Resources : OnItsWay(u, q) => OnItsWay(u, q)'
    BY <1>1, <2>1, <2>2, DoneStep DEF Idle
  <2>4. TypeOK'
    BY <1>1, <1>3, <2>3 DEF TypeOK
  <2>5. \A q \in Resources : ~OnItsWay(t, q)
    BY <1>1 DEF OnItsWay, Idle
  <2>6. KeptInv'
    <3> SUFFICES ASSUME NEW q \in probed, ~errors, saved[q] # made[q]
                 PROVE  \E u \in Threads : OnItsWay(u, q)' \/ Applied(u, q)'
      BY <1>1, <1>3 DEF KeptInv
    <3>1. PICK u \in Threads : OnItsWay(u, q) \/ Applied(u, q)
      BY DEF KeptInv
    <3> QED
      BY <2>3, <2>5, <3>1 DEF TypeOK
  <2> QED
    BY <1>2, <2>3, <2>4, <2>6
<1>4. CASE errors' = TRUE /\ UNCHANGED task
  <2>1. TypeOK'
    BY <1>1, <1>4 DEF TypeOK
  <2>2. TaskInv' /\ ApplyingInv' /\ SingleInv'
    BY <1>1, <1>4 DEF TaskInv, ApplyingInv, SingleInv, Idle, Applied, Observed, Fits
  <2>3. KeptInv'
    BY <1>4 DEF KeptInv
  <2> QED
    BY <1>2, <2>1, <2>2, <2>3
<1> QED
  BY <1>3, <1>4 DEF LookUp

LEMMA RestoreStep ==
    ASSUME LifecycleInv, NEW t \in Threads, Restore(t)
    PROVE  LifecycleInv'
<1> USE DEF LifecycleInv
<1> DEFINE r == task[t].resource
           found == task[t].record.snapshot
<1>1. /\ task[t].at = "restoring" /\ task' = [task EXCEPT ![t] = NoTask]
      /\ official' = [official EXCEPT ![r] = IF @ = None THEN None ELSE found]
      /\ UNCHANGED <<candidate, saved, late, errors, made, newest, probed, overlapped>>
  BY DEF Restore
<1>2. r \in Resources /\ found \in Optional(Resource) /\ (found # None => newest[r] # None)
  BY <1>1 DEF TaskInv, Idle, Observed, TypeOK, Task, Record
<1> HIDE DEF r, found
<1>3. /\ task' \in [Threads -> Task]
      /\ TaskInv' /\ ApplyingInv' /\ SingleInv'
      /\ \A u \in Threads, q \in Resources : Applied(u, q) => Applied(u, q)'
      /\ \A u \in Threads \ {t}, q \in Resources : OnItsWay(u, q) => OnItsWay(u, q)'
  BY <1>1, NoTaskType, DoneStep DEF NoTask
<1>4. TypeOK'
  BY <1>1, <1>2, <1>3 DEF TypeOK, Optional
<1>5. OfficialHasEvidence'
  BY <1>1, <1>2, RuntimeKeepsEvidence DEF TypeOK
<1>6. SeenInv'
  BY <1>1, <1>2 DEF SeenInv, TypeOK
<1>7. StoredInv' /\ LateInv'
  BY <1>1 DEF StoredInv, LateInv, Observed, Fits
<1>8. KeptInv'
  <2> SUFFICES ASSUME NEW q \in probed, ~errors, saved[q] # made[q]
               PROVE  \E u \in Threads : OnItsWay(u, q)' \/ Applied(u, q)'
    BY <1>1 DEF KeptInv
  <2>1. PICK u \in Threads : OnItsWay(u, q) \/ Applied(u, q)
    BY DEF KeptInv
  <2>2. ~OnItsWay(t, q)
    BY <1>1 DEF OnItsWay
  <2> QED
    BY <1>3, <2>1, <2>2 DEF TypeOK
<1> QED
  BY <1>3, <1>4, <1>5, <1>6, <1>7, <1>8

LEMMA RefreshStep ==
    ASSUME LifecycleInv, NEW r \in Resources, Refresh(r)
    PROVE  LifecycleInv'
<1> USE DEF LifecycleInv, Refresh
<1>0. official[r] \in Resource /\ official' = [official EXCEPT ![r] = Reopened(official[r])]
  BY DEF TypeOK, Optional
<1>1. TypeOK'
  BY <1>0, ReopenedType DEF TypeOK, Optional, runtime
<1>2. OfficialHasEvidence'
  BY <1>0, RuntimeKeepsEvidence DEF TypeOK
<1>3. SeenInv'
  BY <1>0, ReopenedUnknown DEF SeenInv, TypeOK, runtime
<1>4. RuntimeInv'
  BY RuntimeKept
<1> QED
  BY <1>1, <1>2, <1>3, <1>4 DEF RuntimeInv

LEMMA TickStep == LifecycleInv /\ Tick => LifecycleInv'
<1> SUFFICES ASSUME LifecycleInv, Tick PROVE LifecycleInv'
  OBVIOUS
<1> USE DEF LifecycleInv
<1>0. /\ UNCHANGED <<candidate, errors, probed, overlapped>>
      /\ official' = [r \in Resources |-> ElapseIfAny(official[r])]
      /\ newest' = [r \in Resources |-> ElapseIfAny(newest[r])]
      /\ saved' = [r \in Resources |-> ElapseRecord(saved[r])]
      /\ made' = [r \in Resources |-> ElapseRecord(made[r])]
      /\ late' = {<<x[1], ElapseRecord(x[2])>> : x \in late}
      /\ task' = [t \in Threads |-> [task[t] EXCEPT !.record = ElapseRecord(@)]]
  BY DEF Tick
<1>1. \A r \in Resources : /\ official[r] \in Optional(Resource)
                           /\ newest[r] \in Optional(Resource)
                           /\ saved[r] \in Record /\ made[r] \in Record
  BY DEF TypeOK
<1>2. \A t \in Threads : task[t] \in Task /\ task[t].record \in Record
  BY DEF TypeOK, Task
<1> HIDE DEF ElapseRecord
<1>3. \A t \in Threads : /\ task'[t] \in Task
                         /\ task'[t].at = task[t].at
                         /\ task'[t].resource = task[t].resource
                         /\ task'[t].record = ElapseRecord(task[t].record)
  BY <1>0, <1>2, ElapseRecordType DEF Task
<1>4. \A x \in late : x[1] \in Resources /\ x[2] \in Record
  BY DEF TypeOK
<1>5. \A r \in Resources : newest[r] # None => newest'[r] # None
  BY <1>0, <1>1, ElapseType
<1>6. \A r \in Resources, x \in Record :
        /\ Observed(x, r) => Observed(ElapseRecord(x), r)'
        /\ Fits(x, r) => Fits(ElapseRecord(x), r)'
  BY <1>0, <1>1, <1>5, ElapseRecordType DEF Observed, Fits
<1>7. TypeOK'
  <2>1. task' \in [Threads -> Task]
    BY <1>0, <1>3
  <2>2. late' \subseteq Resources \X Record
    BY <1>0, <1>4, ElapseRecordType
  <2>3. /\ official' \in [Resources -> Optional(Resource)]
        /\ newest' \in [Resources -> Optional(Resource)]
    BY <1>0, <1>1, ElapseType
  <2>4. saved' \in [Resources -> Record] /\ made' \in [Resources -> Record]
    BY <1>0, <1>1, ElapseRecordType
  <2> QED
    BY <1>0, <2>1, <2>2, <2>3, <2>4 DEF TypeOK
<1>8. OfficialHasEvidence'
  BY <1>0, <1>1, ElapseType, RuntimeKeepsEvidence
<1>9. SeenInv'
  BY <1>0, <1>1, ElapseType DEF SeenInv
<1>10. StoredInv'
  BY <1>0, <1>1, <1>6 DEF StoredInv, Observed, Fits
<1>11. LateInv'
  BY <1>0, <1>4, <1>6 DEF LateInv, Observed, Fits
<1>12. TaskInv'
  BY <1>2, <1>3, <1>6 DEF TaskInv, Idle, Observed, Fits
<1>13. \A t \in Threads, r \in Resources : /\ Applied(t, r)' <=> Applied(t, r)
                                           /\ OnItsWay(t, r) => OnItsWay(t, r)'
  BY <1>0, <1>3 DEF Applied, OnItsWay
<1>14. KeptInv'
  BY <1>0, <1>13 DEF KeptInv, TypeOK
<1>15. ApplyingInv'
  BY <1>0, <1>13 DEF ApplyingInv
<1>16. SingleInv'
  <2> SUFFICES ASSUME NEW q \in probed, q \notin overlapped
               PROVE  /\ \A t, u \in Threads : Applied(t, q)' /\ Applied(u, q)' => t = u
                      /\ \A t \in Threads : Applied(t, q)' =>
                           task'[t].record.snapshot = newest'[q]
                      /\ (\A t \in Threads : ~Applied(t, q)') =>
                           made'[q].snapshot = newest'[q]
    BY <1>0 DEF SingleInv
  <2>1. q \in Resources
    BY DEF TypeOK
  <2>2. \A t, u \in Threads : Applied(t, q)' /\ Applied(u, q)' => t = u
    BY <2>1, <1>13 DEF SingleInv
  <2>3. ASSUME NEW t \in Threads, Applied(t, q)'
        PROVE  task'[t].record.snapshot = newest'[q]
    <3>1. task[t].record.snapshot = newest[q]
      BY <2>1, <2>3, <1>13 DEF SingleInv
    <3>2. task'[t].record.snapshot = ElapseIfAny(task[t].record.snapshot)
      BY <1>2, <1>3, ElapseRecordType
    <3> QED
      BY <2>1, <3>1, <3>2, <1>0
  <2>4. ASSUME \A t \in Threads : ~Applied(t, q)'
        PROVE  made'[q].snapshot = newest'[q]
    <3>1. made[q].snapshot = newest[q]
      BY <2>1, <2>4, <1>13 DEF SingleInv
    <3>2. made'[q].snapshot = ElapseIfAny(made[q].snapshot)
      BY <2>1, <1>0, <1>1, ElapseRecordType
    <3> QED
      BY <2>1, <3>1, <3>2, <1>0
  <2> QED
    BY <2>2, <2>3, <2>4
<1> QED
  BY <1>7, <1>8, <1>9, <1>10, <1>11, <1>12, <1>14, <1>15, <1>16

LEMMA RestartStep == LifecycleInv /\ Restart => LifecycleInv'
<1> SUFFICES ASSUME LifecycleInv, Restart PROVE LifecycleInv'
  OBVIOUS
<1> USE DEF LifecycleInv, Restart
<1>0. \A t \in Threads : task[t].at = "saving" =>
        /\ task[t].resource \in Resources /\ task[t].record \in Record
        /\ Observed(task[t].record, task[t].resource)
        /\ Fits(task[t].record, task[t].resource)
  BY DEF TaskInv, Idle, TypeOK, Task
<1>1. TypeOK'
  <2>1. late' \subseteq Resources \X Record
    BY <1>0 DEF TypeOK
  <2> QED
    BY <2>1, FreshType, NoTaskType DEF TypeOK, NotSubmitted, Candidate, Statuses
<1>2. OfficialHasEvidence'
  BY FreshType DEF OfficialHasEvidence
<1>3. SeenInv'
  BY FreshType DEF SeenInv
<1>4. StoredInv'
  BY DEF StoredInv, Observed, Fits
<1>5. LateInv'
  BY <1>0 DEF LateInv, Observed, Fits
<1>6. TaskInv' /\ ApplyingInv'
  BY DEF TaskInv, ApplyingInv, Idle, Applied, NoTask
<1>7. KeptInv' /\ SingleInv'
  BY DEF KeptInv, SingleInv
<1> QED
  BY <1>1, <1>2, <1>3, <1>4, <1>5, <1>6, <1>7

-----------------------------------------------------------------------------
LEMMA LifecycleStep == LifecycleInv /\ [Next]_vars => LifecycleInv'
<1> SUFFICES ASSUME LifecycleInv, [Next]_vars PROVE LifecycleInv'
  OBVIOUS
<1> USE DEF LifecycleInv
<1>1. ASSUME NEW c \in Candidates, Submit(c) PROVE LifecycleInv'
  <2>1. PICK checks \in SUBSET Checks :
          Becomes(c, [status |-> "DISCOVERED", checks |-> checks])
    BY <1>1 DEF Submit
  <2>2. [status |-> "DISCOVERED", checks |-> checks] \in Candidate
    BY DEF Candidate, Statuses
  <2> QED
    BY <1>1, <2>1, <2>2, GateStep DEF Submit, Carries
<1>2. ASSUME NEW c \in Candidates, NEW check \in Checks, AddEvidence(c, check)
      PROVE  LifecycleInv'
  <2>1. [status |-> "VERIFYING", checks |-> candidate[c].checks \cup {check}] \in Candidate
    BY <1>2 DEF TypeOK, Candidate, Statuses
  <2>2. ~Carries(c)
    BY <1>2 DEF AddEvidence, Mutable, Terminal, Carries
  <2> QED
    BY <1>2, <2>1, <2>2, GateStep DEF AddEvidence
<1>3. ASSUME NEW c \in Candidates, Validate(c) PROVE LifecycleInv'
  <2>1. [candidate[c] EXCEPT !.status = "VALIDATED"] \in Candidate
    BY <1>3 DEF TypeOK, Candidate, Statuses
  <2>2. ~Carries(c)
    BY <1>3 DEF Validate, Mutable, Terminal, Carries
  <2> QED
    BY <1>3, <2>1, <2>2, GateStep DEF Validate
<1>4. ASSUME NEW c \in Candidates, Reject(c) PROVE LifecycleInv'
  <2>1. [candidate[c] EXCEPT !.status = "REJECTED"] \in Candidate
    BY <1>4 DEF TypeOK, Candidate, Statuses
  <2>2. ~Carries(c)
    BY <1>4 DEF Reject, Mutable, Terminal, Carries
  <2> QED
    BY <1>4, <2>1, <2>2, GateStep DEF Reject
<1>5. ASSUME NEW c \in Candidates, Deprecate(c) PROVE LifecycleInv'
  <2> DEFINE new == [candidate[c] EXCEPT !.status = "DEPRECATED"]
  <2>1. new \in Candidate /\ new.status = "DEPRECATED" /\ new.checks = candidate[c].checks
    BY <1>5 DEF TypeOK, Candidate, Statuses
  <2> QED
    BY <1>5, <2>1, GateStep DEF Deprecate, Carries
<1>6. ASSUME NEW c \in Candidates, Promote(c) PROVE LifecycleInv'
  BY <1>6, PromoteStep
<1>7. ASSUME NEW t \in Threads, NEW r \in Resources, Apply(t, r) PROVE LifecycleInv'
  BY <1>7, ApplyStep
<1>8. ASSUME NEW t \in Threads, Make(t) PROVE LifecycleInv'
  BY <1>8, MakeStep
<1>9. ASSUME NEW t \in Threads, Saved(t) PROVE LifecycleInv'
  BY <1>9, SavedStep
<1>10. ASSUME NEW t \in Threads, NotSaved(t) PROVE LifecycleInv'
  BY <1>10, NotSavedStep
<1>11. ASSUME NEW t \in Threads, NEW r \in Resources, LookUp(t, r) PROVE LifecycleInv'
  BY <1>11, LookUpStep
<1>12. ASSUME NEW t \in Threads, Restore(t) PROVE LifecycleInv'
  BY <1>12, RestoreStep
<1>13. ASSUME NEW r \in Resources, Refresh(r) PROVE LifecycleInv'
  BY <1>13, RefreshStep
<1>14. CASE UNCHANGED vars
  <2>1. TypeOK' /\ OfficialHasEvidence' /\ SeenInv'
    BY <1>14 DEF vars, runtime, TypeOK, OfficialHasEvidence, SeenInv
  <2>2. RuntimeInv'
    BY <1>14, RuntimeKept DEF vars
  <2> QED
    BY <2>1, <2>2 DEF RuntimeInv
<1> QED
  BY <1>1, <1>2, <1>3, <1>4, <1>5, <1>6, <1>7, <1>8, <1>9, <1>10, <1>11, <1>12, <1>13,
     <1>14, LandStep, TickStep, RestartStep DEF Next

LEMMA LifecycleAlways == Spec => []LifecycleInv
BY InitLifecycle, LifecycleStep, PTL DEF Spec

-----------------------------------------------------------------------------
\* Every variable of the lifecycle stays in its type, whatever the process does
\* between two restarts.
THEOREM LifecycleTypeCorrect == Spec => []TypeOK
<1>1. LifecycleInv => TypeOK
  BY DEF LifecycleInv
<1> QED
  BY <1>1, LifecycleAlways, PTL

\* The validation gate: no resource enters the registry without a candidate that has
\* every class of evidence, in whatever order evidence, decisions and promotions come.
THEOREM PromotionNeedsEvidence == Spec => []OfficialHasEvidence
<1>1. LifecycleInv => OfficialHasEvidence
  BY DEF LifecycleInv
<1> QED
  BY <1>1, LifecycleAlways, PTL

\* No resource is schedulable on a draft's or the catalog's word: somebody observed it.
THEOREM SchedulingNeedsObservation == Spec => []SchedulableWasSeen
<1>1. LifecycleInv => SchedulableWasSeen
  BY DEF LifecycleInv, SeenInv, SchedulableWasSeen, Schedulable, Unschedulable
<1> QED
  BY <1>1, LifecycleAlways, PTL

\* When the threads are done with a resource, the store finds the record made last of it
\* or an error tells that it does not; and the record is of the last observation, unless
\* two were applied at once.
THEOREM FailedSavesAreRemembered == Spec => []LostSavesAreKnown
<1>1. LifecycleInv => LostSavesAreKnown
  <2> SUFFICES ASSUME LifecycleInv, NEW r \in probed, Settled(r)
               PROVE  /\ saved[r] # made[r] => errors
                      /\ made[r].snapshot # newest[r] => r \in overlapped
    BY DEF LostSavesAreKnown
  <2>1. \A t \in Threads : ~Applied(t, r) /\ ~OnItsWay(t, r)
    BY DEF Settled, Applied, OnItsWay
  <2>2. saved[r] # made[r] => errors
    BY <2>1 DEF LifecycleInv, KeptInv
  <2>3. made[r].snapshot # newest[r] => r \in overlapped
    BY <2>1 DEF LifecycleInv, SingleInv
  <2> QED
    BY <2>2, <2>3
<1> QED
  BY <1>1, LifecycleAlways, PTL
=============================================================================
