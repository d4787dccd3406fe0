--------------------------- MODULE ResourceLifecycle ---------------------------
(***************************************************************************)
(* How a resource comes to be schedulable: the Researcher's candidates     *)
(* (resources/candidates.py) are validated and promoted into the registry  *)
(* (resources/model.py), whose state the ResourcePoolStateManager          *)
(* (resources/state.py) changes by what is observed, saves to the Memory   *)
(* Fabric (resources/persistence.py) and restores after a restart.         *)
(*                                                                         *)
(* The server's threads share the manager, and nothing guards it: others   *)
(* run between the registry's part of apply and the store's, and between   *)
(* the store's part of restore and the registry's.                         *)
(***************************************************************************)
EXTENDS ResourceState, FiniteSets

CONSTANTS
    Candidates,    \* the candidates a Researcher may submit
    Resources,     \* resource ids
    Catalog,       \* the resources of the static catalog
    Checks,        \* the classes of evidence
    Draft,         \* [Candidates -> Resources], the draft's resource_id
    Claim,         \* [Candidates -> ResourceHealth], the draft's health
    Observations,  \* [Resources -> SUBSET Resource], what a probe or a provider's outcome
                   \* may report of each
    Threads,       \* the threads of the server
    MaxRecords     \* bound: [Resources -> Nat], the records ever made of each

ASSUME LifecycleAssumption ==
    /\ None \notin Resource
    /\ Catalog \subseteq Resources
    /\ Draft \in [Candidates -> Resources]
    /\ Claim \in [Candidates -> ResourceHealth]
    /\ Observations \in [Resources -> SUBSET Resource]
    /\ MaxRecords \in [Resources -> Nat]

VARIABLES
    candidate,   \* ResourceCandidateRegistry._candidates
    official,    \* ResourceRegistry._resources
    task,        \* what each thread is about
    saved,       \* the record of each resource that the Memory Fabric finds first
    late,        \* records of calls given up that the Memory Fabric may still store
    errors,      \* whether persistence_errors is not empty
    made,        \* history: the record made last of each resource, by any process
    newest,      \* history: what was last observed, by any process
    probed,      \* history: the resources observed since the process started
    overlapped   \* history: those of them with two observations applied at once

runtime == <<task, saved, late, errors, made, newest, probed, overlapped>>
vars == <<candidate, official, runtime>>

Statuses == {"absent", "DISCOVERED", "VERIFYING", "VALIDATED", "REJECTED", "DEPRECATED"}
Candidate == [status : Statuses, checks : SUBSET Checks]

NotSubmitted == [status |-> "absent", checks |-> {}]

\* The state a resource is registered in before anything is known of it.
Registered(health) == [health |-> health, until |-> None]

\* A MemoryRecord of a snapshot.  Its stamp is updated_at, of which only the order
\* counts; a resource has one more than its newest record, and 0 stands for no record.
Record == [snapshot : Optional(Resource), stamp : Nat]
NoRecord == [snapshot |-> None, stamp |-> 0]

\* A thread that is "applied" has replaced the registry's entry, one that is "saving"
\* waits for the store to take its record, one that is "restoring" holds what it found.
Task == [at : {"idle", "applied", "saving", "restoring"},
         resource : Optional(Resources), record : Record]
NoTask == [at |-> "idle", resource |-> None, record |-> NoRecord]

TypeOK ==
    /\ candidate \in [Candidates -> Candidate]
    /\ official \in [Resources -> Optional(Resource)]
    /\ task \in [Threads -> Task]
    /\ saved \in [Resources -> Record]
    /\ late \subseteq Resources \X Record
    /\ errors \in BOOLEAN
    /\ made \in [Resources -> Record]
    /\ newest \in [Resources -> Optional(Resource)]
    /\ overlapped \subseteq probed /\ probed \subseteq Resources

\* What a new process knows: the catalog, whose remote resources are UNKNOWN.
Fresh(r) == IF r \in Catalog THEN Registered("UNKNOWN") ELSE None

Init ==
    /\ candidate = [c \in Candidates |-> NotSubmitted]
    /\ official = [r \in Resources |-> Fresh(r)]
    /\ task = [t \in Threads |-> NoTask]
    /\ saved = [r \in Resources |-> NoRecord]
    /\ late = {}
    /\ errors = FALSE
    /\ made = [r \in Resources |-> NoRecord]
    /\ newest = [r \in Resources |-> None]
    /\ probed = {}
    /\ overlapped = {}

-----------------------------------------------------------------------------
(***************************************************************************)
(* The validation gate.                                                    *)
(***************************************************************************)
Terminal == {"REJECTED", "DEPRECATED", "VALIDATED"}

\* _require_mutable: the candidate exists and has not been decided on.
Mutable(c) == candidate[c].status \notin Terminal \cup {"absent"}

Becomes(c, new) ==
    /\ candidate' = [candidate EXCEPT ![c] = new]
    /\ UNCHANGED <<official, runtime>>

\* A candidate may bring evidence along.
Submit(c) ==
    /\ candidate[c].status = "absent"
    /\ \E checks \in SUBSET Checks :
         Becomes(c, [status |-> "DISCOVERED", checks |-> checks])

\* Evidence of a class replaces older evidence of that class.
AddEvidence(c, check) ==
    /\ Mutable(c)
    /\ Becomes(c, [status |-> "VERIFYING", checks |-> candidate[c].checks \cup {check}])

\* A bug: one class of evidence is enough.
AnyCheck(c) == candidate[c].checks # {}

MissingNone(c) == Checks \subseteq candidate[c].checks

Validate(c) ==
    /\ Mutable(c)
    /\ MissingNone(c)
    /\ Becomes(c, [candidate[c] EXCEPT !.status = "VALIDATED"])

Reject(c) ==
    /\ Mutable(c)
    /\ Becomes(c, [candidate[c] EXCEPT !.status = "REJECTED"])

\* deprecate asks nothing of the status.
Deprecate(c) ==
    /\ candidate[c].status # "absent"
    /\ Becomes(c, [candidate[c] EXCEPT !.status = "DEPRECATED"])

\* A bug: the health a draft claims is taken at its word.
PromotableAsClaimed(c) ==
    candidate[c].status = "VALIDATED" /\ MissingNone(c)

Promotable(c) ==
    /\ candidate[c].status = "VALIDATED"
    /\ MissingNone(c)
    /\ Claim[c] = "UNKNOWN"

\* The lookup of the resource is official_registry.get, which refreshes it.
Promote(c) ==
    /\ Promotable(c)
    /\ LET r == Draft[c]
       IN  official' = [official EXCEPT ![r] = IF @ = None THEN Registered(Claim[c])
                                                           ELSE Reopened(@)]
    /\ UNCHANGED <<candidate, runtime>>

-----------------------------------------------------------------------------
(***************************************************************************)
(* The runtime state.                                                      *)
(***************************************************************************)
Idle(t) == task[t].at = "idle"

\* The thread is in apply, between the registry and the record.
Applied(t, r) == task[t].at = "applied" /\ task[t].resource = r

\* apply, the registry's part: what is observed replaces what the registry has.
Apply(t, r) ==
    /\ Idle(t)
    /\ official[r] # None
    /\ made[r].stamp + Cardinality({u \in Threads : Applied(u, r)}) < MaxRecords[r]
    /\ \E snapshot \in Observations[r] :
         /\ official' = [official EXCEPT ![r] = snapshot]
         /\ newest' = [newest EXCEPT ![r] = snapshot]
         /\ task' = [task EXCEPT ![t] =
                       [at |-> "applied", resource |-> r,
                        record |-> [NoRecord EXCEPT !.snapshot = snapshot]]]
    /\ probed' = probed \cup {r}
    /\ overlapped' = IF \E u \in Threads : Applied(u, r) THEN overlapped \cup {r}
                                                         ELSE overlapped
    /\ UNCHANGED <<candidate, saved, late, errors, made>>

\* MemoryResourceStateStore.save: the record is made, and is newer than all before it.
Make(t) ==
    /\ task[t].at = "applied"
    /\ LET r == task[t].resource
           record == [task[t].record EXCEPT !.stamp = made[r].stamp + 1]
       IN  /\ made' = [made EXCEPT ![r] = record]
           /\ task' = [task EXCEPT ![t].at = "saving", ![t].record = record]
    /\ UNCHANGED <<candidate, official, saved, late, errors, newest, probed, overlapped>>

\* A bug: what was stored last is found first.
StoreAsLatest(r, record) ==
    saved' = [saved EXCEPT ![r] = record]

\* The Memory Fabric stores a record.  A search finds the newest of a resource first,
\* whenever it came.
Store(r, record) ==
    saved' = [saved EXCEPT ![r] = IF record.stamp > @.stamp THEN record ELSE @]

Saved(t) ==
    /\ task[t].at = "saving"
    /\ Store(task[t].resource, task[t].record)
    /\ task' = [task EXCEPT ![t] = NoTask]
    /\ UNCHANGED <<candidate, official, late, errors, made, newest, probed, overlapped>>

\* A bug: a failed save goes unnoticed.
NotSavedSilently(t) ==
    /\ task[t].at = "saving"
    /\ task' = [task EXCEPT ![t] = NoTask]
    /\ UNCHANGED <<candidate, official, saved, late, errors, made, newest, probed,
                   overlapped>>

\* The write raises: an error is kept and nothing is raised.  A call that timed out may
\* still be carried out.
NotSaved(t) ==
    /\ task[t].at = "saving"
    /\ errors' = TRUE
    /\ late' \in {late, late \cup {<<task[t].resource, task[t].record>>}}
    /\ task' = [task EXCEPT ![t] = NoTask]
    /\ UNCHANGED <<candidate, official, saved, made, newest, probed, overlapped>>

Land ==
    /\ \E x \in late :
         /\ Store(x[1], x[2])
         /\ late' = late \ {x}
    /\ UNCHANGED <<candidate, official, task, errors, made, newest, probed, overlapped>>

\* restore, the store's part: the newest record, or what cannot be read, an error to
\* remember.  (A node that is out of reach is passed over: there is nothing to restore,
\* and nothing happens.)
LookUp(t, r) ==
    /\ Idle(t)
    /\ \/ /\ saved[r] # NoRecord
          /\ task' = [task EXCEPT ![t] =
                        [at |-> "restoring", resource |-> r, record |-> saved[r]]]
          /\ UNCHANGED errors
       \/ /\ errors' = TRUE
          /\ UNCHANGED task
    /\ UNCHANGED <<candidate, official, saved, late, made, newest, probed, overlapped>>

\* restore, the registry's part: apply without saving again, which raises for a resource
\* that is not registered.
Restore(t) ==
    /\ task[t].at = "restoring"
    /\ LET r == task[t].resource
       IN  official' = [official EXCEPT ![r] = IF @ = None THEN None
                                                          ELSE task[t].record.snapshot]
    /\ task' = [task EXCEPT ![t] = NoTask]
    /\ UNCHANGED <<candidate, saved, late, errors, made, newest, probed, overlapped>>

\* get, all and eligible end the cooldowns that are over.
Refresh(r) ==
    /\ official[r] # None
    /\ official' = [official EXCEPT ![r] = Reopened(@)]
    /\ UNCHANGED <<candidate, runtime>>

ElapseIfAny(x) == IF x = None THEN None ELSE ElapseResource(x)
ElapseRecord(record) == [record EXCEPT !.snapshot = ElapseIfAny(@)]

\* Deadlines are instants: those of snapshots under way or saved come nearer too.
Tick ==
    /\ official' = [r \in Resources |-> ElapseIfAny(official[r])]
    /\ task' = [t \in Threads |-> [task[t] EXCEPT !.record = ElapseRecord(@)]]
    /\ saved' = [r \in Resources |-> ElapseRecord(saved[r])]
    /\ late' = {<<x[1], ElapseRecord(x[2])>> : x \in late}
    /\ made' = [r \in Resources |-> ElapseRecord(made[r])]
    /\ newest' = [r \in Resources |-> ElapseIfAny(newest[r])]
    /\ UNCHANGED <<candidate, errors, probed, overlapped>>

\* Only the Memory Fabric outlives the process, and the calls on their way to it.
Restart ==
    /\ candidate' = [c \in Candidates |-> NotSubmitted]
    /\ official' = [r \in Resources |-> Fresh(r)]
    /\ task' = [t \in Threads |-> NoTask]
    /\ late' = late \cup {<<task[t].resource, task[t].record>> :
                            t \in {u \in Threads : task[u].at = "saving"}}
    /\ errors' = FALSE
    /\ probed' = {}
    /\ overlapped' = {}
    /\ UNCHANGED <<saved, made, newest>>

Next ==
    \/ \E c \in Candidates :
         \/ Submit(c) \/ Validate(c) \/ Reject(c) \/ Deprecate(c) \/ Promote(c)
         \/ \E check \in Checks : AddEvidence(c, check)
    \/ \E t \in Threads :
         \/ \E r \in Resources : Apply(t, r) \/ LookUp(t, r)
         \/ Make(t) \/ Saved(t) \/ NotSaved(t) \/ Restore(t)
    \/ \E r \in Resources : Refresh(r)
    \/ Land
    \/ Tick
    \/ Restart

Spec == Init /\ [][Next]_vars

-----------------------------------------------------------------------------
(***************************************************************************)
(* A resource that is not in the catalog is in the registry only on the    *)
(* strength of a candidate with every class of evidence.                   *)
(***************************************************************************)
OfficialHasEvidence ==
    \A r \in Resources \ Catalog :
      official[r] # None =>
        \E c \in Candidates :
          /\ Draft[c] = r
          /\ candidate[c].status \in {"VALIDATED", "DEPRECATED"}
          /\ candidate[c].checks = Checks

(***************************************************************************)
(* "Live health belongs to authenticated/runtime probes, not research      *)
(* evidence": what is schedulable was observed, in this process or in the  *)
(* one that saved it.                                                      *)
(***************************************************************************)
SchedulableWasSeen ==
    \A r \in Resources :
      official[r] # None /\ Schedulable(official[r]) => newest[r] # None

\* Nobody is applying an observation of the resource.
Settled(r) ==
    \A t \in Threads :
      task[t].resource = r => task[t].at \notin {"applied", "saving"}

(***************************************************************************)
(* "Persistence errors are retained for diagnostics and later              *)
(* reconciliation": when the threads are done with a resource, the store   *)
(* finds the record that was made last, or the manager knows, whatever     *)
(* comes late; and that record is of the last observation, unless another  *)
(* was being applied at the same time, which may then be the one recorded  *)
(* last (nothing orders the two).                                          *)
(***************************************************************************)
LostSavesAreKnown ==
    \A r \in probed : Settled(r) =>
      /\ saved[r] # made[r] => errors
      /\ made[r].snapshot # newest[r] => r \in overlapped

=============================================================================
