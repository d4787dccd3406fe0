----------------------------- MODULE MemoryFabric -----------------------------
(***************************************************************************)
(* One logical record of the Memory Fabric (memory/fabric.py), the one a   *)
(* project is stored under: ProjectMemoryService.save, a client's write,   *)
(* and replicate, run by the threads of the HTTP server against several    *)
(* nodes.  A step is one request to one node.                              *)
(*                                                                         *)
(* A guarded node is Supabase: the adapter (memory/supabase.py) reads the  *)
(* row before it upserts, and the table's trigger                          *)
(* (supabase/schema/memory_fabric_v1.sql) checks again.  Any other node    *)
(* stores what it is given, as the provider of the tests does.             *)
(***************************************************************************)
EXTENDS Naturals, FiniteSets

CONSTANTS
    None,
    Threads,
    Nodes,          \* numbers, in the order the fabric sorts its nodes in
    Guarded,        \* the nodes that reject conflicting versions
    Writable,       \* the nodes that are not READ_ONLY
    Accepting,      \* the nodes that accept the record's privacy level
    Flaky,          \* the nodes a request may fail on, or reach after its timeout
    Corruptible,    \* the nodes whose copy may rot
    Sources,        \* what replicate may be told as its source: nodes or None
    ClientVersions, \* the versions of records clients write themselves
    Resending,      \* whether clients also send stored records again
    MaxRecords,     \* bound: the records ever created
    MaxLate         \* bound: the timed-out requests still on their way

ASSUME FabricAssumption ==
    /\ Nodes \subseteq Nat
    /\ Guarded \subseteq Nodes
    /\ Writable \subseteq Nodes
    /\ Accepting \subseteq Nodes
    /\ Flaky \subseteq Nodes
    /\ Corruptible \subseteq Nodes
    /\ Sources \subseteq Nodes \cup {None}
    /\ ClientVersions \subseteq Nat \ {0}
    /\ Resending \in BOOLEAN
    /\ None \notin Nodes
    /\ MaxRecords \in Nat
    /\ MaxLate \in Nat

VARIABLES
    store,    \* each node's copy
    task,     \* what each thread is doing
    late,     \* requests whose sender no longer waits for the answer
    created,  \* the records created so far: the last checksum in use
    acked     \* history: what write and replicate reported as stored, and where

vars == <<store, task, late, created, acked>>

\* What the fabric and the guards compare.  A record's checksum covers its content,
\* its version and its update time, so two records that were created separately
\* have different ones; a rotten copy no longer matches its own.
Record == [version : Nat, checksum : Nat, intact : BOOLEAN]

\* No record: the first version is 1.
Absent == [version |-> 0, checksum |-> 0, intact |-> FALSE]

\* The nodes a write goes to.
Eligible == Writable \cap Accepting

\* idle; reading the current record for a save; the two passes of a write; looking
\* for a replication source; copying it.
Places == {"idle", "read", "write", "confirm", "source", "copy"}
Writing == {"write", "confirm", "copy"}

Task == [at       : Places,
         todo     : SUBSET Nodes,      \* nodes the current loop has yet to visit
         rec      : Record,            \* the record in hand, or Absent
         fresh    : Nat,               \* the checksum a save will get
         source   : Nodes \cup {None}, \* source_provider_id
         posting  : BOOLEAN,           \* past the adapter's own version check
         ok       : SUBSET Nodes]      \* the nodes that accepted the record

Idle == [at |-> "idle", todo |-> {}, rec |-> Absent, fresh |-> 0, source |-> None,
         posting |-> FALSE, ok |-> {}]

Ack == [version : Nat, checksum : Nat, synced : SUBSET Nodes]

TypeOK ==
    /\ store \in [Nodes -> Record]
    /\ task \in [Threads -> Task]
    /\ late \subseteq [node : Nodes, rec : Record]
    /\ created \in 0 .. MaxRecords
    /\ acked \subseteq Ack

Init ==
    /\ store = [n \in Nodes |-> Absent]
    /\ task = [t \in Threads |-> Idle]
    /\ late = {}
    /\ created = 0
    /\ acked = {}

At(t, place) == task[t].at = place

\* The node thread t's loop visits next.
Visiting(t, n) == n \in task[t].todo /\ \A m \in task[t].todo : n <= m

Goto(t, next) == task' = [task EXCEPT ![t] = next]

\* Thread t is done with node n.
Leave(t, n) == [task[t] EXCEPT !.todo = @ \ {n}, !.posting = FALSE]

-----------------------------------------------------------------------------
\* MemoryFabric.write begins, or is refused because no node may take the record.
Write(t, version, checksum) ==
    Goto(t, IF Eligible = {}
            THEN Idle
            ELSE [Idle EXCEPT !.at = "write", !.todo = Eligible,
                              !.rec = [version |-> version, checksum |-> checksum,
                                       intact |-> TRUE]])

StartSave(t) ==
    /\ At(t, "idle")
    /\ created < MaxRecords
    /\ created' = created + 1
    /\ Goto(t, [Idle EXCEPT !.at = "read", !.todo = Nodes, !.fresh = created + 1])
    /\ UNCHANGED <<store, late, acked>>

\* A copy read() returns: present, with a valid checksum.
Usable(c) == c # Absent /\ c.intact

\* MemoryRecord.create, and next_version of a record that is there.
FirstVersion == 1
NextVersion(current) == current.version + 1

\* MemoryFabric.read, one node after the other: an unreachable node and a copy that
\* is absent or rotten are passed over; the first usable copy is the current record.
ReadNode(t) ==
    /\ At(t, "read")
    /\ \E n \in Nodes :
         /\ Visiting(t, n)
         /\ \/ /\ n \in Flaky \/ ~Usable(store[n])
               /\ Goto(t, Leave(t, n))
            \/ /\ Usable(store[n])
               /\ Write(t, NextVersion(store[n]), task[t].fresh)
    /\ UNCHANGED <<store, late, created, acked>>

\* No node gave a record: the save creates the project's first version.
CreateFirst(t) ==
    /\ At(t, "read")
    /\ task[t].todo = {}
    /\ Write(t, FirstVersion, task[t].fresh)
    /\ UNCHANGED <<store, late, created, acked>>

\* POST /v1/memory/write: the client says which version its record has.
StartClientWrite(t) ==
    /\ At(t, "idle")
    /\ created < MaxRecords
    /\ created' = created + 1
    /\ \E v \in ClientVersions : Write(t, v, created + 1)
    /\ UNCHANGED <<store, late, acked>>

\* The same, with a record that was stored before: a client that lost the answer, or
\* sends back what it read.
StartResend(t) ==
    /\ Resending
    /\ At(t, "idle")
    /\ \E a \in acked : Write(t, a.version, a.checksum)
    /\ UNCHANGED <<store, late, created, acked>>

-----------------------------------------------------------------------------
\* A version regression, or another record under the same version.
Conflicts(current, rec) ==
    /\ current # Absent
    /\ \/ rec.version < current.version
       \/ rec.version = current.version /\ rec.checksum # current.checksum

\* The adapter's check, before it upserts.
AdapterRejects(current, rec) == Conflicts(current, rec)

\* A bug: the schema is set up without its trigger.
TriggerMissing(current, rec) == FALSE

\* A bug: the trigger only looks for regressions.
TriggerForRegressions(current, rec) ==
    current # Absent /\ rec.version < current.version

\* The table's trigger, when it does.
TriggerRejects(current, rec) == Conflicts(current, rec)

\* The adapter reads the row of a guarded node.
CheckNode(t) ==
    /\ task[t].at \in Writing
    /\ ~task[t].posting
    /\ \E n \in Guarded :
         /\ Visiting(t, n)
         /\ \/ /\ n \in Flaky \/ AdapterRejects(store[n], task[t].rec)
               /\ Goto(t, Leave(t, n))
            \/ /\ ~AdapterRejects(store[n], task[t].rec)
               /\ Goto(t, [task[t] EXCEPT !.posting = TRUE])
    /\ UNCHANGED <<store, late, created, acked>>

\* A node gets a request to store rec.
Stored(n, rec) ==
    IF n \in Guarded /\ TriggerRejects(store[n], rec)
    THEN store ELSE [store EXCEPT ![n] = rec]

\* The thread's record is stored, refused, or its request times out and may still
\* reach the node.
PostNode(t) ==
    /\ task[t].at \in Writing
    /\ \E n \in Nodes :
         LET rec == task[t].rec
         IN  /\ Visiting(t, n)
             /\ task[t].posting \/ n \notin Guarded
             /\ \/ /\ n \in Flaky
                   /\ \/ UNCHANGED late
                      \/ /\ Cardinality(late) < MaxLate
                         /\ late' = late \cup {[node |-> n, rec |-> rec]}
                   /\ Goto(t, Leave(t, n))
                   /\ UNCHANGED store
                \/ /\ n \in Guarded
                   /\ TriggerRejects(store[n], rec)
                   /\ Goto(t, Leave(t, n))
                   /\ UNCHANGED <<store, late>>
                \/ /\ ~(n \in Guarded /\ TriggerRejects(store[n], rec))
                   /\ store' = Stored(n, rec)
                   /\ Goto(t, [Leave(t, n) EXCEPT !.ok = @ \cup {n}])
                   /\ UNCHANGED late
    /\ UNCHANGED <<created, acked>>

\* The nodes a write goes to a second time, with the replication state.
Confirmed(t) == task[t].ok

\* After the first pass: nobody took the record, or those who did get it again with
\* its replication_state, which the checksum does not cover.
EndWrite(t) ==
    /\ At(t, "write")
    /\ task[t].todo = {}
    /\ Goto(t, IF task[t].ok = {}
               THEN Idle
               ELSE [task[t] EXCEPT !.at = "confirm", !.todo = Confirmed(t)])
    /\ UNCHANGED <<store, late, created, acked>>

\* A bug: every node the record was meant for is reported as synced.
ReportEligible(t) ==
    acked' = acked \cup {[version |-> task[t].rec.version,
                          checksum |-> task[t].rec.checksum,
                          synced |-> Eligible]}

\* What the caller is told: the record is "synced" on the nodes in ok.
Report(t) ==
    acked' = acked \cup {[version |-> task[t].rec.version,
                          checksum |-> task[t].rec.checksum,
                          synced |-> task[t].ok]}

\* write returns, or replicate does.
Finish(t) ==
    /\ task[t].at \in {"confirm", "copy"}
    /\ task[t].todo = {}
    /\ Report(t)
    /\ Goto(t, Idle)
    /\ UNCHANGED <<store, late, created>>

-----------------------------------------------------------------------------
StartReplicate(t) ==
    /\ At(t, "idle")
    /\ \E s \in Sources :
         Goto(t, [Idle EXCEPT !.at = "source", !.source = s,
                              !.todo = IF s = None THEN Nodes ELSE {s}])
    /\ UNCHANGED <<store, late, created, acked>>

\* A bug: the source is among the targets, named or not.
TargetsWithSource(t) == Eligible \cup {task[t].source}

\* The nodes a source goes to: not to itself if the caller named it.
Targets(t) == Eligible \ {task[t].source}

\* replicate looks for a usable copy.  What it read last stays in its hands.
ScanSource(t) ==
    /\ At(t, "source")
    /\ \E n \in Nodes :
         /\ Visiting(t, n)
         /\ \/ /\ n \in Flaky
               /\ Goto(t, Leave(t, n))
            \/ /\ ~Usable(store[n])
               /\ Goto(t, [Leave(t, n) EXCEPT !.rec = store[n]])
            \/ /\ Usable(store[n])
               /\ Goto(t, [task[t] EXCEPT !.at = "copy", !.rec = store[n],
                                          !.todo = Targets(t), !.source = None])
    /\ UNCHANGED <<store, late, created, acked>>

\* No usable copy: replicate goes on with the last one it read, if any.
EndScan(t) ==
    /\ At(t, "source")
    /\ task[t].todo = {}
    /\ Goto(t, IF task[t].rec = Absent
               THEN Idle
               ELSE [task[t] EXCEPT !.at = "copy", !.todo = Targets(t),
                                       !.source = None])
    /\ UNCHANGED <<store, late, created, acked>>

-----------------------------------------------------------------------------
\* A request its sender gave up on reaches the node.
Deliver ==
    /\ \E l \in late : /\ store' = Stored(l.node, l.rec)
                       /\ late' = late \ {l}
    /\ UNCHANGED <<task, created, acked>>

\* A copy rots: its content no longer matches its checksum.
Corrupt(n) ==
    /\ Usable(store[n])
    /\ store' = [store EXCEPT ![n].intact = FALSE]
    /\ UNCHANGED <<task, late, created, acked>>

\* The process restarts: every call is forgotten, but a request it was about to
\* send may be on its way.
Restart ==
    /\ \/ UNCHANGED late
       \/ /\ Cardinality(late) < MaxLate
          /\ \E t \in Threads, n \in Nodes :
               /\ task[t].posting
               /\ Visiting(t, n)
               /\ late' = late \cup {[node |-> n, rec |-> task[t].rec]}
    /\ task' = [t \in Threads |-> Idle]
    /\ UNCHANGED <<store, created, acked>>

Advance(t) ==
    \/ ReadNode(t) \/ CreateFirst(t) \/ CheckNode(t) \/ PostNode(t)
    \/ EndWrite(t) \/ Finish(t) \/ ScanSource(t) \/ EndScan(t)

Next ==
    \/ \E t \in Threads :
         \/ StartSave(t) \/ StartClientWrite(t) \/ StartResend(t)
         \/ StartReplicate(t) \/ Advance(t)
    \/ Deliver
    \/ \E n \in Corruptible : Corrupt(n)
    \/ Restart

Spec == Init /\ [][Next]_vars

-----------------------------------------------------------------------------
\* Node n still has what a says it has, or something newer.
Keeps(n, a) ==
    \/ store[n].version > a.version
    \/ store[n].version = a.version /\ store[n].checksum = a.checksum

(***************************************************************************)
(* What write and replicate report as stored on a guarded node stays       *)
(* there: no other save, no second pass of an older one, no replication of *)
(* an older or rotten copy and no late request replaces it by something    *)
(* older or by another record of its version.                              *)
(***************************************************************************)
ReportedIsKept == \A a \in acked : \A n \in a.synced \cap Guarded : Keeps(n, a)

(***************************************************************************)
(* Two saves that were reported as stored on the same guarded node under   *)
(* the same version are the same save: of two that read the same version,  *)
(* one fails there.                                                        *)
(***************************************************************************)
OneRecordPerVersion ==
    \A a, b \in acked :
      a.version = b.version /\ a.synced \cap b.synced \cap Guarded # {}
        => a.checksum = b.checksum

(***************************************************************************)
(* "Corrupted copies are skipped so a healthy replica can win": a healthy  *)
(* copy may rot, but no request replaces it by a rotten one.               *)
(***************************************************************************)
HealthyReplicaWins ==
    [][\A n \in Nodes :
         Usable(store[n]) /\ ~Usable(store'[n]) => Corrupt(n)]_vars

(***************************************************************************)
(* The fabric of concurrent saves, second passes, replications, timeouts   *)
(* and restarts implements VersionedRegister on the guarded nodes.         *)
(***************************************************************************)
GuardedCopies ==
    [n \in Guarded |-> [version |-> store[n].version, checksum |-> store[n].checksum]]

Promises ==
    UNION {{[node |-> n, version |-> a.version, checksum |-> a.checksum] :
              n \in a.synced \cap Guarded} : a \in acked}

Register == INSTANCE VersionedRegister
                WITH Nodes <- Guarded, copy <- GuardedCopies, promised <- Promises

ImplementsRegister == Register!Spec
=============================================================================
