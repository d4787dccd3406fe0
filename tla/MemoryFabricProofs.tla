-------------------------- MODULE MemoryFabricProofs --------------------------
(***************************************************************************)
(* What a guarded node was reported to have is not lost, and names one     *)
(* record: for any number of nodes, threads, records and late requests,    *)
(* whatever fails, rots or restarts.                                       *)
(***************************************************************************)
EXTENDS MemoryFabric, TLAPS

\* Node n accepted the record with version v and checksum c from a write that was
\* reported, or is still going on.
Landed(n, v, c) ==
    \/ \E a \in acked : n \in a.synced /\ a.version = v /\ a.checksum = c
    \/ \E t \in Threads : /\ n \in task[t].ok
                          /\ task[t].rec.version = v
                          /\ task[t].rec.checksum = c

\* Node n has that record, or a newer one.
Has(n, v, c) ==
    store[n].version > v \/ (store[n].version = v /\ store[n].checksum = c)

\* A record that exists has a positive version.
Genuine(r) == r = Absent \/ r.version > 0

TaskOK(k) ==
    /\ Genuine(k.rec)
    /\ k.at \in Writing => k.rec.version > 0
    /\ k.ok # {} \/ k.posting => k.at \in Writing

Landings ==
    \A n \in Guarded, v, c \in Nat :
      Landed(n, v, c) =>
        /\ v > 0
        /\ Has(n, v, c)
        /\ \A d \in Nat : Landed(n, v, d) => c = d

FabricInv ==
    /\ TypeOK
    /\ \A n \in Nodes : Genuine(store[n])
    /\ \A l \in late : l.rec.version > 0
    /\ \A a \in acked : a.version > 0
    /\ \A t \in Threads : TaskOK(task[t])
    /\ Landings

-----------------------------------------------------------------------------
LEMMA IdleOK == Idle \in Task /\ TaskOK(Idle)
BY FabricAssumption DEF Idle, Task, TaskOK, Genuine, Absent, Record, Places, Writing

LEMMA InitFabricInv == Init => FabricInv
<1> SUFFICES ASSUME Init PROVE FabricInv
  OBVIOUS
<1>1. TypeOK
  BY IdleOK, FabricAssumption DEF Init, TypeOK, Record, Absent
<1>2. \A n \in Guarded, v, c \in Nat : ~Landed(n, v, c)
  BY DEF Init, Landed, Idle
<1> QED
  BY <1>1, <1>2, IdleOK, FabricAssumption DEF Init, FabricInv, Landings, Genuine

(***************************************************************************)
(* A step that stores nothing new keeps the landings, if the tasks claim   *)
(* no node they did not claim before and the copies keep their versions.   *)
(***************************************************************************)
LEMMA QuietStep ==
    ASSUME FabricInv,
           \A n \in Guarded : /\ store'[n].version = store[n].version
                              /\ store'[n].checksum = store[n].checksum,
           \A n \in Guarded, v, c \in Nat : Landed(n, v, c)' => Landed(n, v, c)
    PROVE  Landings'
BY DEF FabricInv, Landings, Has

\* A guarded node keeps what it has when it is asked to store a record.
LEMMA StoredHas ==
    ASSUME FabricInv, NEW m \in Nodes, NEW rec \in Record, rec.version > 0,
           store' = Stored(m, rec), NEW n \in Guarded, NEW v \in Nat, NEW c \in Nat,
           v > 0, Has(n, v, c)
    PROVE  Has(n, v, c)'
<1>1. store[n] \in Record /\ n \in Nodes /\ store \in [Nodes -> Record]
  BY FabricAssumption DEF FabricInv, TypeOK
<1>2. CASE n # m \/ TriggerRejects(store[m], rec)
  <2>1. store'[n] = store[n]
    BY <1>1, <1>2 DEF Stored
  <2> QED
    BY <2>1 DEF Has
<1>3. CASE n = m /\ ~TriggerRejects(store[m], rec)
  <2>1. store'[n] = rec
    BY <1>1, <1>3 DEF Stored
  <2>2. store[n] # Absent
    BY <1>1 DEF Has, Absent
  <2>3. rec.version > store[n].version
        \/ (rec.version = store[n].version /\ rec.checksum = store[n].checksum)
    BY <1>1, <1>3, <2>2 DEF TriggerRejects, Conflicts, Record
  <2> QED
    BY <1>1, <2>1, <2>3 DEF Has, Record
<1> QED
  BY <1>2, <1>3

\* A record a guarded node accepts has no rival among those that landed there.
LEMMA AcceptedIsUnique ==
    ASSUME FabricInv, NEW n \in Guarded, NEW rec \in Record, rec.version > 0,
           ~TriggerRejects(store[n], rec), NEW c \in Nat, Landed(n, rec.version, c)
    PROVE  c = rec.checksum
<1>1. store[n] \in Record /\ rec.version \in Nat
  BY FabricAssumption DEF FabricInv, TypeOK, Record
<1>2. Has(n, rec.version, c)
  BY <1>1 DEF FabricInv, Landings
<1>3. store[n] # Absent
  BY <1>1, <1>2 DEF Has, Absent
<1>4. rec.version > store[n].version
      \/ (rec.version = store[n].version /\ rec.checksum = store[n].checksum)
  BY <1>1, <1>3 DEF TriggerRejects, Conflicts, Record
<1> QED
  BY <1>1, <1>2, <1>4 DEF Has, Record

-----------------------------------------------------------------------------
(***************************************************************************)
(* A thread goes on to another frame and nothing else changes but the      *)
(* count of records.                                                       *)
(***************************************************************************)
LEMMA FrameStep ==
    ASSUME FabricInv, NEW t \in Threads, NEW k \in Task, TaskOK(k), Goto(t, k),
           k.ok = {} \/ (k.ok = task[t].ok /\ k.rec = task[t].rec),
           UNCHANGED <<store, late, acked>>, created' \in 0 .. MaxRecords
    PROVE  FabricInv'
<1>1. task' \in [Threads -> Task] /\ task'[t] = k
      /\ \A u \in Threads \ {t} : task'[u] = task[u]
  BY DEF Goto, FabricInv, TypeOK
<1>2. \A n \in Guarded, v, c \in Nat : Landed(n, v, c)' => Landed(n, v, c)
  BY <1>1 DEF Landed
<1>3. Landings'
  BY <1>2, QuietStep
<1> QED
  BY <1>1, <1>3 DEF FabricInv, TypeOK, TaskOK

\* The frame a write begins with, for a record that is new.
LEMMA WriteStep ==
    ASSUME FabricInv, NEW t \in Threads, NEW v \in Nat \ {0}, NEW c \in Nat,
           Write(t, v, c), UNCHANGED <<store, late, acked>>,
           created' \in 0 .. MaxRecords
    PROVE  FabricInv'
<1> DEFINE r == [version |-> v, checksum |-> c, intact |-> TRUE]
           k == [Idle EXCEPT !.at = "write", !.todo = Eligible, !.rec = r]
<1>1. r \in Record /\ r.version > 0
  BY DEF Record
<1>2. Eligible \in SUBSET Nodes
  BY FabricAssumption DEF Eligible
<1>3. k \in Task /\ TaskOK(k) /\ k.ok = {}
  <2>1. k.at = "write" /\ k.rec = r /\ k.ok = {}
    BY DEF Idle
  <2> HIDE DEF r
  <2>2. k \in Task
    BY <1>1, <1>2, IdleOK DEF Task, Places
  <2> QED
    BY <1>1, <2>1, <2>2 DEF TaskOK, Genuine, Writing
<1>4. CASE Eligible = {}
  BY <1>4, IdleOK, FrameStep DEF Write, Idle
<1>5. CASE Eligible # {}
  <2>1. Goto(t, k)
    BY <1>5 DEF Write
  <2> QED
    BY <1>3, <2>1, FrameStep
<1> QED
  BY <1>4, <1>5

LEMMA SaveStep ==
    ASSUME FabricInv, NEW t \in Threads,
           StartSave(t) \/ ReadNode(t) \/ CreateFirst(t)
             \/ StartClientWrite(t) \/ StartResend(t)
    PROVE  FabricInv'
<1>1. task[t] \in Task /\ TaskOK(task[t]) /\ created \in Nat /\ MaxRecords \in Nat
      /\ created \in 0 .. MaxRecords
  BY FabricAssumption DEF FabricInv, TypeOK
<1>2. CASE StartSave(t)
  <2> DEFINE fresh == created + 1
             k == [Idle EXCEPT !.at = "read", !.todo = Nodes, !.fresh = fresh]
  <2>1. fresh \in Nat /\ fresh \in 0 .. MaxRecords
    BY <1>1, <1>2 DEF StartSave
  <2>2. Goto(t, k) /\ created' = fresh
    BY <1>2 DEF StartSave
  <2> HIDE DEF fresh
  <2>3. k \in Task /\ k.ok = {} /\ k.rec = Absent /\ k.at = "read" /\ ~k.posting
    BY <2>1, IdleOK DEF Task, Places, Idle
  <2>4. TaskOK(k)
    BY <2>3 DEF TaskOK, Genuine, Writing
  <2> QED
    BY <1>2, <2>1, <2>2, <2>3, <2>4, FrameStep DEF StartSave
<1>3. CASE ReadNode(t)
  <2>1. PICK n \in Nodes :
          \/ Goto(t, Leave(t, n))
          \/ Usable(store[n]) /\ Write(t, store[n].version + 1, task[t].fresh)
    BY <1>3 DEF ReadNode, NextVersion
  <2>2. UNCHANGED <<store, late, created, acked>> /\ task[t].at = "read"
    BY <1>3 DEF ReadNode, At
  <2>3. CASE Goto(t, Leave(t, n))
    <3>1. Leave(t, n) \in Task /\ TaskOK(Leave(t, n))
          /\ Leave(t, n).ok = task[t].ok /\ Leave(t, n).rec = task[t].rec
      BY <1>1 DEF Leave, Task, TaskOK
    <3> QED
      BY <1>1, <2>2, <2>3, <3>1, FrameStep
  <2>4. CASE Write(t, store[n].version + 1, task[t].fresh)
    <3>1. store[n].version + 1 \in Nat \ {0} /\ task[t].fresh \in Nat
      BY <1>1 DEF FabricInv, TypeOK, Record, Task
    <3> QED
      BY <1>1, <2>2, <2>4, <3>1, WriteStep
  <2> QED
    BY <2>1, <2>3, <2>4
<1>4. CASE CreateFirst(t)
  <2>1. task[t].fresh \in Nat
    BY <1>1 DEF Task
  <2> QED
    BY <1>1, <1>4, <2>1, WriteStep DEF CreateFirst, FirstVersion
<1>5. CASE StartClientWrite(t)
  <2>1. PICK v \in ClientVersions : Write(t, v, created + 1)
    BY <1>5 DEF StartClientWrite
  <2>2. v \in Nat \ {0} /\ created + 1 \in Nat
    BY <1>1, FabricAssumption
  <2>3. created' \in 0 .. MaxRecords
    BY <1>1, <1>5 DEF StartClientWrite
  <2> QED
    BY <1>5, <2>1, <2>2, <2>3, WriteStep DEF StartClientWrite
<1>6. CASE StartResend(t)
  <2>1. PICK a \in acked : Write(t, a.version, a.checksum)
    BY <1>6 DEF StartResend
  <2>2. a.version \in Nat \ {0} /\ a.checksum \in Nat
    BY DEF FabricInv, TypeOK, Ack
  <2> QED
    BY <1>1, <1>6, <2>1, <2>2, WriteStep DEF StartResend
<1> QED
  BY <1>2, <1>3, <1>4, <1>5, <1>6

LEMMA LoopStep ==
    ASSUME FabricInv, NEW t \in Threads, CheckNode(t) \/ EndWrite(t)
    PROVE  FabricInv'
<1>1. task[t] \in Task /\ TaskOK(task[t]) /\ created \in 0 .. MaxRecords
  BY DEF FabricInv, TypeOK
<1>2. UNCHANGED <<store, late, created, acked>>
  BY DEF CheckNode, EndWrite
<1>3. CASE CheckNode(t)
  <2>1. PICK n \in Guarded :
          \/ Goto(t, Leave(t, n))
          \/ Goto(t, [task[t] EXCEPT !.posting = TRUE])
    BY <1>3 DEF CheckNode
  <2>2. Leave(t, n) \in Task /\ TaskOK(Leave(t, n))
        /\ Leave(t, n).ok = task[t].ok /\ Leave(t, n).rec = task[t].rec
    BY <1>1 DEF Leave, Task, TaskOK
  <2> DEFINE k == [task[t] EXCEPT !.posting = TRUE]
  <2>3. k \in Task /\ TaskOK(k) /\ k.ok = task[t].ok /\ k.rec = task[t].rec
    BY <1>1, <1>3 DEF CheckNode, Task, TaskOK
  <2> HIDE DEF k
  <2>4. Goto(t, Leave(t, n)) \/ Goto(t, k)
    BY <2>1 DEF k
  <2> QED
    BY <1>1, <1>2, <2>2, <2>3, <2>4, FrameStep
<1>4. CASE EndWrite(t)
  <2> DEFINE k == [task[t] EXCEPT !.at = "confirm", !.todo = Confirmed(t)]
  <2>1. k \in Task /\ k.ok = task[t].ok /\ k.rec = task[t].rec /\ k.at = "confirm"
    BY <1>1 DEF Task, Confirmed, Places
  <2>2. task[t].rec.version > 0 /\ TaskOK(k)
    BY <1>1, <1>4, <2>1 DEF EndWrite, At, TaskOK, Writing
  <2> HIDE DEF k
  <2>3. Goto(t, Idle) \/ Goto(t, k)
    BY <1>4 DEF EndWrite, k
  <2> QED
    BY <1>1, <1>2, <2>1, <2>2, <2>3, IdleOK, FrameStep DEF Idle
<1> QED
  BY <1>3, <1>4

\* The frames a replication goes through before it copies anything.
LEMMA SourceStep ==
    ASSUME FabricInv, NEW t \in Threads, StartReplicate(t) \/ ScanSource(t) \/ EndScan(t)
    PROVE  FabricInv'
<1>1. task[t] \in Task /\ TaskOK(task[t]) /\ created \in 0 .. MaxRecords
  BY DEF FabricInv, TypeOK
<1>2. UNCHANGED <<store, late, created, acked>>
  BY DEF StartReplicate, ScanSource, EndScan
<1>3. CASE StartReplicate(t)
  <2>1. PICK s \in Sources :
          Goto(t, [Idle EXCEPT !.at = "source", !.source = s,
                               !.todo = IF s = None THEN Nodes ELSE {s}])
    BY <1>3 DEF StartReplicate
  <2> DEFINE todo == IF s = None THEN Nodes ELSE {s}
             k == [Idle EXCEPT !.at = "source", !.source = s, !.todo = todo]
  <2>2. todo \in SUBSET Nodes /\ s \in Nodes \cup {None}
    BY FabricAssumption
  <2> HIDE DEF todo
  <2>3. k \in Task /\ k.ok = {} /\ k.rec = Absent /\ k.at = "source" /\ ~k.posting
    BY <2>2, IdleOK DEF Task, Places, Idle
  <2>4. TaskOK(k)
    BY <2>3 DEF TaskOK, Genuine, Writing
  <2>5. Goto(t, k)
    BY <2>1 DEF todo
  <2> QED
    BY <1>1, <1>2, <2>3, <2>4, <2>5, FrameStep
<1>4. task[t].ok = {} /\ Targets(t) \in SUBSET Nodes
  BY <1>1, FabricAssumption, <1>3 DEF Targets, Eligible, TaskOK, StartReplicate,
     ScanSource, EndScan, At, Writing
<1>5. CASE ScanSource(t)
  <2>1. PICK n \in Nodes :
          \/ Goto(t, Leave(t, n))
          \/ Goto(t, [Leave(t, n) EXCEPT !.rec = store[n]])
          \/ /\ Usable(store[n])
             /\ Goto(t, [task[t] EXCEPT !.at = "copy", !.rec = store[n],
                                        !.todo = Targets(t), !.source = None])
    BY <1>5 DEF ScanSource
  <2> DEFINE j == Leave(t, n)
             k == [Leave(t, n) EXCEPT !.rec = store[n]]
             l == [task[t] EXCEPT !.at = "copy", !.rec = store[n],
                                  !.todo = Targets(t), !.source = None]
  <2>2. store[n] \in Record /\ Genuine(store[n]) /\ task[t].at = "source"
    BY <1>5 DEF FabricInv, TypeOK, ScanSource, At
  <2>3. j \in Task /\ TaskOK(j) /\ j.ok = {} /\ j.at = "source"
    BY <1>1, <1>4, <2>2 DEF Leave, Task, TaskOK
  <2>4. k \in Task /\ TaskOK(k) /\ k.ok = {}
    BY <2>2, <2>3 DEF Task, TaskOK, Writing
  <2>5. l \in Task /\ l.ok = {} /\ l.rec = store[n] /\ l.at = "copy"
    BY <1>1, <1>4, <2>2 DEF Task, Places
  <2>6. Usable(store[n]) => TaskOK(l)
    BY <2>2, <2>5 DEF TaskOK, Usable, Genuine, Writing
  <2> HIDE DEF j, k, l
  <2>7. Goto(t, j) \/ Goto(t, k) \/ (Usable(store[n]) /\ Goto(t, l))
    BY <2>1 DEF j, k, l
  <2> QED
    BY <1>1, <1>2, <2>3, <2>4, <2>5, <2>6, <2>7, FrameStep
<1>6. CASE EndScan(t)
  <2> DEFINE k == [task[t] EXCEPT !.at = "copy", !.todo = Targets(t), !.source = None]
  <2>1. k \in Task /\ k.ok = {} /\ k.rec = task[t].rec /\ k.at = "copy"
    BY <1>1, <1>4 DEF Task, Places
  <2>2. task[t].rec # Absent => TaskOK(k)
    BY <1>1, <2>1 DEF TaskOK, Genuine, Writing
  <2> HIDE DEF k
  <2>3. Goto(t, Idle) \/ (task[t].rec # Absent /\ Goto(t, k))
    BY <1>6 DEF EndScan, k
  <2> QED
    BY <1>1, <1>2, <2>1, <2>2, <2>3, IdleOK, FrameStep DEF Idle
<1> QED
  BY <1>3, <1>5, <1>6

-----------------------------------------------------------------------------
(***************************************************************************)
(* The steps that store.  A thread that hears its record was accepted adds *)
(* a landing; it has no rival and the node has it.                         *)
(***************************************************************************)
LEMMA AcceptStep ==
    ASSUME FabricInv, NEW t \in Threads, NEW m \in Nodes, NEW rec \in Record,
           rec = task[t].rec, rec.version > 0, task[t].at \in Writing,
           ~(m \in Guarded /\ TriggerRejects(store[m], rec)),
           store' = Stored(m, rec),
           Goto(t, [Leave(t, m) EXCEPT !.ok = @ \cup {m}]),
           UNCHANGED <<late, created, acked>>
    PROVE  FabricInv'
<1> DEFINE k == [Leave(t, m) EXCEPT !.ok = @ \cup {m}]
<1>1. task[t] \in Task /\ TaskOK(task[t]) /\ store \in [Nodes -> Record]
  BY DEF FabricInv, TypeOK
<1>2. k \in Task /\ k.ok = task[t].ok \cup {m} /\ k.rec = rec /\ k.at = task[t].at
  BY <1>1 DEF Leave, Task
<1>3. TaskOK(k)
  BY <1>2 DEF TaskOK, Genuine
<1> HIDE DEF k
<1>4. task' \in [Threads -> Task] /\ task'[t] = k
      /\ \A u \in Threads \ {t} : task'[u] = task[u]
  BY <1>2 DEF Goto, k, FabricInv, TypeOK
<1>5. store' = [store EXCEPT ![m] = rec]
  BY DEF Stored
<1>6. TypeOK'
  BY <1>1, <1>4, <1>5 DEF FabricInv, TypeOK
<1>7. \A n \in Nodes : Genuine(store'[n])
  BY <1>1, <1>5 DEF FabricInv, Genuine
<1>8. ASSUME NEW n \in Guarded, NEW v \in Nat, NEW c \in Nat, Landed(n, v, c)'
      PROVE  Landed(n, v, c) \/ (n = m /\ v = rec.version /\ c = rec.checksum)
  BY <1>2, <1>4, <1>8 DEF Landed
<1>9. ASSUME NEW n \in Guarded, NEW v \in Nat, NEW c \in Nat, Landed(n, v, c)'
      PROVE  v > 0 /\ Has(n, v, c)'
  <2>1. CASE Landed(n, v, c)
    BY <2>1, StoredHas DEF FabricInv, Landings
  <2>2. CASE n = m /\ v = rec.version /\ c = rec.checksum
    BY <1>1, <1>5, <2>2 DEF Has
  <2> QED
    BY <1>8, <1>9, <2>1, <2>2
<1>10. ASSUME NEW n \in Guarded, NEW v \in Nat, NEW c \in Nat, NEW d \in Nat,
              Landed(n, v, c)', Landed(n, v, d)'
       PROVE  c = d
  <2>1. CASE Landed(n, v, c) /\ Landed(n, v, d)
    BY <2>1 DEF FabricInv, Landings
  <2>2. Landed(n, v, c) \/ (n = m /\ v = rec.version /\ c = rec.checksum)
    BY <1>8, <1>10
  <2>3. Landed(n, v, d) \/ (n = m /\ v = rec.version /\ d = rec.checksum)
    BY <1>8, <1>10
  <2> QED
    BY <2>1, <2>2, <2>3, AcceptedIsUnique
<1>11. Landings'
  BY <1>9, <1>10 DEF Landings
<1> QED
  BY <1>3, <1>4, <1>6, <1>7, <1>11 DEF FabricInv

LEMMA PostStep ==
    ASSUME FabricInv, NEW t \in Threads, PostNode(t)
    PROVE  FabricInv'
<1>1. task[t] \in Task /\ TaskOK(task[t]) /\ task[t].at \in Writing
      /\ task[t].rec \in Record /\ task[t].rec.version > 0
  BY DEF FabricInv, TypeOK, PostNode, TaskOK, Task
<1> DEFINE rec == task[t].rec
<1>2. PICK m \in Nodes :
        \/ /\ late' \in {late, late \cup {[node |-> m, rec |-> rec]}}
           /\ Goto(t, Leave(t, m))
           /\ UNCHANGED store
        \/ /\ ~(m \in Guarded /\ TriggerRejects(store[m], rec))
           /\ store' = Stored(m, rec)
           /\ Goto(t, [Leave(t, m) EXCEPT !.ok = @ \cup {m}])
           /\ UNCHANGED late
  BY DEF PostNode
<1>3. UNCHANGED <<created, acked>>
  BY DEF PostNode
<1>4. CASE /\ late' \in {late, late \cup {[node |-> m, rec |-> rec]}}
           /\ Goto(t, Leave(t, m))
           /\ UNCHANGED store
  <2>1. Leave(t, m) \in Task /\ TaskOK(Leave(t, m))
        /\ Leave(t, m).ok = task[t].ok /\ Leave(t, m).rec = task[t].rec
    BY <1>1 DEF Leave, Task, TaskOK
  <2>2. task' \in [Threads -> Task] /\ task'[t] = Leave(t, m)
        /\ \A u \in Threads \ {t} : task'[u] = task[u]
    BY <1>4, <2>1 DEF Goto, FabricInv, TypeOK
  <2>3. \A n \in Guarded, v, c \in Nat : Landed(n, v, c)' => Landed(n, v, c)
    BY <1>3, <2>1, <2>2 DEF Landed
  <2>4. Landings'
    BY <1>4, <2>3, QuietStep
  <2>5. late' \subseteq [node : Nodes, rec : Record] /\ \A l \in late' : l.rec.version > 0
    BY <1>1, <1>4 DEF FabricInv, TypeOK
  <2> QED
    BY <1>3, <1>4, <2>1, <2>2, <2>4, <2>5 DEF FabricInv, TypeOK
<1>5. CASE /\ ~(m \in Guarded /\ TriggerRejects(store[m], rec))
           /\ store' = Stored(m, rec)
           /\ Goto(t, [Leave(t, m) EXCEPT !.ok = @ \cup {m}])
           /\ UNCHANGED late
  BY <1>1, <1>3, <1>5, AcceptStep
<1> QED
  BY <1>2, <1>4, <1>5

LEMMA DeliverStep ==
    ASSUME FabricInv, Deliver
    PROVE  FabricInv'
<1>1. PICK l \in late : store' = Stored(l.node, l.rec) /\ late' = late \ {l}
  BY DEF Deliver
<1>2. UNCHANGED <<task, created, acked>>
  BY DEF Deliver
<1>3. l.node \in Nodes /\ l.rec \in Record /\ l.rec.version > 0
      /\ store \in [Nodes -> Record]
  BY DEF FabricInv, TypeOK
<1>4. store' \in [Nodes -> Record] /\ \A n \in Nodes : Genuine(store'[n])
  BY <1>1, <1>3 DEF FabricInv, Stored, Genuine
<1>5. \A n \in Guarded, v, c \in Nat : Landed(n, v, c)' = Landed(n, v, c)
  BY <1>2 DEF Landed
<1>6. ASSUME NEW n \in Guarded, NEW v \in Nat, NEW c \in Nat, Landed(n, v, c)
      PROVE  v > 0 /\ Has(n, v, c)' /\ \A d \in Nat : Landed(n, v, d) => c = d
  <2>1. v > 0 /\ Has(n, v, c) /\ \A d \in Nat : Landed(n, v, d) => c = d
    BY <1>6 DEF FabricInv, Landings
  <2> QED
    BY <1>1, <1>3, <2>1, StoredHas
<1>7. Landings'
  BY <1>5, <1>6 DEF Landings
<1> QED
  BY <1>1, <1>2, <1>4, <1>7 DEF FabricInv, TypeOK

-----------------------------------------------------------------------------
\* What a thread reports has landed already.
LEMMA FinishStep ==
    ASSUME FabricInv, NEW t \in Threads, Finish(t)
    PROVE  FabricInv'
<1> DEFINE a == [version |-> task[t].rec.version, checksum |-> task[t].rec.checksum,
                 synced |-> task[t].ok]
<1>1. task[t] \in Task
  BY DEF FabricInv, TypeOK
<1>2. a \in Ack /\ a.version > 0
  BY <1>1 DEF Ack, Task, Record, FabricInv, TaskOK, Finish, Writing
<1>3. acked' = acked \cup {a} /\ Goto(t, Idle) /\ UNCHANGED <<store, late, created>>
  BY DEF Finish, Report
<1>4. task' \in [Threads -> Task] /\ task'[t] = Idle
      /\ \A u \in Threads \ {t} : task'[u] = task[u]
  BY <1>3, IdleOK DEF Goto, FabricInv, TypeOK
<1>5. ASSUME NEW n \in Guarded, NEW v \in Nat, NEW c \in Nat, Landed(n, v, c)'
      PROVE  Landed(n, v, c)
  <2>1. CASE \E b \in acked : n \in b.synced /\ b.version = v /\ b.checksum = c
    BY <2>1 DEF Landed
  <2>2. CASE n \in a.synced /\ a.version = v /\ a.checksum = c
    BY <2>2 DEF Landed
  <2>3. CASE \E u \in Threads : /\ n \in task'[u].ok
                                /\ task'[u].rec.version = v
                                /\ task'[u].rec.checksum = c
    BY <1>4, <2>3 DEF Landed, Idle
  <2> HIDE DEF a
  <2> QED
    BY <1>3, <1>5, <2>1, <2>2, <2>3 DEF Landed
<1>6. Landings'
  BY <1>3, <1>5, QuietStep
<1> HIDE DEF a
<1> QED
  BY <1>2, <1>3, <1>4, <1>6, IdleOK DEF FabricInv, TypeOK

LEMMA RottenStep ==
    ASSUME FabricInv, NEW n \in Corruptible, Corrupt(n)
    PROVE  FabricInv'
<1>1. n \in Nodes /\ store \in [Nodes -> Record] /\ Usable(store[n])
  BY FabricAssumption DEF FabricInv, TypeOK, Corrupt
<1>2. UNCHANGED <<task, late, created, acked>>
  BY DEF Corrupt
<1>3. store' \in [Nodes -> Record]
      /\ \A m \in Nodes : /\ store'[m].version = store[m].version
                          /\ store'[m].checksum = store[m].checksum
  BY <1>1 DEF Corrupt, Record
<1>4. \A m \in Nodes : Genuine(store'[m])
  <2>1. \A m \in Nodes \ {n} : store'[m] = store[m]
    BY <1>1 DEF Corrupt
  <2>2. store[n].version > 0
    BY <1>1 DEF FabricInv, Genuine, Usable
  <2> QED
    BY <1>3, <2>1, <2>2 DEF FabricInv, Genuine
<1>5. \A m \in Guarded, v, c \in Nat : Landed(m, v, c)' => Landed(m, v, c)
  BY <1>2 DEF Landed
<1>6. Landings'
  BY <1>3, <1>5, QuietStep, FabricAssumption
<1> QED
  BY <1>2, <1>3, <1>4, <1>6 DEF FabricInv, TypeOK

LEMMA RestartStep ==
    ASSUME FabricInv, Restart
    PROVE  FabricInv'
<1>1. UNCHANGED <<store, created, acked>> /\ task' = [t \in Threads |-> Idle]
  BY DEF Restart
<1>2. late' \subseteq [node : Nodes, rec : Record] /\ \A l \in late' : l.rec.version > 0
  <2>1. CASE UNCHANGED late
    BY <2>1 DEF FabricInv, TypeOK
  <2>2. ASSUME NEW t \in Threads, NEW n \in Nodes, task[t].posting,
               late' = late \cup {[node |-> n, rec |-> task[t].rec]}
        PROVE  late' \subseteq [node : Nodes, rec : Record]
               /\ \A l \in late' : l.rec.version > 0
    <3>1. task[t].rec \in Record /\ task[t].rec.version > 0
      BY <2>2 DEF FabricInv, TypeOK, Task, TaskOK
    <3> QED
      BY <2>2, <3>1 DEF FabricInv, TypeOK
  <2> QED
    BY <2>1, <2>2 DEF Restart
<1>3. \A n \in Guarded, v, c \in Nat : Landed(n, v, c)' => Landed(n, v, c)
  BY <1>1 DEF Landed, Idle
<1>4. Landings'
  BY <1>1, <1>3, QuietStep
<1> QED
  BY <1>1, <1>2, <1>4, IdleOK DEF FabricInv, TypeOK

LEMMA NextFabricInv == FabricInv /\ [Next]_vars => FabricInv'
<1> SUFFICES ASSUME FabricInv, [Next]_vars PROVE FabricInv'
  OBVIOUS
<1>1. ASSUME NEW t \in Threads,
             StartSave(t) \/ StartClientWrite(t) \/ StartResend(t)
               \/ StartReplicate(t) \/ Advance(t)
      PROVE  FabricInv'
  BY <1>1, SaveStep, LoopStep, SourceStep, PostStep, FinishStep DEF Advance
<1>2. CASE Deliver \/ Restart
  BY <1>2, DeliverStep, RestartStep
<1>3. ASSUME NEW n \in Corruptible, Corrupt(n) PROVE FabricInv'
  BY <1>3, RottenStep
<1>4. CASE UNCHANGED vars
  BY <1>4 DEF vars, FabricInv, TypeOK, TaskOK, Genuine, Landings, Landed, Has
<1> QED
  BY <1>1, <1>2, <1>3, <1>4 DEF Next

(***************************************************************************)
(* Every variable keeps its type.                                          *)
(***************************************************************************)
THEOREM FabricTypeCorrect == Spec => []TypeOK
<1>1. FabricInv => TypeOK
  BY DEF FabricInv
<1> QED
  BY <1>1, InitFabricInv, NextFabricInv, PTL DEF Spec

(***************************************************************************)
(* A record that was reported as stored on a guarded node is still there,  *)
(* or a newer one is.                                                      *)
(***************************************************************************)
THEOREM ReportedRecordsAreKept == Spec => []ReportedIsKept
<1>1. FabricInv => ReportedIsKept
  <2> SUFFICES ASSUME FabricInv, NEW a \in acked, NEW n \in a.synced \cap Guarded
               PROVE  Keeps(n, a)
    BY DEF ReportedIsKept
  <2>1. a.version \in Nat /\ a.checksum \in Nat
    BY DEF FabricInv, TypeOK, Ack
  <2>2. Landed(n, a.version, a.checksum)
    BY DEF Landed
  <2> QED
    BY <2>1, <2>2 DEF FabricInv, Landings, Has, Keeps
<1> QED
  BY <1>1, InitFabricInv, NextFabricInv, PTL DEF Spec

(***************************************************************************)
(* Of the saves that got the same version on a guarded node only one is    *)
(* ever reported as stored there.                                          *)
(***************************************************************************)
THEOREM VersionsAreUniqueOnANode == Spec => []OneRecordPerVersion
<1>1. FabricInv => OneRecordPerVersion
  <2> SUFFICES ASSUME FabricInv, NEW a \in acked, NEW b \in acked,
                      a.version = b.version,
                      NEW n \in a.synced \cap b.synced \cap Guarded
               PROVE  a.checksum = b.checksum
    BY DEF OneRecordPerVersion
  <2>1. a.version \in Nat /\ a.checksum \in Nat /\ b.checksum \in Nat
    BY DEF FabricInv, TypeOK, Ack
  <2>2. Landed(n, a.version, a.checksum) /\ Landed(n, a.version, b.checksum)
    BY DEF Landed
  <2> QED
    BY <2>1, <2>2 DEF FabricInv, Landings
<1> QED
  BY <1>1, InitFabricInv, NextFabricInv, PTL DEF Spec

-----------------------------------------------------------------------------
(***************************************************************************)
(* The fabric implements VersionedRegister.  A request that reaches a      *)
(* guarded node moves its record forward or changes nothing the register   *)
(* shows.                                                                  *)
(***************************************************************************)
LEMMA StoredMoves ==
    ASSUME FabricInv, NEW n \in Nodes, NEW rec \in Record, rec.version > 0,
           store' = Stored(n, rec), UNCHANGED acked
    PROVE  [Register!Next]_<<GuardedCopies, Promises>>
<1> DEFINE shown(r) == [version |-> r.version, checksum |-> r.checksum]
<1>1. store \in [Nodes -> Record] /\ Guarded \subseteq Nodes /\ Genuine(store[n])
  BY FabricAssumption DEF FabricInv, TypeOK
<1>2. UNCHANGED Promises
  BY DEF Promises
<1>3. CASE store' = store
  BY <1>2, <1>3 DEF GuardedCopies
<1>4. CASE store' # store
  <2>1. /\ store' = [store EXCEPT ![n] = rec]
        /\ ~(n \in Guarded /\ TriggerRejects(store[n], rec))
    BY <1>4 DEF Stored
  <2>2. CASE n \notin Guarded
    <3>1. \A m \in Guarded : store'[m] = store[m]
      BY <1>1, <2>1, <2>2
    <3> QED
      BY <1>2, <3>1 DEF GuardedCopies
  <2>3. CASE n \in Guarded /\ shown(rec) = shown(store[n])
    <3>1. \A m \in Guarded : /\ store'[m].version = store[m].version
                             /\ store'[m].checksum = store[m].checksum
      BY <1>1, <2>1, <2>3
    <3> QED
      BY <1>2, <3>1 DEF GuardedCopies
  <2>4. CASE n \in Guarded /\ shown(rec) # shown(store[n])
    <3>1. rec.version > store[n].version
      BY <1>1, <2>1, <2>4
         DEF TriggerRejects, Conflicts, Genuine, Absent, Record
    <3>2. /\ GuardedCopies'[n] = shown(rec)
          /\ GuardedCopies' = [GuardedCopies EXCEPT ![n] = shown(rec)]
          /\ GuardedCopies[n].version = store[n].version
      BY <1>1, <2>1, <2>4 DEF GuardedCopies
    <3>3. Register!Move(n)
      BY <1>2, <3>1, <3>2 DEF Register!Move
    <3> QED
      BY <2>4, <3>3 DEF Register!Next
  <2> QED
    BY <2>2, <2>3, <2>4
<1> QED
  BY <1>3, <1>4

LEMMA QuietStutters ==
    ASSUME UNCHANGED <<store, acked>>
    PROVE  UNCHANGED <<GuardedCopies, Promises>>
BY DEF GuardedCopies, Promises

LEMMA FinishPromises ==
    ASSUME FabricInv, FabricInv', NEW t \in Threads, Finish(t)
    PROVE  [Register!Next]_<<GuardedCopies, Promises>>
<1>1. UNCHANGED store /\ acked \subseteq acked'
  BY DEF Finish, Report
<1>2. UNCHANGED GuardedCopies /\ Promises \subseteq Promises'
  BY <1>1 DEF GuardedCopies, Promises
<1>3. ASSUME NEW p \in Promises'
      PROVE  /\ p.node \in Guarded /\ p.version \in Nat /\ p.checksum \in Nat
             /\ Landed(p.node, p.version, p.checksum)'
  <2>1. PICK a \in acked' :
          \E n \in a.synced \cap Guarded :
            p = [node |-> n, version |-> a.version, checksum |-> a.checksum]
    BY DEF Promises
  <2>2. a \in Ack
    BY DEF FabricInv, TypeOK
  <2> QED
    BY <2>1, <2>2 DEF Ack, Landed
<1>4. ASSUME NEW p \in Promises' PROVE Register!Reached(p)
  <2>1. Has(p.node, p.version, p.checksum)'
    BY <1>3 DEF FabricInv, Landings
  <2> QED
    BY <1>1, <1>3, <2>1 DEF Has, Register!Reached, GuardedCopies
<1>5. ASSUME NEW p \in Promises', NEW q \in Promises',
             p.node = q.node, p.version = q.version
      PROVE  p.checksum = q.checksum
  BY <1>3, <1>5 DEF FabricInv, Landings
<1>6. Register!Promise
  BY <1>2, <1>4, <1>5 DEF Register!Promise
<1> QED
  BY <1>6 DEF Register!Next

LEMMA StepOfRegister ==
    FabricInv /\ FabricInv' /\ [Next]_vars => [Register!Next]_<<GuardedCopies, Promises>>
<1> SUFFICES ASSUME FabricInv, FabricInv', [Next]_vars
             PROVE  [Register!Next]_<<GuardedCopies, Promises>>
  OBVIOUS
<1>1. ASSUME NEW t \in Threads,
             \/ StartSave(t) \/ StartClientWrite(t) \/ StartResend(t) \/ StartReplicate(t)
             \/ ReadNode(t) \/ CreateFirst(t) \/ CheckNode(t) \/ EndWrite(t)
             \/ ScanSource(t) \/ EndScan(t)
      PROVE  UNCHANGED <<GuardedCopies, Promises>>
  <2>1. UNCHANGED <<store, acked>>
    BY <1>1 DEF StartSave, StartClientWrite, StartResend, StartReplicate, ReadNode,
                CreateFirst, CheckNode, EndWrite, ScanSource, EndScan
  <2> QED
    BY <2>1, QuietStutters
<1>2. CASE Restart \/ UNCHANGED vars
  <2>1. UNCHANGED <<store, acked>>
    BY <1>2 DEF Restart, vars
  <2> QED
    BY <2>1, QuietStutters
<1>3. ASSUME NEW t \in Threads, PostNode(t)
      PROVE  [Register!Next]_<<GuardedCopies, Promises>>
  <2>1. PICK n \in Nodes : UNCHANGED store \/ store' = Stored(n, task[t].rec)
    BY <1>3 DEF PostNode
  <2>2. UNCHANGED acked
    BY <1>3 DEF PostNode
  <2>3. task[t].rec \in Record /\ task[t].rec.version > 0
    BY <1>3 DEF PostNode, FabricInv, TypeOK, TaskOK, Task
  <2> QED
    BY <2>1, <2>2, <2>3, StoredMoves, QuietStutters
<1>4. CASE Deliver
  <2>1. PICK l \in late : store' = Stored(l.node, l.rec)
    BY <1>4 DEF Deliver
  <2>2. l.node \in Nodes /\ l.rec \in Record /\ l.rec.version > 0
    BY DEF FabricInv, TypeOK
  <2> QED
    BY <1>4, <2>1, <2>2, StoredMoves DEF Deliver
<1>5. ASSUME NEW n \in Corruptible, Corrupt(n)
      PROVE  UNCHANGED <<GuardedCopies, Promises>>
  <2>1. store \in [Nodes -> Record] /\ Guarded \subseteq Nodes
    BY FabricAssumption DEF FabricInv, TypeOK
  <2>2. \A m \in Guarded : /\ store'[m].version = store[m].version
                           /\ store'[m].checksum = store[m].checksum
    BY <1>5, <2>1 DEF Corrupt, Record
  <2> QED
    BY <1>5, <2>2 DEF Corrupt, GuardedCopies, Promises
<1>6. ASSUME NEW t \in Threads, Finish(t)
      PROVE  [Register!Next]_<<GuardedCopies, Promises>>
  BY <1>6, FinishPromises
<1> QED
  BY <1>1, <1>2, <1>3, <1>4, <1>5, <1>6 DEF Next, Advance

(***************************************************************************)
(* Saves, client writes, second passes, replications, late requests, rot   *)
(* and restarts implement the register: on every guarded node the record   *)
(* only moves forward, and callers are told of what is there.              *)
(***************************************************************************)
THEOREM FabricImplementsRegister == Spec => ImplementsRegister
<1>1. Init => Register!Init
  BY FabricAssumption DEF Init, Register!Init, GuardedCopies, Promises, Absent
<1> QED
  BY <1>1, InitFabricInv, NextFabricInv, StepOfRegister, PTL
     DEF Spec, ImplementsRegister, Register!Spec

-----------------------------------------------------------------------------
(***************************************************************************)
(* Rot.  A record on its way to a node, in the hands of a writing thread   *)
(* or of a late request, matches its checksum unless a replication had to  *)
(* go on with a rotten copy.  For that a copy must rot, and somebody must  *)
(* replicate: without one of the two, a healthy copy is never replaced by  *)
(* a rotten one.                                                           *)
(***************************************************************************)
Whole(r) == r = Absent \/ r.intact

\* What a thread has in its hands.
Honest(k) ==
    /\ k.at \in Writing => k.rec.intact
    /\ Sources = {} => k.at # "source"
    /\ Corruptible = {} => Whole(k.rec)

IntactInv ==
    /\ FabricInv
    /\ \A t \in Threads : Honest(task[t])
    /\ \A l \in late : l.rec.intact
    /\ Corruptible = {} => \A n \in Nodes : Whole(store[n])

LEMMA HonestIdle == Honest(Idle)
BY DEF Honest, Idle, Writing, Whole

\* One thread goes on to an honest frame and the copies and requests stay.
LEMMA HonestStep ==
    ASSUME IntactInv, FabricInv', NEW t \in Threads, NEW k, Goto(t, k), Honest(k),
           UNCHANGED <<store, late>>
    PROVE  IntactInv'
<1>1. \A u \in Threads : task'[u] = IF u = t THEN k ELSE task[u]
  BY DEF Goto, IntactInv, FabricInv, TypeOK
<1>2. ASSUME NEW u \in Threads PROVE Honest(task[u])'
  BY <1>1 DEF Honest, IntactInv, Whole
<1> QED
  BY <1>2 DEF IntactInv, Whole

\* What is written anew matches its checksum.
LEMMA WriteIsHonest ==
    ASSUME IntactInv, FabricInv', NEW t \in Threads, NEW v, NEW c, Write(t, v, c),
           UNCHANGED <<store, late>>
    PROVE  IntactInv'
<1> DEFINE r == [version |-> v, checksum |-> c, intact |-> TRUE]
           k == [Idle EXCEPT !.at = "write", !.todo = Eligible, !.rec = r]
<1>1. Honest(k)
  BY DEF Honest, Idle, Writing, Whole
<1>2. Goto(t, Idle) \/ Goto(t, k)
  BY DEF Write
<1> HIDE DEF k
<1> QED
  BY <1>1, <1>2, HonestIdle, HonestStep

\* A frame that keeps its place and its record is as honest as it was.
LEMMA SameRecord ==
    ASSUME NEW j, NEW k, Honest(j), k.rec = j.rec, k.at = j.at
    PROVE  Honest(k)
BY DEF Honest

LEMMA WritesStayIntact ==
    ASSUME IntactInv, FabricInv', NEW t \in Threads,
           \/ StartSave(t) \/ ReadNode(t) \/ CreateFirst(t) \/ StartClientWrite(t)
           \/ StartResend(t) \/ CheckNode(t) \/ EndWrite(t) \/ Finish(t)
    PROVE  IntactInv'
<1>1. task[t] \in Task /\ Honest(task[t])
  BY DEF IntactInv, FabricInv, TypeOK
<1>2. \A n : /\ Leave(t, n).rec = task[t].rec
             /\ Leave(t, n).at = task[t].at
  BY <1>1 DEF Leave, Task
<1>3. UNCHANGED <<store, late>>
  BY DEF StartSave, ReadNode, CreateFirst, StartClientWrite, StartResend, CheckNode,
         EndWrite, Finish
<1>4. CASE StartSave(t)
  <2> DEFINE k == [Idle EXCEPT !.at = "read", !.todo = Nodes, !.fresh = created + 1]
  <2>1. Honest(k)
    BY DEF Honest, Idle, Writing, Whole
  <2>2. Goto(t, k)
    BY <1>4 DEF StartSave
  <2> HIDE DEF k
  <2> QED
    BY <1>3, <2>1, <2>2, HonestStep
<1>5. CASE ReadNode(t) \/ CreateFirst(t) \/ StartClientWrite(t) \/ StartResend(t)
  <2>1. (\E n \in Nodes : Goto(t, Leave(t, n))) \/ (\E v, c : Write(t, v, c))
    BY <1>5 DEF ReadNode, CreateFirst, StartClientWrite, StartResend
  <2> QED
    BY <1>1, <1>2, <1>3, <2>1, SameRecord, HonestStep, WriteIsHonest
<1>6. CASE CheckNode(t)
  <2> DEFINE k == [task[t] EXCEPT !.posting = TRUE]
  <2>1. k.rec = task[t].rec /\ k.at = task[t].at
    BY <1>1 DEF Task
  <2>2. (\E n \in Nodes : Goto(t, Leave(t, n))) \/ Goto(t, k)
    BY <1>6, FabricAssumption DEF CheckNode
  <2> HIDE DEF k
  <2> QED
    BY <1>1, <1>2, <1>3, <2>1, <2>2, SameRecord, HonestStep
<1>7. CASE EndWrite(t)
  <2> DEFINE k == [task[t] EXCEPT !.at = "confirm", !.todo = Confirmed(t)]
  <2>1. k.rec = task[t].rec /\ k.at = "confirm"
    BY <1>1 DEF Task
  <2>2. task[t].at \in Writing
    BY <1>7 DEF EndWrite, At, Writing
  <2>3. Goto(t, Idle) \/ Goto(t, k)
    BY <1>7 DEF EndWrite
  <2> HIDE DEF k
  <2>4. Honest(k)
    BY <1>1, <2>1, <2>2 DEF Honest, Writing
  <2> QED
    BY <1>3, <2>3, <2>4, HonestIdle, HonestStep
<1>8. CASE Finish(t)
  BY <1>3, <1>8, HonestIdle, HonestStep DEF Finish
<1> QED
  BY <1>4, <1>5, <1>6, <1>7, <1>8

\* Without rot a replication only finds whole copies.
LEMMA ReplicationStaysIntact ==
    ASSUME IntactInv, FabricInv', Sources = {} \/ Corruptible = {}, NEW t \in Threads,
           StartReplicate(t) \/ ScanSource(t) \/ EndScan(t)
    PROVE  IntactInv'
<1>1. task[t] \in Task /\ Honest(task[t]) /\ store \in [Nodes -> Record]
  BY DEF IntactInv, FabricInv, TypeOK
<1>2. UNCHANGED <<store, late>> /\ Sources # {} /\ Corruptible = {}
  BY <1>1 DEF StartReplicate, ScanSource, EndScan, At, Honest
<1>3. CASE StartReplicate(t)
  <2>1. PICK s \in Sources :
          Goto(t, [Idle EXCEPT !.at = "source", !.source = s,
                               !.todo = IF s = None THEN Nodes ELSE {s}])
    BY <1>3 DEF StartReplicate
  <2> DEFINE k == [Idle EXCEPT !.at = "source", !.source = s,
                               !.todo = IF s = None THEN Nodes ELSE {s}]
  <2>2. Honest(k)
    BY <1>2 DEF Honest, Idle, Writing, Whole
  <2>3. Goto(t, k)
    BY <2>1
  <2> HIDE DEF k
  <2> QED
    BY <1>2, <2>2, <2>3, HonestStep
<1>4. CASE ScanSource(t)
  <2>1. task[t].at = "source"
    BY <1>4 DEF ScanSource, At
  <2>2. PICK n \in Nodes :
          \/ Goto(t, Leave(t, n))
          \/ Goto(t, [Leave(t, n) EXCEPT !.rec = store[n]])
          \/ /\ Usable(store[n])
             /\ Goto(t, [task[t] EXCEPT !.at = "copy", !.rec = store[n],
                                        !.todo = Targets(t), !.source = None])
    BY <1>4 DEF ScanSource
  <2>3. Whole(store[n])
    BY <1>2 DEF IntactInv
  <2> DEFINE next == [Leave(t, n) EXCEPT !.rec = store[n]]
             copy == [task[t] EXCEPT !.at = "copy", !.rec = store[n],
                                     !.todo = Targets(t), !.source = None]
  <2>4. Leave(t, n).rec = task[t].rec /\ Leave(t, n).at = task[t].at
    BY <1>1 DEF Leave, Task
  <2>5. Honest(next)
    BY <1>1, <1>2, <2>1, <2>3 DEF Leave, Task, Honest, Writing
  <2>6. Usable(store[n]) => Honest(copy)
    BY <1>1, <1>2 DEF Task, Honest, Usable, Whole
  <2>7. \/ Goto(t, Leave(t, n))
        \/ Goto(t, next)
        \/ Usable(store[n]) /\ Goto(t, copy)
    BY <2>2
  <2> HIDE DEF next, copy
  <2> QED
    BY <1>1, <1>2, <2>4, <2>5, <2>6, <2>7, SameRecord, HonestStep
<1>5. CASE EndScan(t)
  <2> DEFINE copy == [task[t] EXCEPT !.at = "copy", !.todo = Targets(t),
                                     !.source = None]
  <2>1. task[t].rec # Absent => Honest(copy)
    BY <1>1, <1>2 DEF Task, Honest, Whole
  <2>2. Goto(t, Idle) \/ (task[t].rec # Absent /\ Goto(t, copy))
    BY <1>5 DEF EndScan
  <2> HIDE DEF copy
  <2> QED
    BY <1>2, <2>1, <2>2, HonestIdle, HonestStep
<1> QED
  BY <1>3, <1>4, <1>5

\* A request stores what matches its checksum, or nothing.
LEMMA StoredIsWhole ==
    ASSUME IntactInv, NEW m \in Nodes, NEW rec \in Record, rec.intact, rec.version > 0,
           store' = Stored(m, rec), NEW n \in Nodes
    PROVE  /\ Usable(store[n]) => Usable(store'[n])
           /\ Whole(store[n]) => Whole(store'[n])
<1>1. store \in [Nodes -> Record] /\ rec # Absent
  BY DEF IntactInv, FabricInv, TypeOK, Absent
<1>2. store'[n] = store[n] \/ store'[n] = rec
  BY <1>1 DEF Stored
<1> QED
  BY <1>1, <1>2 DEF Usable, Whole

LEMMA PostStaysIntact ==
    ASSUME IntactInv, FabricInv', NEW t \in Threads, PostNode(t)
    PROVE  /\ IntactInv'
           /\ \A n \in Nodes : Usable(store[n]) => Usable(store'[n])
<1> DEFINE rec == task[t].rec
<1>1. task[t] \in Task /\ Honest(task[t]) /\ TaskOK(task[t]) /\ task[t].at \in Writing
      /\ task \in [Threads -> Task] /\ store \in [Nodes -> Record]
  BY DEF PostNode, IntactInv, FabricInv, TypeOK
<1>2. rec \in Record /\ rec.intact /\ rec.version > 0
  BY <1>1 DEF Task, Honest, TaskOK
<1>3. PICK n \in Nodes :
        /\ UNCHANGED late \/ late' = late \cup {[node |-> n, rec |-> rec]}
        /\ UNCHANGED store \/ store' = Stored(n, rec)
        /\ \/ Goto(t, Leave(t, n))
           \/ Goto(t, [Leave(t, n) EXCEPT !.ok = @ \cup {n}])
  BY DEF PostNode
<1>4. \A m \in Nodes : /\ Usable(store[m]) => Usable(store'[m])
                       /\ Whole(store[m]) => Whole(store'[m])
  BY <1>2, <1>3, StoredIsWhole
<1>5. \A u \in Threads : Honest(task'[u])
  <2> DEFINE k == [Leave(t, n) EXCEPT !.ok = @ \cup {n}]
  <2>1. /\ Leave(t, n).rec = rec /\ Leave(t, n).at = task[t].at
        /\ k.rec = rec /\ k.at = task[t].at
    BY <1>1 DEF Leave, Task
  <2> HIDE DEF k
  <2>2. Honest(Leave(t, n)) /\ Honest(k)
    BY <1>1, <2>1, SameRecord
  <2>3. Goto(t, Leave(t, n)) \/ Goto(t, k)
    BY <1>3 DEF k
  <2>4. \A u \in Threads : task'[u] \in {task[u], Leave(t, n), k}
    BY <1>1, <2>3 DEF Goto
  <2> QED
    BY <2>2, <2>4 DEF IntactInv
<1>6. \A l \in late' : l.rec.intact
  BY <1>2, <1>3 DEF IntactInv
<1> QED
  BY <1>4, <1>5, <1>6 DEF IntactInv, Honest, Whole

LEMMA DeliverStaysIntact ==
    ASSUME IntactInv, FabricInv', Deliver
    PROVE  /\ IntactInv'
           /\ \A n \in Nodes : Usable(store[n]) => Usable(store'[n])
<1>1. PICK l \in late : store' = Stored(l.node, l.rec) /\ late' = late \ {l}
  BY DEF Deliver
<1>2. l.node \in Nodes /\ l.rec \in Record /\ l.rec.intact /\ l.rec.version > 0
  BY DEF IntactInv, FabricInv, TypeOK
<1>3. \A n \in Nodes : /\ Usable(store[n]) => Usable(store'[n])
                       /\ Whole(store[n]) => Whole(store'[n])
  BY <1>1, <1>2, StoredIsWhole
<1> QED
  BY <1>1, <1>3 DEF Deliver, IntactInv, Honest, Whole

LEMMA RestartStaysIntact ==
    ASSUME IntactInv, FabricInv', Restart
    PROVE  IntactInv'
<1>1. \A t \in Threads : Honest(task'[t])
  BY HonestIdle DEF Restart
<1>2. \A l \in late' : l.rec.intact
  BY DEF Restart, IntactInv, Honest, FabricInv, TaskOK
<1> QED
  BY <1>1, <1>2 DEF Restart, IntactInv, Honest, Whole

\* A copy that rots is one that may, and no other copy changes.
LEMMA CorruptStaysIntact ==
    ASSUME IntactInv, FabricInv', NEW c \in Corruptible, Corrupt(c)
    PROVE  /\ IntactInv'
           /\ \A n \in Nodes \ {c} : Usable(store[n]) => Usable(store'[n])
<1>1. UNCHANGED <<task, late>> /\ Corruptible # {}
      /\ \A n \in Nodes \ {c} : store'[n] = store[n]
  BY DEF Corrupt, IntactInv, FabricInv, TypeOK
<1> QED
  BY <1>1 DEF IntactInv, Honest, Whole

LEMMA IntactInvHolds ==
    ASSUME Sources = {} \/ Corruptible = {}
    PROVE  /\ Init => IntactInv
           /\ IntactInv /\ [Next]_vars => IntactInv'
<1>1. ASSUME Init PROVE IntactInv
  BY <1>1, InitFabricInv, HonestIdle DEF Init, IntactInv, Whole
<1>2. ASSUME IntactInv, [Next]_vars PROVE IntactInv'
  <2>1. FabricInv'
    BY <1>2, NextFabricInv DEF IntactInv
  <2>2. CASE UNCHANGED vars
    BY <1>2, <2>2, <2>1 DEF vars, IntactInv, Honest, Whole
  <2> QED
    BY <1>2, <2>1, <2>2, WritesStayIntact, ReplicationStaysIntact, PostStaysIntact,
       DeliverStaysIntact, RestartStaysIntact, CorruptStaysIntact
       DEF Next, Advance
<1> QED
  BY <1>1, <1>2

(***************************************************************************)
(* "Corrupted copies are skipped so a healthy replica can win": a healthy  *)
(* copy may rot where it is, but no save, second pass, client write, late  *)
(* request or restart makes it rotten, if nothing is replicated or nothing *)
(* rots.  So it takes both, as in the run that refutes the property: one   *)
(* copy rots and a replication that finds no healthy one spreads it.       *)
(***************************************************************************)
THEOREM OnlyReplicationSpreadsRot ==
    ASSUME Sources = {} \/ Corruptible = {}
    PROVE  Spec => HealthyReplicaWins
<1> DEFINE Wins == \A n \in Nodes : Usable(store[n]) /\ ~Usable(store'[n]) => Corrupt(n)
<1>1. ASSUME IntactInv, FabricInv', [Next]_vars PROVE Wins \/ UNCHANGED vars
  <2>1. CASE UNCHANGED store
    BY <2>1
  <2>2. CASE Deliver \/ \E t \in Threads : PostNode(t)
    BY <1>1, <2>2, DeliverStaysIntact, PostStaysIntact
  <2>3. ASSUME NEW c \in Corruptible, Corrupt(c) PROVE Wins
    BY <1>1, <2>3, CorruptStaysIntact
  <2> QED
    BY <1>1, <2>1, <2>2, <2>3
       DEF Next, Advance, StartSave, StartClientWrite, StartResend, StartReplicate,
           ReadNode, CreateFirst, CheckNode, EndWrite, Finish, ScanSource, EndScan, Restart
<1>2. IntactInv => FabricInv
  BY DEF IntactInv
<1>3. IntactInv /\ [Next]_vars => [Wins]_vars
  BY <1>1, <1>2, NextFabricInv
<1> QED
  BY <1>3, IntactInvHolds, PTL DEF Spec, HealthyReplicaWins
=============================================================================
