------------------------------- MODULE SharedPool -------------------------------
(***************************************************************************)
(* One entry of ResourceRegistry._resources (resources/model.py) under the *)
(* server's threads.  An entry is immutable: whoever changes it reads it,  *)
(* builds a new one and puts that in its place, and others run in between. *)
(* get() and eligible() do so to end a cooldown, apply()                   *)
(* (resources/state.py) to record an observation; the bridge's             *)
(* rejection_reasons (intelligence/resource_pool.py) reads the entry twice *)
(* to reach one verdict.  A step is the code from one call to the next.    *)
(*                                                                         *)
(* What the entry says of the resource for good (its capabilities, usage   *)
(* classes and free tier) admits the request here; Routing has that.       *)
(***************************************************************************)
EXTENDS ResourceState

CONSTANTS
    Threads,      \* the server's request threads
    Metrics,      \* the names of the resource's quota metrics
    FirstHealth,  \* the health the entry may start with
    Observations, \* what may be observed: [health, cooldown, quota], where quota
                  \* maps the names of the metrics seen to what remains of them
    MaxClock      \* bound: where the clock stops

ASSUME PoolAssumption ==
    /\ FirstHealth \subseteq ResourceHealth
    /\ \A o \in Observations :
         /\ o.health \in ResourceHealth
         /\ o.cooldown \in Optional(Nat)
         /\ \A m \in DOMAIN o.quota : o.quota[m] \in Optional(Nat)
    /\ MaxClock \in Nat

VARIABLES
    clock,    \* datetime.now
    entry,    \* the registry's current descriptor of the resource
    thread,   \* each thread's frame
    lone      \* history: the entry as undisturbed observations left it

vars == <<clock, entry, thread, lone>>

Entry == [health : ResourceHealth,
          until  : Optional(Nat),              \* cooldown_until, an instant
          quota  : [Metrics -> Optional(Nat)]]

\* An observation as apply() is given it.
Observed == [health : ResourceHealth,
             until  : Optional(Nat),
             quota  : {o.quota : o \in Observations}]

Methods == {"get", "rejection_reasons", "apply"}

(***************************************************************************)
(* Where a thread is:                                                      *)
(*   idle     outside the pool                                             *)
(*   read     about to look the entry up                                   *)
(*   refresh  about to hold the deadline of the entry it read against now  *)
(*   decide   rejection_reasons has its second copy                        *)
(*   build    apply has the copy it builds the new entry from              *)
(***************************************************************************)
Places == {"idle", "read", "refresh", "decide", "build"}

\* seen is the copy last read, first the one rejection_reasons read before it.
\* open and moved are history of a rejection_reasons: the entry could be scheduled
\* at some moment of the call, and it was replaced between a lookup and the refresh
\* of what that had found.
Frame == [at       : Places,
          method   : Optional(Methods),
          seen     : Optional(Entry),
          first    : Optional(Entry),
          observed : Optional(Observed),
          open     : BOOLEAN,
          moved    : BOOLEAN]

Idle == [at |-> "idle", method |-> None, seen |-> None, first |-> None,
         observed |-> None, open |-> FALSE, moved |-> FALSE]

\* What a refresh makes of entry e.
Due(e) == e.health \in TransientHealth /\ e.until # None /\ clock >= e.until

\* A bug: an entry reopened for its expired deadline keeps the deadline.
EndedWithDeadline(e) == [e EXCEPT !.health = "DEGRADED"]

\* The entry once its cooldown is over.
Ended(e) == [e EXCEPT !.health = "DEGRADED", !.until = None]

Spent(e) == \E m \in Metrics : e.quota[m] # None /\ e.quota[m] <= 0

\* What eligible() holds against an entry that admits the request, and what
\* rejection_reasons then finds to say of its first copy.
Eligible(e) == Schedulable(e) /\ ~Spent(e)

\* A bug: a resource nobody has probed is not given as a reason.
FailuresButUnknown(e) == e.health \in Unschedulable \ {"UNKNOWN"} \/ Spent(e)

Failures(e) == e.health \in Unschedulable \/ Spent(e)

\* The entry as a reader finds it, its cooldown ended if it is over.
Current(e) == IF Due(e) THEN Ended(e) ELSE e

At(t, place) == thread[t].at = place

Runs(t, method) == thread[t].method = method

Init ==
    /\ clock = 0
    /\ entry \in {[health |-> h, until |-> None, quota |-> [m \in Metrics |-> None]] :
                     h \in FirstHealth}
    /\ thread = [t \in Threads |-> Idle]
    /\ lone = None

TypeOK ==
    /\ clock \in Nat
    /\ entry \in Entry
    /\ thread \in [Threads -> Frame]
    /\ lone \in Optional(Entry)

Judging(t) == Runs(t, "rejection_reasons")

\* The frames once thread t has made e the entry: those of the others keep their
\* history of it.
Replaced(e, t) ==
    [u \in Threads |->
       IF u # t /\ Judging(u)
       THEN [thread[u] EXCEPT !.open = @ \/ Eligible(Current(e)),
                              !.moved = @ \/ (At(u, "refresh") /\ e # entry)]
       ELSE thread[u]]

-----------------------------------------------------------------------------
Begin(t) ==
    /\ At(t, "idle")
    /\ \E m \in {"get", "rejection_reasons"} :
         thread' = [thread EXCEPT ![t] =
                      [Idle EXCEPT !.at = "read", !.method = m,
                                   !.open = m = "rejection_reasons"
                                              /\ Eligible(Current(entry))]]
    /\ UNCHANGED <<clock, entry, lone>>

\* The bridge, or a probe, has something to report: the deadline of a cooldown is
\* computed here, before apply() is called.
BeginApply(t) ==
    /\ At(t, "idle")
    /\ \E o \in Observations :
         LET until == IF o.cooldown = None THEN None ELSE clock + o.cooldown
         IN  thread' = [thread EXCEPT ![t] =
                          [Idle EXCEPT !.at = "read", !.method = "apply",
                                       !.observed = [health |-> o.health, until |-> until,
                                                     quota |-> o.quota]]]
    /\ UNCHANGED <<clock, entry, lone>>

\* Where get() returns e to: the frame of thread t that goes on with it.
Found(t, e) ==
    LET f == thread[t]
    IN  CASE Runs(t, "get") -> Idle
          [] Runs(t, "apply") -> [f EXCEPT !.at = "build", !.seen = e]
          [] Judging(t) /\ f.first = None ->
               [f EXCEPT !.at = "read", !.first = e, !.seen = None]
          [] OTHER -> [f EXCEPT !.at = "decide", !.seen = e]

Read(t) ==
    /\ At(t, "read")
    /\ thread' = [thread EXCEPT ![t] =
                    IF entry.health \in TransientHealth /\ entry.until # None
                    THEN [@ EXCEPT !.at = "refresh", !.seen = entry]
                    ELSE Found(t, entry)]
    /\ UNCHANGED <<clock, entry, lone>>

\* The copy's cooldown is over: the copy, ended, becomes the entry.
Refresh(t) ==
    /\ At(t, "refresh")
    /\ LET e == thread[t].seen
       IN  \/ /\ Due(e)
              /\ entry' = Ended(e)
              /\ thread' = [Replaced(Ended(e), t) EXCEPT ![t] = Found(t, Ended(e))]
           \/ /\ ~Due(e)
              /\ thread' = [thread EXCEPT ![t] = Found(t, e)]
              /\ UNCHANGED entry
    /\ UNCHANGED <<clock, lone>>

\* rejection_reasons finds no reason: eligible() lists the resource, or what it does
\* not like is not in the first copy.
Accepted(f) == Eligible(f.seen) \/ ~Failures(f.first)

\* The caller has its answer, Accepted(thread[t]), and nothing else changes.
Decide(t) ==
    /\ At(t, "decide")
    /\ thread' = [thread EXCEPT ![t] = Idle]
    /\ UNCHANGED <<clock, entry, lone>>

\* A snapshot naming a metric the resource does not have: ValueError.
Unknown(o) == ~(DOMAIN o.quota \subseteq Metrics)

\* The entry that observation o makes of copy e: metrics not observed keep what the
\* copy says of them.
Merged(e, o) ==
    [health |-> o.health, until |-> o.until,
     quota |-> [m \in Metrics |-> IF m \in DOMAIN o.quota THEN o.quota[m] ELSE e.quota[m]]]

\* What the resource is known to be after observation o, should it be kept whole:
\* the one before is kept too.
Known(o, e) ==
    [health |-> o.health, until |-> o.until,
     quota |-> [m \in Metrics |->
                  CASE m \in DOMAIN o.quota -> o.quota[m]
                    [] m \notin DOMAIN o.quota /\ lone # None -> lone.quota[m]
                    [] OTHER -> e.quota[m]]]

ApplyRaises(t) ==
    /\ At(t, "build")
    /\ Unknown(thread[t].observed)
    /\ thread' = [thread EXCEPT ![t] = Idle]
    /\ UNCHANGED <<clock, entry, lone>>

Apply(t) ==
    /\ At(t, "build")
    /\ ~Unknown(thread[t].observed)
    /\ LET e == Merged(thread[t].seen, thread[t].observed)
       IN  /\ entry' = e
           /\ thread' = [Replaced(e, t) EXCEPT ![t] = Idle]
           /\ lone' = IF \A u \in Threads \ {t} : At(u, "idle")
                      THEN Known(thread[t].observed, e) ELSE None
    /\ UNCHANGED clock

\* Time passes: a cooldown that is over opens the entry to whoever looks.
Tick ==
    /\ clock < MaxClock
    /\ clock' = clock + 1
    /\ UNCHANGED <<entry, lone>>
    /\ thread' = [t \in Threads |->
                    [thread[t] EXCEPT !.open =
                       @ \/ (Judging(t) /\ Eligible(Current(entry)'))]]

Next ==
    \/ \E t \in Threads :
         \/ Begin(t) \/ BeginApply(t)
         \/ Read(t) \/ Refresh(t)
         \/ Decide(t)
         \/ ApplyRaises(t) \/ Apply(t)
    \/ Tick

Spec == Init /\ [][Next]_vars

-----------------------------------------------------------------------------
(***************************************************************************)
(* rejection_reasons looks the resource up, asks eligible(), which looks   *)
(* it up again, and explains a no by the first copy (resource_pool.py      *)
(* 93-135).  When that copy gives no reason the answer is (), which the    *)
(* Gateway takes for a yes.  Even so a resource is never let through that  *)
(* could not be scheduled at any moment of the call, unless the entry was  *)
(* replaced between a lookup and the refresh of its outcome: that refresh  *)
(* brings the older copy back (model.py 274-280).                          *)
(***************************************************************************)
VerdictHonest ==
    \A t \in Threads :
       At(t, "decide") /\ Accepted(thread[t]) => thread[t].open \/ thread[t].moved

(***************************************************************************)
(* Entries are replaced whole, so two writers in the pool at once may lose *)
(* what one of them saw.  One that finished while no other thread was in   *)
(* the pool loses nothing: the health observed, its cooldown and what was  *)
(* ever seen of the quota stay the entry until the next observation, and   *)
(* only the end of that cooldown, when it is over, may reopen it.          *)
(***************************************************************************)
LoneObservationKept ==
    lone # None =>
        \/ entry = lone
        \/ /\ lone.health \in TransientHealth
           /\ lone.until # None
           /\ clock >= lone.until
           /\ entry = [lone EXCEPT !.health = "DEGRADED", !.until = None]
=============================================================================
