# A verification project for AIrLab

AIrLab is a Python service with three parts that keep state: an **Intelligence
Gateway** that sends a request to the first of several AI providers that will take
it, a **Resource Pool** that says which of them may be asked, and a **Memory
Fabric** that stores versioned records on several nodes; and two **HTTP servers**
in front of them. This directory holds TLA+ models of those parts, TLC instances that
check them, and proofs that TLAPS checks. Paths below are relative to `src/airlab` unless
they start with `docs/`, `supabase/` or `cloudflare_worker.py`.

## 1. The system

### Components

| Component | State | Operations | Module |
|---|---|---|---|
| Gateway, `intelligence/gateway.py` | none of its own between requests; one frame of `complete()` per request thread | `complete`, `providers_snapshot` | `Gateway`, its contract `RequestContract` |
| Provider Registry, `intelligence/registry.py` | per provider: circuit state, failures in a row, deadline, quota, rate window | `reserve_request`, `record_success`, `record_failure`, `update_quota`, `health` and all that calls it | `ProviderRegistry`, `Gateway`; call by call `SharedCircuit`, and its abstraction `WholeCircuit` |
| Resource Pool, `resources/model.py`, bridge `intelligence/resource_pool.py` | per resource: health, `cooldown_until`, quotas | `get`/`all`/`eligible` (each ends cooldowns that are over), `replace`; the bridge's `rejection_reasons`, `record_success`, `record_failure`, `provider_descriptor_from_resource` | `ResourceState`, `Gateway`; lookup by lookup `SharedPool`; who is admitted `Routing` |
| Adapter and probe, `intelligence/openai_compatible.py` | none | `complete`, `probe` | `OpenAICompatible` |
| Router, `intelligence/router.py`, capabilities | none | `route`, with every reason to reject and the score | `Routing`; what it may admit is a parameter of `Gateway` |
| Request parsing, `intelligence/openai_compat.py` | none | `parse_chat_completion_request` | `HttpApi` (`Policy`) |
| Candidate gate, `resources/candidates.py` | candidates, their status and evidence | `submit`, `add_evidence`, `validate`, `reject`, `deprecate`, `promote` | `ResourceLifecycle` |
| State manager and persistence, `resources/state.py`, `resources/persistence.py` | the pool; `persistence_errors`; snapshots in the Memory Fabric | `apply`, `probe`, `restore` | `ResourceLifecycle`; its quotas and races `SharedPool` |
| Memory Fabric, `memory/*.py`, `supabase/schema/memory_fabric_v1.sql` | each node's copy of a record | `write`, `read`, `replicate`, `ProjectMemoryService.save`; the adapter's and the trigger's conflict checks | `MemoryFabric`, its abstraction `VersionedRegister` |
| Memory API, `memory/api.py` | none | `dispatch_memory_request` | `HttpApi` |
| HTTP servers, `http_api.py`, `cloudflare_api.py`, `main.py`, `cloudflare_worker.py` | how they were set up | every method, path and early return; start-up | `HttpApi` |
| Build contract and correlation, `contracts.py`, `task_catalog.py`, `execution/contracts.py` | none here; Cantiere holds the correlation | `BuildRequest.from_json`, `ExecutionCorrelation.create`, `for_attempt`, its validation | `BuildContract` (partly: the evidence of a remote execution is not) |
| Usage ledger, `resources/accounting.py` | the events | `record` | in `Gateway` (partly) |
| Catalog, `resources/catalog.py` | none: static data | `free_resource_pool_v1` | `ResourceLifecycle` (`Fresh`) |
| Mock engine, ports and null integrations | none | | not modelled, see section 8 |

### How they interact

`http_api.py` serves each request on a thread of `ThreadingHTTPServer`. The threads
share one gateway, one registry, one pool and one fabric, and there is no lock
anywhere. A request asks the router, which reads the pool first and the circuits
after it; then, candidate by candidate, the gateway reserves a slot in the
registry, calls the adapter, records the outcome in the registry, reads the cooldown left back
from it, reports to the pool and accounts for the call. A refused reservation goes
the same way without a call. The state manager behind the pool saves what it
applies to the Memory Fabric when it was given a store.

The two HTTP servers dispatch the same requests to the same service, with code of
their own: `http_api.py` on the loopback address or behind a token, and
`cloudflare_api.py` in a Cloudflare Worker. Neither entry point gives its server a memory
yet; `create_server` and `dispatch_cloudflare_request` take one, and so does the model.

### What is hard, and what makes each part correct

* *Overlapping requests.* The outcome of a call is recorded when it returns, and
  by then other threads may have changed what it overwrites. Right: a provider that
  refused is left alone for its cooldown; an exhausted one until there is evidence.
* *Threads inside a method.* No method of the registry or the pool is atomic: a record is
  written field by field, an entry is replaced by a copy made earlier. Right: a closed
  circuit always has an end, the rate window keeps its average, and what nobody raced
  is not lost.
* *Two timers.* The circuit and the pool each keep a deadline. Right: they run out
  together, a transient state has a deadline, and every cooldown ends.
* *The loop.* Right: each candidate at most once, nothing after a final outcome,
  every call accounted for, every request ends.
* *Versions on several nodes.* A save is a read of one node followed by a check and an
  upsert on each node, any of which may fail, time out and arrive late, or be cut
  off by a restart. Right: what was reported stays, and a version is one record.
* *The same question asked three times.* Who may serve a request is decided by the pool's
  `eligible`, explained by the bridge and decided again by the router on a descriptor
  made at startup; the flags it goes by have defaults that depend on each other. Right: the
  layers agree, nothing is spent without consent, free comes first.
* *Two servers.* The dispatchers are written twice. Right: the same answer to the
  same request but where they are known to differ, and a status that tells what was done.
* *Restarts of the pool, and threads between its two stores.* The registry is changed
  first and the Memory Fabric after it. Right: nothing is schedulable on a claim alone, and
  a lost save is known to be lost.

The hazards are listed line by line in `PROJECT.json`, each with the properties
that would notice it go wrong, or with the reason why none does (four of them).

## 2. The modules

```
Optionals                       values that may be None
  ProviderRegistry              one circuit: pure operators, one per method
  ResourceState                 one pool entry: pure operators
    Gateway                     the threads, the loop, time          (state machine)
      GatewayProperties         what it promises; INSTANCE RequestContract
        GatewayProofs           types, circuits, the adapter's failures and findings
          RequestProofs         the loop and the ledger; Gateway implements RequestContract
            RefusalProofs       cooldowns are honoured, in the circuit and in the pool
    OpenAICompatible            a reply -> a failure; a probe -> a health
    MCGateway                   instances of the two above for TLC
    ResourceLifecycle           gate, registry, store, restarts      (state machine)
      ResourceLifecycleProofs, MCResourceLifecycle
    SharedPool                  one pool entry under threads         (state machine)
      SharedPoolProofs, MCSharedPool
    Routing                     pool filter, router filter, score: pure operators
  WholeCircuit                  one circuit, a method a step         (specification)
  SharedCircuit                 one circuit under threads            (state machine)
    CircuitRefinement           what a method comes to; INSTANCE WholeCircuit
      SharedCircuitProofs, MCSharedCircuit
  BuildContract                 builds and correlations: pure operators
  HttpApi                       the two servers; Routing, BuildContract (state machine)
    HttpProperties              what clients rely on
      HttpProofs, MCHttpApi
RequestContract                 one request, abstractly              (specification)
VersionedRegister               one guarded copy, abstractly         (specification)
MemoryFabric                    one record on several nodes          (state machine)
  MemoryFabricProofs, MCMemoryFabric
```

An operator or action has the name of what it models or does, and `PROJECT.json`
("map") gives the source lines of each. Operators commented "A bug" are not part of
any specification: each is a mutated form of the definition after it, which the
check puts in its place to see the property named with it fail.

### Gateway

State: `health` (the registry), `pool` (the Resource Pool), `req` (each thread's
frame: where it is in `complete()`, the candidates left, the one in hand, the
failure to report, the attempts and the usage events) and `refusal`, a history
variable with what is left of each provider's last rate-limit cooldown.

A step is what one thread does between two points where another may take over.
Under CPython that is at calls; the steps break at the calls that read the shared
state again, and at the provider's answer:

| Place | Action | Code |
|---|---|---|
| `idle` | `Route` | `IntelligenceRouter.route` |
| `pick` | `GiveUp`, `SkipCandidate`, `Reserve` | the loop's head; `reserve_request` up to its call of the clock |
| `window` | `ReserveInWindow` | the rest of `reserve_request` |
| `refused` | `ClassifyRefusal` | the failure kind, from the state as it is by now |
| `calling` | `Return` | `adapter.complete` |
| `record` | `RecordSuccess`, `RecordFailure` | the registry's methods |
| `project` | `ReadCooldown` | `cooldown_remaining_seconds`, the bridge's argument |
| `report` | `ReportSuccess`, `ReportFailure` | the bridge |
| `usage` | `Account`, `AccountRaises` | `_record_usage`, the attempt, how the loop goes on |

The methods of the registry and the pool are whole here, `window` apart. What may
happen inside them is in SharedCircuit and SharedPool, where a step is what runs between
two calls: a coarser grain would not show those races, a finer one everywhere would
not let TLC finish. The price is stated by the properties: `LoneRefusalHonoured` asks
here that no other call to the provider was under way, and at the finer grain
`QuietRefusalHonoured` asks that no other thread was in the registry at all. That the
methods are what `Gateway` takes them for while they do not overlap is a refinement of its
own, see WholeCircuit.

Around the threads, `Tick` is one unit of time, `Snapshot` the status endpoint
(whose reading ends cooldowns) and `ObserveQuota` a call of `update_quota`, which
at this commit only the tests make.

Abstractions. Deadlines are kept as the time left, so that time needs no bound;
the rate window as its age. The score and with it the order of the candidates is
left open: any order is possible. The static side of a route (capability, policy,
usage class, free tier) is the parameter `Routes`, the sets of providers a request
may admit. Consecutive failures are counted up to the breaker's threshold,
beyond which the code makes no difference. Averages, totals and diagnostics are
left out.

### RequestContract

What a client of `complete()` is promised, without circuits, pool, time or other
requests: a request begins or is at once unavailable, calls providers one after the
other and none twice, has each call accounted for before the next, and ends at an
answer, at a failure that is not retryable, or when nobody is left. `GatewayProperties` maps
a frame of `Gateway` to it (`ImplementsContract`): the places of the frame to the
phase, its attempts to the calls, its usage events to what is billed. Routes, refused
reservations, records, reports and time are stutters.

### SharedCircuit

State: `clock`, the one `record` of a provider, each `thread`'s frame (where it is
and what it keeps in locals), and two history variables: `grants`, what the rate window
let through, and `refusal`, the last rate-limit refusal recorded. The code between two
calls (`health()`, `time.monotonic()`, `_record_latency()`, `max()`, the provider's)
is a step: `ReadDeadline` and `Refresh` are the two halves of `_refresh_cooldown`,
`Reserve`, `ReadWindowClock`, `Count` those of `reserve_request`, `CountFailure`,
`ReadFailureClock`, `Judge` and `WriteDeadline` those of `record_failure`; `ComputeDeadline`
stands before the write of a deadline that a limit of zero sets. Here time is the clock
itself, as instants go stale in the locals.

### WholeCircuit and CircuitRefinement

`WholeCircuit` is what `Gateway` assumes of the registry: a method reads and writes the
record in one step, with the operators of `ProviderRegistry`, and a record keeps times left
and ages. `CircuitRefinement` maps `SharedCircuit` to it. A method's one step is the
thread's entry into it (`Begin`, or `Return` from the provider); from there on, while the
thread is alone inside and time stands still, all it will do is determined, and `Rest` says
what it comes to from each of the nine places inside. The record of `WholeCircuit` is what
is pending (`PendingHealth`), with instants turned into times left by `Seen`; the other steps
of the method are stutters. `MethodsAloneAreWhole` asks no more than that methods do not
overlap at the step itself: what overlapped earlier may have left any record.

### SharedPool

State: `clock`, the `entry`, each `thread`'s frame and `lone`, the entry as
observations nobody raced left it. `Read` and `Refresh` are the two halves of `get`
(an entry is immutable: the refresh puts the ended *copy* in its place),
`Decide` is what `rejection_reasons` makes of its two lookups, `Apply` and `ApplyRaises` what
`ResourcePoolStateManager.apply` makes of its copy. The static side of the entry admits
the request; Routing has that.

### Routing

`Admits` is `eligible`, `PoolReasons` the bridge's `rejection_reasons`, `Described` its
descriptor, `PolicyFailures` the router's `_rejection_reasons`, `Score` its score and
`Before` its order. Shares are in hundredths and the score in thousandths, so that it is a
whole number; provider names are numbers in the order of the names.

### BuildContract

`ValidBuild` is what `BuildRequest` accepts, `Sound` what `ExecutionCorrelation` does,
`Create`, `ForAttempt` and `DeriveKey` its constructors and its key. SHA-256 is taken to
be one-to-one: a key stands for the identity it was made of. Texts are abstracted to
blank (missing, of another type, empty or too long) or not.

### HttpApi

State: `config` (token, loopback, memory), `operation` (Cantiere's correlation), the
`exchange` going on, the `memory` record behind each server, whether the Worker has
`composed` its gateway, and each server's `answer`. An exchange is one request with its circumstances (the gateway it finds and
what becomes of a call), given to both servers; `HandleLocal` and `HandleWorker` are the
whole handling of it by either, in any order. An answer is its status (None when an
exception closes the connection), what was asked of the components (`did`), the privacy
of the records it shows, the correlation a build ran under, and whether the providers were
probed on the way (`probed`). `StoreElsewhere` is a program on the device that does not go
through the API, `NextAttempt` a retry by Cantiere, `StartAfresh` the runtime that drops a
Worker with the gateway it built.

The Worker's `fetch` builds the gateway, and with it probes every provider there is a key
for, when the first request to an intelligence path comes, and dispatches it afterwards: so
`HandleWorker` is `WorkerReply`, the dispatch, and `Composing`, what came before it. What each
server makes of a token, of a header and of a body is its own (`LocalAuthorized`,
`WorkerAuthorized`, `Incomparable`; `LocalReads`, `WorkerReads`): the loopback server compares
texts as they are, the Worker trims the token and compares with `hmac.compare_digest`, which
raises for text that is not ASCII; the loopback server reads as many bytes as
Content-Length says and decodes them, the Worker is given a text. The kinds of `Tokens`,
`Headers` and `Bodies` are those that any of this tells apart.

An exchange's luck is what becomes of a call: among others a Retry-After without end
(`endless`), which the environment's gateway cannot write down, so that its exception comes
out of `complete()` and closes the connection, and a provider an earlier such call has
closed that way (`barred`).

Abstractions. What goes on over many requests is in the modules above: here the gateway
is what `Routing` makes of it and the memory one record. The types and ranges of a
body's fields are one flag (`wellformed`), a number no int can hold another
(`overflow`). Layout and wording of the answers are left out.

### OpenAICompatible

A reply is what the adapter can tell apart: status, whether the error text speaks
of quota, the Retry-After, and how much of a completion there is. `ErrorFor` is
`_provider_error_for`, `ProbedHealth` the health a failed probe leaves. The
gateway's instances take their failures and their startup states from it.

### ResourceLifecycle

State: `candidate`, `official` (the registry), `task` (what each thread is about in the
state manager), `saved` (the record of each resource a search finds first), `late` (records of
writes that were given up and may still be carried out), `errors`, and history variables:
`made` (the record made last of a resource), `newest` (what was last observed of it, by any
process), `probed` (what this process observed) and `overlapped` (of that, what two threads
applied at once). One action per method of the gate. A thread goes through
`ResourcePoolStateManager.apply` in three steps, between which others run: `Apply` replaces
the registry's entry, `Make` makes the record of the snapshot, whose `updated_at` is the
instant of its making, and `Saved` or `NotSaved` is what the Memory Fabric makes of the
write; `Land` is a write that timed out and is carried out later. `LookUp` and `Restore` are the
two parts of `restore`. `Refresh`, `Tick` and `Restart` are what they say.

Abstractions. The Memory Fabric is one node here: a search finds the record of the newest
`updated_at`, which is kept as a rank (`stamp`), and clocks neither go back nor tie. That
`apply` copies the entry it read before it replaces it is SharedPool's subject.

### MemoryFabric

State: `store`, each node's copy of one logical record; `task`, what each thread
is doing; `late`, requests that timed out and may still arrive; `created`, which
numbers the records (a checksum covers content, version and update time, so
records created separately differ); `acked`, a history variable with what was
reported as stored and where. A step is one request to one node. A *guarded* node is
Supabase: `CheckNode` is the adapter's read and check, `PostNode` the upsert with
the table's trigger. Any other node stores what it is given. Reads pass over what
is out of reach, absent or rotten; `Corrupt` makes a copy rot; `Restart` forgets
every call.

Abstractions. A project's record never expires (its ttl is None). A record is its
version, its checksum and whether its content still matches. The second pass of a
write differs from the first only in `replication_state`, which the checksum
does not cover.

### VersionedRegister

A guarded node, abstractly: a copy that only moves to a higher version or stays, and
promises that are only made of what is there. `MemoryFabric` maps the copies of its
guarded nodes and its reports to it (`ImplementsRegister`): reads, checks, calls under way,
lost answers, late requests, restarts and all that happens on other nodes are
stutters.

## 3. What the runs check

Passing runs:

| Run | Instance | Shows |
|---|---|---|
| `gateway_one` | 1 thread, 2 providers, one of them with a limit of 1 a window, any route, every failure the adapter raises, every health a probe leaves | the attempts, the ledger, the two timers and the cooldowns agree when requests do not overlap |
| `gateway_two` | 2 threads, 1 provider with an adapter and 1 without, time and status reads between any two steps | circuits stay consistent; a refusal nobody overlapped with is honoured by every thread |
| `gateway_live` | 1 thread, 2 providers with limits of 0 and 1, quotas observed, task ids that may be blank, busy clients | every request keeps RequestContract and ends, and so does every cooldown, in the circuit and in the pool |
| `circuit` | 2 threads in the methods of one circuit; no limit, a limit of 0 or 1, a spent quota; failures of each effect | no closure without an end, the average rate of the window, a refusal nobody was near is honoured, a method that runs alone is one step of WholeCircuit |
| `pool` | 2 threads on one entry, reading, judging and applying observations, one of them of an unknown metric | no verdict lets through what could not be scheduled at any moment of the call; an observation nobody raced is kept |
| `service` | both servers, every set-up and attempt, every method and path with and without query, with every kind of token, header and body, a Worker that has built its gateway or not; gateways of every kind and completions with every combination of flags; builds with every field of a correlation changed; records of every privacy | the ten properties of `HttpProperties` |
| `fabric_one` | 1 Supabase node, 2 threads, 2 records, a late request, rot, restarts, clients that resend and choose versions | what was reported stays; one record to a version; the node is a VersionedRegister |
| `fabric_two` | 2 Supabase nodes, one flaky, one rotting | what was reported stays when saves and replications carry copies between nodes |
| `lifecycle` | 2 candidates for one resource, 1 catalog resource, 2 threads, failing and late saves, restores, restarts | evidence before registration, observation before scheduling, no silent loss: the store finds the record made last or an error is kept, and only observations applied at once may be recorded in another order |

Violation runs. Each checks one sentence of the documentation (or a comment)
which the code does not keep; `PROJECT.json` ("findings") quotes it:

| Run | What the counterexample does |
|---|---|
| `gateway_overlap` | A is calling; B is told 429 and closes the circuit; A's answer opens it; B calls again |
| `gateway_no_deadline` | A's reservation is refused; B's success clears the deadline before A reads it; the pool is RATE_LIMITED for good |
| `fabric_rot` | node 1 is rotten, node 2 does not answer the read and does answer the write: the rotten copy replaces the healthy one |

`RateLimitHonoured` holds without overlap (`gateway_one`, and `RefusalProofs` for any
providers) and fails with it, and `TransientHasDeadline` fails with it where without it no
step breaks it (`TransientsComeWithDeadlines`); `LoneRefusalHonoured` says how far the
first goes for any number of threads. `HealthyReplicaWins` needs a replication and a rotten
copy to fail (`OnlyReplicationSpreadsRot`).

### Observations

Behaviours the models admit and no sentence of the documentation clearly rules out, or
that the code leaves to a caller. A maintainer may want to decide on them.

* A success that was under way overwrites `EXHAUSTED` in the pool with `HEALTHY`, as it
  overwrites a rate limit.
* A startup probe that fails leaves `DOWN` or `RATE_LIMITED` without a deadline, which no
  time ends: until a restart the resource is never asked again. `TransientsComeWithDeadlines`
  is about the steps after the probes; `PoolReopens` is checked where no probe found such a
  state.
* A blank `task_id` is found out only when the call is to be accounted for: the provider
  was called, no usage event is left, and the client is answered 400.
* The rate window is fixed, not sliding, and threads whose clock readings are stale may
  restart it one after the other: more requests than its limit may fall into one stretch
  of its length, though not on the average (`LongRunRate`).
* A refresh that runs late brings an older copy of a pool entry back over an observation
  applied meanwhile; `rejection_reasons` can admit a resource that is closed by the time it
  answers (`VerdictHonest` says when).
* Two saves that read the same version and win on different nodes are both reported as the
  next version, so that across nodes a version may name two records.
* `deprecate` takes a REJECTED candidate; `restore` makes a resource schedulable before
  this process has probed it; when the save of an EXHAUSTED fails, a restart and a
  restore bring back the HEALTHY saved before it.
* A Retry-After of `inf` raises `OverflowError` out of `complete()` when the bridge turns it
  into an instant (`intelligence/resource_pool.py:218`), after the provider was called; the
  circuit has its endless deadline by then, the pool nothing. A later request that still
  tries the provider is refused its reservation and raises again. Neither server catches it.
* Two threads that apply observations of one resource at once may record them in the other
  order: the store then keeps the older of the two, and no error tells
  (`LostSavesAreKnown` names the case). And a `restore` that has looked its record up may
  put it over an observation applied meanwhile.
* The Worker builds its gateway, with the probes of every provider, for whoever asks for an
  intelligence path first, and only then looks at the token: a client without it can have
  the providers probed, once for each start of the Worker (`FarClientsNeedTheToken`).
* `hmac.compare_digest` raises `TypeError` for text that is not ASCII: with such an
  Authorization, or such a token, the Worker gives no answer, where
  `docs/cloudflare-worker.md` says of a request without the token that it gets 401 and the
  loopback server answers so. The Worker trims its token and takes one of blanks for
  none, the loopback server does neither.
* A body that is not UTF-8, has a BOM or comes without Content-Length is an error to the
  loopback server and may be read by the Worker, to which the runtime gives a text.
* `MemoryFabric.write` raises `RuntimeError` when no node took the record, a number such as
  `Infinity` raises `OverflowError`, and so does the expiry of a record with a ttl no
  datetime can hold: none of them is caught, and the connection closes without an
  answer (`AnswerTellsWhatWasDone` names each case).
* The free-first bonus is 800 points for a cost that is free and 500 for access that is:
  a provider that is free is always before one that may cost something, but a
  cost-free one is not always before one with free access only.
* `free_only` of a *capability* is known to the router alone: the pool admits what is not
  free, and the router rejects it.
* The bridge's descriptor of a resource for PROTOTYPING stands for the development
  environment, which the pool does not admit it for: the pool has the last word
  (`LayersAgree` leaves the case out).
* `ProviderDescriptor.priority` is not held to be non-negative, as a resource's is; with a
  negative one and no pool the bound behind `FreeFirst` does not hold
  (`ExchangesAssumption` states it).
* The loopback server matches the path with its query, the Worker without: the same URL
  with a query is found by one only. To methods other than GET and POST the former answers
  501, the latter 401 or 404. `KnownDifference` lists all the differences of the two servers,
  with what each does, and `TransportsAgree` says that there are no others.
* Without a token the Worker answers 503 to everybody, the loopback server serves its own
  host.

## 4. Bounds

* Cooldowns are 1 to 4 units, in an order that covers that of the code
  (temporary < breaker < window < rate limit < quota) as far as it is told apart:
  what matters is which deadline comes first and whether it has come.
* Two threads: every property relates the steps of one request to at most one
  that overlaps it. Two providers for fallback, one where the threads must meet.
  The proofs cover any number.
* The breaker opens after 2 or 3 failures in a row (3 in the code).
* `MaxRecords` = 2: two records competing for a version, or one following the other;
  `MaxLate` = 1: one request that outlives its sender. Versions are bounded by
  the records.
* Replies: a status of each class `_provider_error_for` tells apart, and each kind of
  body. A Retry-After is absent, negative or 1; a negative one becomes 0, which
  the registry takes for none. Where two threads or liveness make the instance
  large, the failures are one of each effect on the circuit or the pool.
* `circuit`: the clock stops at 5 with windows and cooldowns of 1 to 4, so that a window or
  a cooldown may end and another begin while a reading of the clock is stale. `pool`:
  the clock stops at 2, a cooldown is 1, one metric. Only the clock stops: the
  threads go on. The history variables are what keeps the instances this small; the
  proofs cover any number of threads and any clock.
* `service`: two providers, as every property is about one provider or about the order of
  two, with the extremes of the score on either side; set-ups with every kind of token, and on
  loopback without one, and one that main() refuses to start; every kind of header and body where
  it is read; every field of a correlation
  changed in turn. Exchanges are given one after the other, which is enough: an answer
  depends on the set-up, the operation and the memory, all of which vary. The proofs cover
  any exchanges.
* `lifecycle`: two threads, the fewest that can overlap; of the catalog resource at most two
  records (`MaxRecords`), the fewest that can be saved in another order than they were
  observed; of the proposed one a single one. One unit is the length of a cooldown, so that
  two snapshots taken one after the other differ.
* `gateway_live` uses cooldowns of 1 and 2: enough for one deadline to come before
  another.

`CHECK_DEADLOCK` is on in every run: time can always pass in Gateway and
ResourceLifecycle, a restart is always possible in MemoryFabric, an idle thread can
always begin and a busy one go on in SharedCircuit and SharedPool, and in HttpApi a
request can arrive or be answered. Symmetry is used for the threads of `circuit`, `pool`,
`lifecycle` and the fabric's runs, none of which checks liveness.

## 5. Fairness

`FairSpec`: a thread that has begun a request runs on (`WF` of each thread's
`Advance`): the operating system schedules it, and the adapter's call returns
because the HTTP client has a timeout. `RequestsFinish` needs no more (it is checked
under `BusySpec`, with the other liveness properties, but uses nothing of what
that adds). `BusySpec` adds that time passes
(`SF` of `Tick`, strong because an instance that is not `Interleaved` lets time
pass only at some points of a request) and that clients keep asking (`WF` of
`Route`): a circuit is refreshed by whoever reads it, so with no client nothing
ends a cooldown, and nothing needs to. No fairness is assumed of `Snapshot` or
`ObserveQuota`.

## 6. What is proved

All for every value of the constants, from the assumptions the modules state
(the cooldowns are positive, the sets are what they are said to be).

* `GatewayProofs`. `TypeInv` strengthens `TypeOK` with `CircuitConsistent` and with
  `FrameOK`, what a frame holds at each place (a thread past `pick` has a
  candidate; one about to report a failure has its kind). The types alone are not
  inductive: a step that uses the candidate needs to know there is one.
  `TypeCorrect` and `CircuitsAreConsistent` follow. `AdapterFitsTheGateway` discharges what
  the Gateway assumes of its providers: from any reply the adapter makes a failure, and the
  probe a health, of the kinds the parameters `FailureModes` and `ProbeResults` range over.
* `RequestProofs`. `RequestOK` says of a frame at each place what of its calls is shown
  and accounted for: between calls all of it, from a call's return to its accounting all
  but that one. The candidates left are among those not called yet, which is why none is
  called twice. `AttemptsAreHonest`, `OnlyBlankTasksEscape` (with named and blank tasks in
  any mix, a finished request is accounted for exactly when it names its task),
  `EveryCallIsBilled` (so all are when none is blank) and `GatewayImplementsContract` follow:
  each action is a step of `RequestContract` or leaves it unchanged. `RequestsAreFinite` is
  the part of `RequestsFinish` that needs no fairness: `StepsLeft`, thirteen for each
  candidate left and what is left of the one in hand, goes down at each step that touches
  the request. Its subtle place is an answered call whose accounting raises
  (`AccountRaises`): it comes back as a failure, to be recorded and reported once more.
* `RefusalProofs`, with any number of threads. `RefusalsHeld` says why a lone refusal is
  honoured: while it runs, the circuit is closed for exactly the rest of its cooldown, and
  no thread has a call under way whose outcome could open it. Together with `TypeInv` it is
  inductive: no thread can start a call (the circuit is closed), so none can end
  one. `RefusalsAreHeld` and the action property `LoneRefusalsAreHonoured` follow.
  Both assume `QuotaObservations = {}`: `update_quota` may open a circuit, and
  under `src/` nothing calls it.
* `RefusalProofs`, with one request at a time (`LoneCaller`), for any providers, limits,
  quotas and cooldowns. These four are false when requests overlap: the first is what
  `gateway_overlap` refutes, and the last what `gateway_no_deadline` does in terms of states.
  `LoneCallersAreHonoured` (`QuotaObservations = {}` again): every refusal is a lone one,
  even with time between any two statements. `ExhaustionNeedsEvidence` rests on
  `EngagedAreSchedulable`: the candidates a request has ahead and the one in hand, until its
  outcome is reported, are as schedulable as when they were routed, as nobody else is there
  to close them; so no report of a success ever finds an exhausted resource. `DeadlinesAreProjected` and `TransientsHaveDeadlines` rest on
  `DeadlineInv`: a resource in a cooldown runs out with its circuit, and between a failure's
  record and its report the circuit holds the deadline the report will copy. They assume
  `~Interleaved`, that no time passes between the statements of a request (it does while the
  provider is asked): the deadline left is read before it is projected, and whatever passes
  in between is the difference between the two timers. Neither asks anything of the startup
  probes: `TransientsHaveDeadlines` says of every step that it closes no resource for a while
  without a deadline, whatever was left open-ended before (section 3, Observations).
* `SharedCircuitProofs`. `NeverClosedForGood` is inductive with the types: whoever sets a
  closed state without its deadline is on the way to writing it, and no other step clears
  a deadline without opening. `RateBounded` rests on `RateInv`: windows start at least a
  window apart, and what was let through fills the past ones and `used` of this one.
  `QuietRefusalsHonoured` rests on `QuietInv`: while such a refusal runs, the record is
  closed for exactly its cooldown, and the threads in the registry are readers that have
  read no other deadline. `MethodsAloneTakenWhole` goes through `SharedCircuit` action by
  action: an entry is the method of `WholeCircuit` (`BeginWhole`, `ReturnWhole`), time between
  methods its `Elapse` (`SeenElapsed`), and each step inside leaves `Rest` as it was
  (`RefreshAlike`, `ReserveAlike`, `WindowAlike`, `RecordAlike`, `DeadlineAlike`). Besides the
  types it needs `Begun`: the rate window never starts after the present instant, or its
  age would be negative. `CircuitAloneIsWhole` adds the initial states: the circuit of a server
  whose methods never overlap (`[]OneAtATime`) and take no time (`[][Prompt]_vars`)
  implements `WholeCircuit`, which is the sense in which `Gateway` may take them whole.
* `SharedPoolProofs`. `LoneInv`: the copies threads hold of a lone observation are that
  observation, or will be replaced with its quotas. `VerdictInv`: every copy an undisturbed
  `rejection_reasons` took was the entry at a moment of the call. `PoolTyped`,
  `LoneObservationsKept` and `VerdictsHonest` follow.
* `HttpProofs`. All ten properties of the service. For the router: whoever is a candidate
  has passed every test (`CandidatesPass`), and with every quantity in its range a
  cost-free provider scores at least 680 points and one that may cost something at
  most 550, so that free comes first. For the servers, `ServersInv`: each answer is
  what that server would answer in the present state, the probes apart, as the answer to a
  write does not depend on the memory it changes; every answer is one of the cases of
  `Handled`, and the properties are about those. `DispatchersAgree` goes through the ways in
  which a request is turned away by one server only, each of which is a `KnownDifference`,
  and past them the two run the same code on the same content. `OperationInv` is the identity Cantiere's correlation
  keeps over attempts; a correlation changed in a field of its identity no longer fits
  its key (`TamperedIsKnown`).
* `MemoryFabricProofs`. `FabricInv`: every record in a store, in a task's hand or
  on its way is *genuine* (its checksum belongs to the version it was created
  with), what a task counts as stored is still there or was replaced by something
  newer, and so is what was reported. A guarded node only changes through the trigger, which
  lets through a higher version or the same record; the other conjuncts carry that to the
  reports. `FabricTypeCorrect`, `ReportedRecordsAreKept` and
  `VersionsAreUniqueOnANode` follow, for any number of nodes and threads, and
  `FabricImplementsRegister`: every step is one of `VersionedRegister` on the guarded
  nodes, or leaves them and the reports as they are. `OnlyReplicationSpreadsRot` is the other
  side of `fabric_rot`: where nothing is replicated (`Sources = {}`) or nothing rots
  (`Corruptible = {}`), a usable copy only becomes unusable by rotting where it is. Its
  invariant `IntactInv` follows the records in a task's hand and on their way: a save or a
  client's write only ever carries whole ones.
* `ResourceLifecycleProofs`, for any number of threads. `PromotionNeedsEvidence` is inductive
  with the types; `SchedulingNeedsObservation` needs that every record, saved, late or in a
  thread's hand, is of an observation. `FailedSavesAreRemembered` rests on two more: a record
  that is older than the one made last has the smaller stamp (`Fits`), so no late write
  can hide it, and the record made last of a resource is stored, on its way, lost with an
  error, or about to be followed (`KeptInv`); and while observations of a resource come one at
  a time, the one applied is the newest, and then its record is (`SingleInv`).
  `LifecycleTypeCorrect` is their type invariant.

Only model-checked: the liveness properties `RequestsFinish`, `CircuitReopens` and
`PoolReopens` (fairness and ENABLED are out of the prover's reach; `RequestsAreFinite` is
the safety half of the first), and what the violation runs show. Every safety invariant and
action property that a passing run checks is stated by a theorem.

## 7. Running it

    tlc -workers 2 -config gateway_two.cfg MCGateway.tla
    tlapm RefusalProofs.tla

The runs named `gateway_*` use `MCGateway`, `fabric_*` use `MCMemoryFabric`, `lifecycle`
uses `MCResourceLifecycle`, `circuit` `MCSharedCircuit`, `pool` `MCSharedPool` and `service`
`MCHttpApi`. The longest, `lifecycle`, takes about three minutes.

## 8. Not modelled, and what is left

Left out, as they keep no state or nothing under `src/` reaches them:

* the mock engine (a deterministic stub) and the response types, the ports and the null
  integrations, the catalog's descriptions and other static data, logging and wording;
* `RemoteExecutionEvidence` and `recovery_action_for` of `execution/contracts.py`, which
  no server or service calls;
* the usage ledger's totals by provider and by project, its token counts and its store:
  they only add up what is recorded, and `Gateway` has what is recorded;
* the fabric's `sync` and `health`, which change nothing here; of `search` only what it
  makes of an expiry (`Found`), and records with a ttl in `MemoryFabric`;
* averages, totals and diagnostics of the registry: they feed the order of a route, which
  `Gateway` leaves open and `Routing` computes from any values;
* instants out of a datetime's range in `Gateway`, whose delays are bounded: what a
  Retry-After of `inf` does to one request is in `HttpApi` (`endless`), not what it leaves
  behind in circuit and pool over many;
* a client that sends less than its Content-Length: the loopback server's read blocks its
  own thread and nobody else's.

What could still be added:

1. Liveness of the fabric's calls under a fairness of their own, and a client that retries
   until a write is reported.
2. The pool's snapshots on several memory nodes: `ResourceLifecycle` saves to one store
   that may fail, `MemoryFabric` has several nodes but one record; their composition
   would show which snapshot a restore finds.
3. The Gateway at the grain of SharedCircuit and SharedPool in one state machine, on an
   instance small enough for TLC.
