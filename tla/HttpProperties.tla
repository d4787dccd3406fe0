----------------------------- MODULE HttpProperties -----------------------------
(***************************************************************************)
(* What AIrLab's clients rely on, whichever server they talk to.           *)
(***************************************************************************)
EXTENDS HttpApi

Answered(s) == ~Idle /\ answer[s] # None

\* The fate of a request that was not turned away for what it is.
Delivered(s) ==
    /\ Answered(s)
    /\ answer[s].status \notin {401, 404, 501, 503}
    /\ ~(s = "worker" /\ Incomparable)

\* What a server answered and did, the Worker's probes apart.
Outcome(s) == [answer[s] EXCEPT !.probed = FALSE]

\* Where the two servers are known to differ, and how: a token that one of them does not
\* take for one; blanks around it, which only the Worker trims; text that is not ASCII,
\* for which the Worker has no answer; methods of which the loopback server knows two;
\* the query, which it takes for a part of the path; and what it reads of a body.
KnownDifference ==
    LET local == Outcome("local")
        worker == Outcome("worker")
    IN  \/ config.token \in {"none", "blank"} /\ worker = Reply(503, {})
        \/ config.token = "padded" /\ 401 \in {local.status, worker.status}
        \/ Incomparable /\ worker.status = None /\ worker.did = {}
        \/ /\ Request.method \notin {"GET", "POST"}
           /\ local = Reply(501, {}) /\ worker.did = {}
        \/ Request.query /\ local.status # 200 /\ local.did = {}
        \/ Request.body = "loose" /\ local = Reply(400, {})

\* The Worker maps requests "onto the stable AIrLab HTTP contract" (cloudflare_api.py:50):
\* the two dispatchers, written separately, give the same answer to the same request
\* and ask the same of the components, but for the known differences.
TransportsAgree ==
    Done /\ Reaches("local") /\ memory["local"] = memory["worker"] =>
        Outcome("local") = Outcome("worker") \/ KnownDifference

\* A status tells what was done.  What a 2xx answers was done; behind any other answer
\* nothing was built or stored, and a provider was called only in vain or for a task_id
\* that cannot be accounted for (http_api.py:160); a connection is closed without an
\* answer only for a header the Worker cannot compare (cloudflare_api.py:63), a body
\* nested too deep (http_api.py:49), a number no int can hold, a closure without an end
\* that the pool cannot write down (resource_pool.py:218), a write no node took
\* (http_api.py:128) or a record that expires after the end of time
\* (memory/model.py:171).
AnswerTellsWhatWasDone ==
    \A s \in Servers : Answered(s) =>
        LET a == answer[s]
        IN  /\ a.status = 200 /\ Request.path = "chat" => a.did = {"complete"}
            /\ a.status # 200 /\ a.did # {} =>
                 /\ a.did = {"complete"}
                 /\ Content.wellformed
                 /\ Content.blank \/ exchange.luck \in {"failed", "endless"}
            /\ a.status = None =>
                 \/ s = "worker" /\ Incomparable /\ a.did = {}
                 \/ Request.body = "deep" /\ a.did = {}
                 \/ Request.path \in {"write", "search", "chat"} /\ Content.overflow
                 \/ /\ Request.path = "chat" /\ exchange.gateway.pooled
                    /\ a.did = {"complete"} \/ exchange.luck = "barred"
                 \/ Request.path = "write" /\ exchange.luck # "answered"
                 \/ Request.path = "read" /\ memory[s].endless

\* "Those privacy classes must never leave the originating device" (memory/api.py:40):
\* no answer shows a device_only or secret record, whoever stored it, and no request
\* stores one.
PrivateStaysHome ==
    \A s \in Servers : Answered(s) =>
        /\ answer[s].shown \cap RemoteForbidden = {}
        /\ "write" \in answer[s].did => memory[s].privacy \notin RemoteForbidden

\* A client on another host that does not have the token, however the servers were
\* started (main.py:30), is shown nothing and has nothing built, stored or completed; all
\* it can bring about is that the Worker builds its gateway and probes the providers,
\* which it does before it looks at the token (cloudflare_worker.py:58).
FarClientsNeedTheToken ==
    ~Idle /\ ~exchange.near /\ Request.header \notin {"exact", "trimmed"} =>
        \A s \in Servers : answer[s] # None =>
            LET a == answer[s]
            IN  /\ a.status \in {401, 501, 503, None}
                /\ a.did = {} /\ a.shown = {} /\ a.build = None
                /\ a.probed => s = "worker" /\ Request.path \in GatewayPaths

\* A request that carries Cantiere's correlation, about its project and its kind.
OwnBuild ==
    /\ Request.method = "POST" /\ Request.path = "tasks"
    /\ Content.correlation = "own"
    /\ Content.project_id = Identity.project_id
    /\ KindOf(Content) = Identity.operation_id
    /\ ValidBuild([Content EXCEPT !.correlation = None])

\* Cantiere may retry an operation under a new attempt any number of times and AIrLab
\* still knows it: the key derived of the operation stays good (execution/contracts.py:66).
OwnRetriesRun ==
    \A s \in Servers : Delivered(s) /\ OwnBuild /\ Request.body = "object" =>
        /\ answer[s].status = 200
        /\ answer[s].build = operation

\* No build runs under a correlation that was changed in any field that identifies the
\* operation, or that is about another project or another kind of task.
NothingForgedRuns ==
    \A s \in Servers : Answered(s) /\ answer[s].build # None =>
        /\ \A f \in IdentityFields : answer[s].build[f] = Identity[f]
        /\ Content.project_id = Identity.project_id
        /\ KindOf(Content) = Identity.operation_id

-----------------------------------------------------------------------------
\* A completion is to be routed.
Routed ==
    /\ ~Idle
    /\ exchange.gateway # None
    /\ Request.path = "chat"
    /\ Content.wellformed
    /\ Content.capability \in DOMAIN Capabilities

Gateway == exchange.gateway
Route == RouteOf(Content)

\* Without paid_allowed no request reaches a provider that may cost something, by
\* whichever of the flags, defaults and filters it comes (openai_compat.py:73,
\* router.py:98, resource_pool.py:93).
SpendNeedsConsent ==
    Routed /\ Content.paid_allowed # TRUE =>
        \A p \in Candidates(Gateway, Route) : SpendSafe(Gateway.descriptor[p])

\* Free first: a provider that is free is tried before any that may cost something,
\* whatever their quality, latency, priority and record (router.py:144).
FreeFirst ==
    Routed /\ Route.policy.free_first =>
        \A p, q \in Candidates(Gateway, Route) :
            Gateway.descriptor[p].cost = "free" /\ ~SpendSafe(Gateway.descriptor[q])
            => Before(Gateway, Route, p, q)

\* What eligible() leaves out always has a reason: rejection_reasons decides by the
\* reasons it finds again, and would otherwise admit it (resource_pool.py:93).
ReasonsComplete ==
    Routed /\ Gateway.pooled =>
        \A p \in Providers :
            \/ PoolReasons(Gateway.entry[p], Route) # {}
            \/ Gateway.entry[p] # None /\ Admits(Gateway.entry[p], Route)

\* The router checks the environment and the cost once more, on a descriptor made of the
\* pool's entry at startup (resource_pool.py:234), and the two agree: the descriptor
\* stands for no environment the pool refuses, prototyping apart, and for every one it
\* admits, at no cost where it has to be free.
LayersAgree ==
    Routed /\ Gateway.pooled =>
        \A p \in Providers : Gateway.entry[p] # None =>
            LET e == Gateway.entry[p]
                d == Gateway.descriptor[p]
                x == Route.policy.environment
                usage == {"resource_usage_class", "resource_development_only"}
            IN  /\ Admits(e, Route) =>
                     /\ x \in d.environments
                     /\ x = "commercial" => d.commercial
                     /\ RequireFree(Route.policy) => d.cost = "free"
                /\ x \in d.environments /\ ~(x = "development" /\ "prototyping" \in e.usage)
                     => PoolReasons(e, Route) \cap usage = {}
=============================================================================
