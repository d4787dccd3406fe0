-------------------------------- MODULE HttpApi --------------------------------
(***************************************************************************)
(* The two servers in front of the one service: the loopback server        *)
(* (http_api.py, main.py) and the Cloudflare Worker (cloudflare_api.py,    *)
(* cloudflare_worker.py).  Each exchange is one request, given to both in  *)
(* the same circumstances; a step is the whole handling of it by one.      *)
(*                                                                         *)
(* What the components do over many requests is in modules of their own:   *)
(* here a gateway is what Routing makes of it, the memory one record, and  *)
(* the exchange's luck says what becomes of a call: it is "answered", it   *)
(* "failed", every provider was "refused" a reservation, it failed with an *)
(* "endless" Retry-After, or its provider was "barred" by an earlier one.  *)
(* A server may be given a memory, though neither entry point does so yet. *)
(***************************************************************************)
EXTENDS Routing, BuildContract

CONSTANTS
    Exchanges,  \* what may come: [gateway, luck, near, request]
    Levels,     \* the privacy levels some writable node of the memory accepts
    Identity,   \* the operation Cantiere has AIrLab work on
    Attempts,   \* the names of its attempts at it
    Configs     \* how the servers may be set up: [token, loopback, memory]

Servers == {"local", "worker"}

PrivacyLevel == {"public", "project", "private", "device_only", "secret"}

\* What never passes the API.
RemoteForbidden == {"device_only", "secret"}

MemoryPaths == {"memory_health", "write", "read", "search", "sync", "replicate",
                "memory_other"}

\* What fetch builds the gateway for.
GatewayPaths == {"gateway_capabilities", "gateway_providers", "gateway_other", "chat"}

Paths == MemoryPaths \cup GatewayPaths \cup {"health", "capabilities", "tasks", "other"}

\* The configured token: there is none, it is plain, it has blanks in front, it is nothing
\* but blanks, or it is not ASCII.  The Authorization of a request: with that token as it
\* is, with the token trimmed, not ASCII for another reason, or none of these.
Tokens == {"none", "plain", "padded", "blank", "foreign"}
Headers == {"exact", "trimmed", "foreign", "other"}

\* A body: a JSON object; one that only request.text() makes readable (bytes that are not
\* UTF-8, a BOM, no Content-Length); nothing that can be read; nested too deep to be read.
Bodies == {"object", "loose", "broken", "deep"}

\* A body of POST /v1/tasks: its correlation is absent, Cantiere's own, or that with the
\* field it names changed on the way.
BuildContent ==
    [wellformed : BOOLEAN, mode : STRING, task_family : STRING, task_kind : STRING,
     project_id : STRING, correlation : {None, "own"} \cup CorrelationFields,
     artifacts : SUBSET STRING, profile : BOOLEAN]

\* A body of POST /v1/chat/completions, wellformed or not; overflow is a number no int
\* can hold, such as Infinity, where the parser finds nothing amiss before it.
ChatContent ==
    [wellformed : BOOLEAN, overflow : BOOLEAN, blank : BOOLEAN, capability : STRING,
     environment : Environments, privacy : DOMAIN PrivacyRank, context : Nat,
     complexity : 0 .. 100, paid_allowed : Optional(BOOLEAN),
     free_only : Optional(BOOLEAN), free_first : Optional(BOOLEAN)]

\* What is known of a provider is in range, and its descriptor is the one the bridge
\* made of its pool entry.
ProviderSound(g, p) ==
    LET d == g.descriptor[p]
        h == g.circuit[p]
        e == g.entry[p]
    IN  /\ d.quality \in 0 .. 100 /\ d.error \in 0 .. 100 /\ h.success \in 0 .. 100
        /\ d.latency \in Optional(Nat) /\ h.latency \in Optional(Nat)
        /\ h.quota \in Optional(Int) /\ d.priority \in Nat
        /\ g.pooled /\ e # None =>
             /\ d = Described(e, d)
             /\ e.priority \in Nat
             /\ e.usage \subseteq Environments \cup {"prototyping"}
             /\ e.free_tier \in BOOLEAN /\ e.development_only \in BOOLEAN
             /\ e.spent \in BOOLEAN

ASSUME ExchangesAssumption ==
    \A x \in Exchanges :
        /\ x # None
        /\ x.luck \in {"answered", "failed", "refused", "endless", "barred"}
        /\ x.request.path \in Paths
        /\ x.request.header \in Headers /\ x.request.body \in Bodies
        /\ x.request.path = "tasks" => x.request.content \in BuildContent
        /\ x.request.path = "chat" => x.request.content \in ChatContent
        /\ x.gateway # None =>
             /\ x.gateway.pooled \in BOOLEAN
             /\ \A p \in Providers : ProviderSound(x.gateway, p)

ASSUME ConfigsAssumption == \A c \in Configs : c.token \in Tokens

ASSUME IdentityAssumption ==
    /\ None \notin {Blank, "own"}
    /\ \A f \in IdentityFields : Identity[f] # Blank
    /\ Blank \notin Attempts

VARIABLES
    config,     \* how the servers were set up
    operation,  \* the correlation Cantiere holds
    exchange,   \* the exchange going on, or None
    memory,     \* the record behind each server's fabric, or None
    composed,   \* whether the Worker has built its gateway
    answer      \* each server's answer, None until it is done

vars == <<config, operation, exchange, memory, composed, answer>>

Request == exchange.request
Content == exchange.request.content

\* The answer of a server.  A status of None is none at all: an exception nobody
\* catches closes the connection.  did is what was asked of the components, shown
\* the privacy of the records in the answer, build the correlation that went with a
\* build, and probed whether the providers were probed on the way.
Reply(status, did) ==
    [status |-> status, did |-> did, shown |-> {}, build |-> None, probed |-> FALSE]

\* The answer to a body that cannot be read: a RecursionError is nobody's to catch.
Unread == Reply(IF Request.body = "deep" THEN None ELSE 400, {})

-----------------------------------------------------------------------------
(***************************************************************************)
(* The handling of a content, which the two servers import.                *)
(***************************************************************************)

\* A correlation with one field changed on its way.
Tampered(c, field) ==
    [c EXCEPT ![field] = CASE field = "schema_version" -> 2
                           [] field = "idempotency_key" -> [@ EXCEPT !.task_id = "forged"]
                           [] OTHER -> "forged"]

\* The build in the content.
BuildOf(c) ==
    [c EXCEPT !.correlation = IF @ = None THEN None
                              ELSE IF @ = "own" THEN operation
                              ELSE Tampered(operation, @)]

Building ==
    IF ValidBuild(BuildOf(Content))
    THEN [Reply(200, {"build"}) EXCEPT !.build = BuildOf(Content).correlation]
    ELSE Reply(400, {})

\* A flag of the request: what it says, or the default.
Flag(value, default) == IF value = None THEN default ELSE value

\* A bug: a request that is not free_only may spend.
PolicyMaySpend(c) ==
    [environment  |-> c.environment,
     privacy      |-> c.privacy,
     paid_allowed |-> c.free_only = FALSE,
     free_only    |-> Flag(c.free_only, TRUE),
     free_first   |-> Flag(c.free_first, TRUE)]

\* parse_chat_completion_request, of a body whose fields are of their types.
Policy(c) ==
    LET paid == Flag(c.paid_allowed, FALSE)
    IN  [environment  |-> c.environment,
         privacy      |-> c.privacy,
         paid_allowed |-> paid,
         free_only    |-> Flag(c.free_only, ~paid),
         free_first   |-> Flag(c.free_first, TRUE)]

RouteOf(c) == [capability |-> c.capability, context |-> c.context,
               complexity |-> c.complexity, policy |-> Policy(c)]

\* GatewayUnavailable before anybody was called: an unknown capability, or no candidate.
Unroutable ==
    \/ Content.capability \notin DOMAIN Capabilities
    \/ Candidates(exchange.gateway, RouteOf(Content)) = {}

\* A bug: the fields are only looked at after the providers have answered.
CompletingFirst ==
    IF Content.overflow THEN Reply(None, {})
    ELSE IF Unroutable THEN Reply(503, {})
    ELSE IF exchange.luck = "refused" THEN Reply(503, {})
    ELSE IF Content.blank \/ ~Content.wellformed THEN Reply(400, {"complete"})
    ELSE Reply(IF exchange.luck = "answered" THEN 200 ELSE 503, {"complete"})

\* The environment's gateway, the one with a pool, writes a closure's end down as a date:
\* for an endless one it raises an OverflowError.  It also accounts for the calls, and
\* finds a blank task_id when the first is made.
Completing ==
    IF ~Content.wellformed THEN Reply(400, {})
    ELSE IF Content.overflow THEN Reply(None, {})
    ELSE IF Unroutable THEN Reply(503, {})
    ELSE IF exchange.luck = "refused" THEN Reply(503, {})
    ELSE IF exchange.luck = "barred"
    THEN Reply(IF exchange.gateway.pooled THEN None ELSE 503, {})
    ELSE IF exchange.gateway.pooled /\ exchange.luck = "endless"
    THEN Reply(None, {"complete"})
    ELSE IF exchange.gateway.pooled /\ Content.blank THEN Reply(400, {"complete"})
    ELSE Reply(IF exchange.luck = "answered" THEN 200 ELSE 503, {"complete"})

\* MemoryRecord.from_json and checksum_valid, the privacy of the API, then the fabric:
\* no node for that privacy, no node that took it, or stored.
Writing ==
    IF ~Content.wellformed THEN Reply(400, {})
    ELSE IF Content.overflow THEN Reply(None, {})
    ELSE IF Content.privacy \in RemoteForbidden \/ Content.privacy \notin Levels
    THEN Reply(403, {})
    ELSE IF exchange.luck # "answered" THEN Reply(None, {})
    ELSE [Reply(200, {"write"}) EXCEPT !.shown = {Content.privacy}]

\* A bug: what the memory has is shown.
ReadingAny(m) ==
    IF ~Content.wellformed THEN Reply(400, {})
    ELSE IF m = None THEN Reply(404, {})
    ELSE IF m.endless THEN Reply(None, {})
    ELSE [Reply(200, {}) EXCEPT !.shown = {m.privacy}]

\* The record m is absent, expires at an instant no datetime can hold, or is judged.
Reading(m) ==
    IF ~Content.wellformed THEN Reply(400, {})
    ELSE IF m = None THEN Reply(404, {})
    ELSE IF m.endless THEN Reply(None, {})
    ELSE IF m.privacy \in RemoteForbidden THEN Reply(403, {})
    ELSE [Reply(200, {}) EXCEPT !.shown = {m.privacy}]

\* MemoryFabric.search: unless the query includes what has expired, the node's own search
\* is the first to compute the expiry; the fabric catches what it raises and goes without
\* the node.
Found(m) ==
    IF m = None \/ (m.endless /\ ~Content.include_expired) THEN {} ELSE {m.privacy}

Searching(m) ==
    IF ~Content.wellformed THEN Reply(400, {})
    ELSE IF Content.overflow THEN Reply(None, {})
    ELSE [Reply(200, {}) EXCEPT !.shown = Found(m) \ RemoteForbidden]

\* dispatch_memory_request, with a body if there is one.
MemoryReply(method, path, m) ==
    CASE method = "GET" /\ path = "memory_health" -> Reply(200, {})
      [] method # "POST" /\ ~(method = "GET" /\ path = "memory_health") -> Reply(404, {})
      [] method = "POST" /\ path = "write" -> Writing
      [] method = "POST" /\ path = "read" -> Reading(m)
      [] method = "POST" /\ path = "search" -> Searching(m)
      [] method = "POST" /\ path = "sync" -> Reply(200, {})
      [] method = "POST" /\ path = "replicate" ->
           Reply(IF Content.wellformed THEN 200 ELSE 400, {})
      [] method = "POST" /\ path \in {"memory_health", "memory_other"} -> Reply(404, {})

-----------------------------------------------------------------------------
(***************************************************************************)
(* The loopback server.                                                    *)
(***************************************************************************)

\* _authorized: the header is that of the token as it is configured.
LocalAuthorized ==
    \/ config.token = "none"
    \/ Request.header = "exact"
    \/ Request.header = "trimmed" /\ config.token \in {"plain", "foreign"}

LocalReads == Request.body = "object"

\* The path as it matches it: the query is part of it.
LocalPath ==
    IF ~Request.query THEN Request.path
    ELSE IF Request.path \in MemoryPaths THEN "memory_other" ELSE "other"

LocalGet ==
    CASE LocalPath \in {"health", "capabilities"} -> Reply(200, {})
      [] LocalPath \in {"gateway_capabilities", "gateway_providers"} ->
           Reply(IF exchange.gateway = None THEN 503 ELSE 200, {})
      [] LocalPath \in {"gateway_other", "tasks", "chat", "other"} -> Reply(404, {})

LocalPost ==
    IF LocalPath \notin {"tasks", "chat"} THEN Reply(404, {})
    ELSE IF ~LocalReads THEN Unread
    ELSE IF LocalPath = "tasks" THEN Building
    ELSE IF exchange.gateway = None THEN Reply(503, {})
    ELSE Completing

LocalMemory ==
    IF ~config.memory THEN Reply(503, {})
    ELSE IF Request.method = "POST" /\ ~LocalReads THEN Unread
    ELSE MemoryReply(Request.method, LocalPath, memory["local"])

\* do_GET and do_POST; to any other method the base class answers 501.
LocalReply ==
    IF Request.method \notin {"GET", "POST"} THEN Reply(501, {})
    ELSE IF ~LocalAuthorized THEN Reply(401, {})
    ELSE IF LocalPath \in MemoryPaths THEN LocalMemory
    ELSE IF Request.method = "GET" THEN LocalGet ELSE LocalPost

-----------------------------------------------------------------------------
(***************************************************************************)
(* The Worker.                                                             *)
(***************************************************************************)
\* The header is that of the token without the blanks around it.
WorkerAuthorized ==
    \/ Request.header = "trimmed"
    \/ Request.header = "exact" /\ config.token = "plain"

\* compare_digest raises a TypeError for text that is not ASCII.
Incomparable == "foreign" \in {config.token, Request.header}

WorkerReads == Request.body \in {"object", "loose"}

WorkerGet ==
    CASE Request.path \in {"health", "capabilities"} -> Reply(200, {})
      [] Request.path \in {"gateway_capabilities", "gateway_providers"} ->
           Reply(IF exchange.gateway = None THEN 503 ELSE 200, {})
      [] Request.path \in {"gateway_other", "tasks", "chat", "other"} -> Reply(404, {})

\* A bug: the gateway is looked for before the body is read.
WorkerPostGatewayFirst ==
    IF Request.path \notin {"tasks", "chat"} THEN Reply(404, {})
    ELSE IF Request.path = "chat" /\ exchange.gateway = None THEN Reply(503, {})
    ELSE IF ~WorkerReads THEN Unread
    ELSE IF Request.path = "tasks" THEN Building ELSE Completing

WorkerPost ==
    IF Request.path \notin {"tasks", "chat"} THEN Reply(404, {})
    ELSE IF ~WorkerReads THEN Unread
    ELSE IF Request.path = "tasks" THEN Building
    ELSE IF exchange.gateway = None THEN Reply(503, {})
    ELSE Completing

WorkerMemory ==
    IF ~config.memory THEN Reply(503, {})
    ELSE IF Request.method = "POST" /\ ~WorkerReads THEN Unread
    ELSE MemoryReply(Request.method, Request.path, memory["worker"])

\* dispatch_cloudflare_request, which fetch gives the path without its query.
WorkerReply ==
    IF config.token \in {"none", "blank"} THEN Reply(503, {})
    ELSE IF Incomparable THEN Reply(None, {})
    ELSE IF ~WorkerAuthorized THEN Reply(401, {})
    ELSE IF Request.path \in MemoryPaths THEN WorkerMemory
    ELSE IF Request.method = "GET" THEN WorkerGet
    ELSE IF Request.method = "POST" THEN WorkerPost
    ELSE Reply(404, {})

-----------------------------------------------------------------------------
\* A bug: any host will do.
StartsAnywhere(c) == TRUE

\* main() refuses a host that is not loopback when there is no token.
Starts(c) == c.loopback \/ c.token # "none"

\* The correlation of an attempt at the operation.
Operation(attempt) ==
    Create([f \in RequiredFields |->
              IF f = "attempt_id" THEN attempt ELSE Identity[f]])

Init ==
    /\ config \in {c \in Configs : Starts(c)}
    /\ operation \in {Operation(a) : a \in Attempts}
    /\ exchange = None
    /\ memory = [s \in Servers |-> None]
    /\ composed = FALSE
    /\ answer = [s \in Servers |-> None]

\* Whom the request reaches: a loopback server only has clients on its own host.
Reaches(s) == s = "worker" \/ exchange.near \/ ~config.loopback

Idle == exchange = None

Arrive ==
    /\ Idle
    /\ exchange' \in Exchanges
    /\ UNCHANGED <<config, operation, memory, composed, answer>>

Handle(s, reply) ==
    /\ ~Idle
    /\ Reaches(s)
    /\ answer[s] = None
    /\ answer' = [answer EXCEPT ![s] = reply]
    /\ memory' = IF "write" \in reply.did
                 THEN [memory EXCEPT ![s] = [privacy |-> Content.privacy,
                                             endless |-> Content.endless]]
                 ELSE memory
    /\ UNCHANGED <<config, operation, exchange>>

HandleLocal ==
    /\ Handle("local", LocalReply)
    /\ UNCHANGED composed

\* fetch builds the gateway, and has it probe every provider there is a key for, when the
\* first request for it comes, and only then looks at the token.  A dispatcher in another
\* program may be given no gateway.
Composing ==
    /\ exchange.gateway # None
    /\ Request.path \in GatewayPaths
    /\ ~composed

HandleWorker ==
    /\ Handle("worker", [WorkerReply EXCEPT !.probed = Composing])
    /\ composed' = (composed \/ Composing)

\* The runtime starts the Worker afresh.
StartAfresh ==
    /\ Idle
    /\ composed
    /\ composed' = FALSE
    /\ UNCHANGED <<config, operation, exchange, memory, answer>>

Done == ~Idle /\ \A s \in Servers : Reaches(s) => answer[s] # None

\* Both servers have answered and are asked something else.
Leave ==
    /\ Done
    /\ exchange' = None
    /\ answer' = [s \in Servers |-> None]
    /\ UNCHANGED <<config, operation, memory, composed>>

\* A program on the device, which does not go through the API, stores a record of any
\* privacy in the memory behind both.
StoreElsewhere ==
    /\ Idle
    /\ config.memory
    /\ \E p \in PrivacyLevel :
         memory' = [s \in Servers |-> [privacy |-> p, endless |-> FALSE]]
    /\ UNCHANGED <<config, operation, exchange, composed, answer>>

\* Cantiere goes on with a new attempt.
NextAttempt ==
    /\ Idle
    /\ \E a \in Attempts \ {operation.attempt_id} :
         operation' = ForAttempt(operation, a, None)
    /\ UNCHANGED <<config, exchange, memory, composed, answer>>

Next ==
    \/ Arrive \/ HandleLocal \/ HandleWorker \/ Leave
    \/ StartAfresh \/ StoreElsewhere \/ NextAttempt

Spec == Init /\ [][Next]_vars
=============================================================================
