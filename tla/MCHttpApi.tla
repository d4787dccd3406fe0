------------------------------- MODULE MCHttpApi -------------------------------
(***************************************************************************)
(* Instances of the two servers for TLC: two providers, the second one     *)
(* that costs something and scores as high as can be; a memory that takes  *)
(* two privacy levels; one operation and two attempts.                     *)
(***************************************************************************)
EXTENDS HttpProperties

Setups ==
    {[token |-> "plain", loopback |-> FALSE, memory |-> TRUE],
     [token |-> "none", loopback |-> TRUE, memory |-> TRUE],
     [token |-> "none", loopback |-> FALSE, memory |-> FALSE]}
    \cup {[token |-> t, loopback |-> FALSE, memory |-> FALSE] :
            t \in {"padded", "blank", "foreign"}}

TheOperation ==
    [project_id |-> "house", task_id |-> "roof", execution_id |-> "run",
     operation_id |-> "cad.model", request_fingerprint |-> "print"]

TheCapabilities ==
    [chat   |-> [free_only |-> FALSE, context |-> 0, commercial |-> TRUE,
                 privacy |-> "standard", latency |-> None],
     review |-> [free_only |-> TRUE, context |-> 2, commercial |-> FALSE,
                 privacy |-> "standard", latency |-> 100]]

-----------------------------------------------------------------------------
\* Pool entries: what they are for, what they cost and the state they are in.
Entry(usage, free, only, health, spent) ==
    [capabilities |-> {"chat", "review"}, free_tier |-> free, usage |-> usage,
     development_only |-> only, health |-> health, spent |-> spent, priority |-> 0]

Worst == [Entry({"development"}, TRUE, FALSE, "HEALTHY", FALSE) EXCEPT !.priority = 200]

Entries ==
    {Entry(usage, free, only, state[1], state[2]) :
       usage \in {{"development"}, {"prototyping"}, Environments},
       free \in BOOLEAN, only \in BOOLEAN,
       state \in {<<"HEALTHY", FALSE>>, <<"DOWN", FALSE>>, <<"HEALTHY", TRUE>>}}
    \cup {Worst, [Worst EXCEPT !.capabilities = {"chat"}], None}

Binding(access, context, latency, error, quality) ==
    [capabilities |-> {"chat", "review"}, access |-> access, context |-> context,
     latency |-> latency, error |-> error, quality |-> quality]

\* The worst that can be said of an endpoint, and the best.
Slow == Binding("recurring_free", 1, 90000, 100, 0)
Fast == Binding("provider_policy", 4, 0, 0, 100)

Circuit(state, latency, success, quota) ==
    [state |-> state, latency |-> latency, success |-> success, quota |-> quota]

Sick == Circuit("degraded", None, 0, None)
Fit == Circuit("healthy", 0, 100, 60)
Empty == Circuit("healthy", 50, 100, 0)

Bound(e, b) ==
    Described(IF e = None THEN Worst ELSE e, b)

Pooled(e, b, h) ==
    LET paid == Entry(Environments, FALSE, FALSE, "HEALTHY", FALSE)
    IN  [pooled |-> TRUE, entry |-> <<e, paid>>,
         descriptor |-> <<Bound(e, b), Bound(paid, Fast)>>, circuit |-> <<h, Fit>>]

\* A gateway of registered endpoints only.
Unpooled == [Pooled(Worst, Slow, Sick) EXCEPT !.pooled = FALSE]

Gateways ==
    {Pooled(e, Slow, Sick) : e \in Entries}
    \cup {Pooled(Worst, Fast, h) : h \in {Fit, Empty, Circuit("rate_limited", None, 0, None)}}
    \cup {Unpooled}

-----------------------------------------------------------------------------
Chat == [wellformed |-> TRUE, overflow |-> FALSE, blank |-> FALSE, capability |-> "chat",
         environment |-> "development", privacy |-> "standard", context |-> 0,
         complexity |-> 50, paid_allowed |-> None, free_only |-> None, free_first |-> None]

Flags == {None, TRUE, FALSE}

Chats ==
    {[Chat EXCEPT !.environment = x, !.paid_allowed = paid, !.free_only = free] :
       x \in Environments, paid \in Flags, free \in Flags}
    \cup {[Chat EXCEPT !.paid_allowed = TRUE, !.free_first = FALSE],
          [Chat EXCEPT !.capability = "review"], [Chat EXCEPT !.capability = "none"],
          [Chat EXCEPT !.privacy = "no_training"], [Chat EXCEPT !.context = 2]}

OddChats ==
    {Chat, [Chat EXCEPT !.wellformed = FALSE], [Chat EXCEPT !.overflow = TRUE],
     [Chat EXCEPT !.blank = TRUE]}

Build == [wellformed |-> TRUE, mode |-> "plan", task_family |-> "cad", task_kind |-> "",
          project_id |-> "house", correlation |-> "own", artifacts |-> {}, profile |-> FALSE]

Builds ==
    {[Build EXCEPT !.correlation = c] :
       c \in {None, "own", "schema_version", "idempotency_key"} \cup RequiredFields}
    \cup {[Build EXCEPT !.task_kind = k, !.project_id = p] :
            k \in {"cad.model", "cad.export", "web.build"}, p \in {"house", "forged"}}
    \cup {[Build EXCEPT !.project_id = "forged", !.correlation = "project_id"],
          [Build EXCEPT !.task_kind = "cad.export", !.correlation = "operation_id"],
          [Build EXCEPT !.wellformed = FALSE], [Build EXCEPT !.mode = "other"],
          [Build EXCEPT !.task_family = "other", !.task_kind = "other"],
          [Build EXCEPT !.artifacts = {"gcode"}]}
    \cup {[Build EXCEPT !.artifacts = {"gcode"}, !.task_family = "manufacturing",
                        !.profile = b, !.correlation = None] : b \in BOOLEAN}

Records == [wellformed : BOOLEAN, overflow : BOOLEAN, privacy : PrivacyLevel, endless : BOOLEAN]
Queries == [wellformed : BOOLEAN, overflow : BOOLEAN, include_expired : BOOLEAN]
Names == [wellformed : BOOLEAN]
Nothing == [wellformed |-> TRUE]

-----------------------------------------------------------------------------
Post(path, content) ==
    [method |-> "POST", path |-> path, query |-> FALSE, header |-> "exact",
     body |-> "object", content |-> content]

Exchanged(gateway, luck, request) ==
    [gateway |-> gateway, luck |-> luck, near |-> FALSE, request |-> request]

\* One request to every path.
Samples ==
    {Post(path, Nothing) : path \in {"health", "capabilities", "gateway_capabilities",
       "gateway_providers", "gateway_other", "memory_health", "memory_other", "sync", "other"}}
    \cup {Post("tasks", Build), Post("chat", Chat), Post("read", Nothing),
          Post("replicate", Nothing),
          Post("write", [wellformed |-> TRUE, overflow |-> FALSE, privacy |-> "project",
                         endless |-> FALSE]),
          Post("search", [wellformed |-> TRUE, overflow |-> FALSE,
                          include_expired |-> FALSE])}

\* Every way to come by to a path.
Transports ==
    {[gateway |-> g, luck |-> "answered", near |-> near,
      request |-> [r EXCEPT !.method = m, !.query = q, !.header = w[1], !.body = w[2]]] :
       g \in {None, Pooled(Worst, Slow, Fit)}, near \in BOOLEAN, r \in Samples,
       m \in {"GET", "POST", "PUT"}, q \in BOOLEAN,
       w \in (Headers \X {"object"}) \cup ({"exact"} \X Bodies)}

Completions ==
    {Exchanged(g, "answered", Post("chat", c)) : g \in Gateways, c \in Chats}
    \cup {Exchanged(g, luck, Post("chat", c)) :
            g \in {Pooled(Worst, Slow, Fit), Unpooled},
            luck \in {"answered", "failed", "refused", "endless", "barred"},
            c \in OddChats}

Others ==
    {Exchanged(None, "answered", Post("tasks", c)) : c \in Builds}
    \cup {Exchanged(None, luck, Post("write", c)) :
            luck \in {"answered", "failed"}, c \in Records}
    \cup {Exchanged(None, "answered", Post("search", c)) : c \in Queries}
    \cup {Exchanged(None, "answered", Post(path, c)) :
            path \in {"read", "replicate"}, c \in Names}

AllExchanges == Transports \cup Completions \cup Others
=============================================================================
