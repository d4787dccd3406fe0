------------------------------- MODULE HttpProofs -------------------------------
(***************************************************************************)
(* That the two servers, the parser and the router keep what               *)
(* HttpProperties promises, for any gateways and requests.                 *)
(***************************************************************************)
EXTENDS HttpProperties, TLAPS

\* The exchange is one that may come.
ExchangeInv == exchange = None \/ exchange \in Exchanges

\* The exchange going on is one that may come (the requests are given by the clients,
\* the gateway by its composition).
THEOREM ExchangesCome == Spec => []ExchangeInv
<1>1. Init => ExchangeInv
  BY DEF Init, ExchangeInv
<1>2. ExchangeInv /\ [Next]_vars => ExchangeInv'
  BY DEF ExchangeInv, Next, vars, Arrive, HandleLocal, HandleWorker, Handle, Leave,
         StartAfresh, StoreElsewhere, NextAttempt
<1> QED
  BY <1>1, <1>2, PTL DEF Spec

-----------------------------------------------------------------------------
(***************************************************************************)
(* The router.                                                             *)
(***************************************************************************)

\* What is known when a completion is routed.
LEMMA RoutedSound ==
    ASSUME ExchangeInv, Routed
    PROVE  /\ Content \in ChatContent
           /\ Gateway.pooled \in BOOLEAN
           /\ \A p \in Providers : ProviderSound(Gateway, p)
BY ExchangesAssumption DEF ExchangeInv, Routed, Idle, Content, Request, Gateway

\* A candidate has passed every test of the pool and of the router.
LEMMA CandidatesPass ==
    ASSUME NEW g, NEW r, NEW p \in Candidates(g, r)
    PROVE  LET policy == PolicyFailures(g.descriptor[p], g.circuit[p], r)
           IN  /\ p \in Providers
               /\ r.capability \in g.descriptor[p].capabilities
               /\ g.pooled => PoolReasons(g.entry[p], r) = {}
               /\ \A f \in DOMAIN policy : ~policy[f]
<1> DEFINE d == g.descriptor[p]
           policy == PolicyFailures(d, g.circuit[p], r)
           pool == IF g.pooled THEN PoolReasons(g.entry[p], r) ELSE {}
<1>1. p \in Providers /\ Reasons(g, p, r) = {}
  BY DEF Candidates
<1>2. Reasons(g, p, r) = IF r.capability \notin d.capabilities THEN {"capability_mismatch"}
                         ELSE IF pool # {} THEN pool
                         ELSE {f \in DOMAIN policy : policy[f]}
  BY DEF Reasons
<1> HIDE DEF d, policy, pool
<1>3. r.capability \in d.capabilities
  BY <1>1, <1>2
<1>4. pool = {}
  BY <1>1, <1>2, <1>3
<1>5. {f \in DOMAIN policy : policy[f]} = {}
  BY <1>1, <1>2, <1>3, <1>4
<1> QED
  BY <1>1, <1>3, <1>4, <1>5 DEF d, policy, pool

\* The router lets nobody through who may cost something unless that is allowed.
LEMMA SpendingIsAllowed ==
    ASSUME NEW g, NEW r, NEW p \in Candidates(g, r), ~r.policy.paid_allowed
    PROVE  SpendSafe(g.descriptor[p])
<1> DEFINE policy == PolicyFailures(g.descriptor[p], g.circuit[p], r)
<1>1. \A f \in DOMAIN policy : ~policy[f]
  BY CandidatesPass
<1>2. ~policy["free_only"] /\ ~policy["spend_policy"]
  BY <1>1, SMT DEF PolicyFailures
<1> QED
  BY <1>2 DEF PolicyFailures

\* Without paid_allowed no request reaches a provider that may cost something.
THEOREM SpendingNeedsConsent == Spec => []SpendNeedsConsent
<1>1. ExchangeInv => SpendNeedsConsent
  <2> SUFFICES ASSUME ExchangeInv, Routed, Content.paid_allowed # TRUE,
                      NEW p \in Candidates(Gateway, Route)
               PROVE  SpendSafe(Gateway.descriptor[p])
    BY DEF SpendNeedsConsent
  <2>1. Content.paid_allowed \in Optional(BOOLEAN)
    BY RoutedSound DEF ChatContent
  <2>2. Flag(Content.paid_allowed, FALSE) = FALSE
    BY <2>1 DEF Flag, Optional
  <2>3. Route.policy.paid_allowed = FALSE
    BY <2>2 DEF Route, RouteOf, Policy
  <2> QED
    BY <2>3, SpendingIsAllowed
<1> QED
  BY <1>1, ExchangesCome, PTL

\* What eligible() leaves out always has a reason.
THEOREM RefusalsHaveReasons == Spec => []ReasonsComplete
<1>1. ReasonsComplete
  <2> SUFFICES ASSUME Routed, Gateway.pooled, NEW p \in Providers,
                      Gateway.entry[p] # None, ~Admits(Gateway.entry[p], Route)
               PROVE  PoolReasons(Gateway.entry[p], Route) # {}
    BY DEF ReasonsComplete, PoolReasons
  <2> DEFINE e == Gateway.entry[p]
             r == Route
             failures == PoolFailures(e, r)
  <2>1. CASE r.capability \notin e.capabilities
    BY <2>1 DEF PoolReasons
  <2>2. CASE r.capability \in e.capabilities
    <3>1. \E f \in DOMAIN failures : failures[f]
      BY <2>2 DEF Admits, PoolFailures
    <3>2. PoolReasons(e, r) = {f \in DOMAIN failures : ~Admits(e, r) /\ failures[f]}
      BY <2>2 DEF PoolReasons
    <3> QED
      BY <3>1, <3>2
  <2> QED
    BY <2>1, <2>2
<1> QED
  BY <1>1, PTL

\* The descriptor made of a pool entry allows what the pool admits, and no environment
\* that it refuses.
THEOREM PoolAndRouterAgree == Spec => []LayersAgree
<1>1. ExchangeInv => LayersAgree
  <2> SUFFICES ASSUME ExchangeInv, Routed, Gateway.pooled, NEW p \in Providers,
                      Gateway.entry[p] # None
               PROVE  LET e == Gateway.entry[p]
                          d == Gateway.descriptor[p]
                          x == Route.policy.environment
                          usage == {"resource_usage_class", "resource_development_only"}
                      IN  /\ Admits(e, Route) =>
                               /\ x \in d.environments
                               /\ x = "commercial" => d.commercial
                               /\ RequireFree(Route.policy) => d.cost = "free"
                          /\ x \in d.environments
                               /\ ~(x = "development" /\ "prototyping" \in e.usage)
                               => PoolReasons(e, Route) \cap usage = {}
    BY DEF LayersAgree
  <2> DEFINE e == Gateway.entry[p]
             d == Gateway.descriptor[p]
             r == Route
             x == r.policy.environment
             failures == PoolFailures(e, r)
  <2>1. d = Described(e, d)
    BY RoutedSound DEF ProviderSound
  <2>2. x \in Environments
    BY RoutedSound DEF ChatContent, Route, RouteOf, Policy
  <2>3. d.environments = {y \in Environments :
                            \/ y \in e.usage /\ ~(y \in Sold /\ e.development_only)
                            \/ y = "development" /\ "prototyping" \in e.usage}
    BY <2>1 DEF Described
  <2>4. d.commercial = ("commercial" \in d.environments)
    BY <2>1 DEF Described
  <2>5. d.cost = IF e.free_tier THEN "free" ELSE "unknown"
    BY <2>1 DEF Described
  <2> HIDE DEF d
  <2>6. Admits(e, r) =>
          /\ x \in d.environments
          /\ x = "commercial" => d.commercial
          /\ RequireFree(r.policy) => d.cost = "free"
    BY <2>2, <2>3, <2>4, <2>5 DEF Admits
  <2>7. ASSUME x \in d.environments, ~(x = "development" /\ "prototyping" \in e.usage)
        PROVE  PoolReasons(e, r) \cap {"resource_usage_class", "resource_development_only"} = {}
    <3>1. ~failures["resource_usage_class"] /\ ~failures["resource_development_only"]
      BY <2>3, <2>7 DEF PoolFailures
    <3> HIDE DEF failures
    <3>2. \A f \in PoolReasons(e, r) :
            \/ f \in {"resource_unregistered", "resource_capability_mismatch"}
            \/ failures[f]
      BY DEF PoolReasons, failures
    <3> QED
      BY <3>1, <3>2
  <2> QED
    BY <2>6, <2>7 DEF d
<1> QED
  BY <1>1, ExchangesCome, PTL

-----------------------------------------------------------------------------
\* The provers take a range of literals apart element by element: Point stays unexpanded.
LEMMA PointValue == Point \in Nat /\ 1000 <= Point /\ Point <= 1000
BY DEF Point

\* The penalty for latency and the bonus for quota are bounded.
LEMMA PenaltyAndBonus ==
    ASSUME NEW g, NEW p, ProviderSound(g, p)
    PROVE  /\ LatencyPenalty(g.descriptor[p], g.circuit[p]) \in 0 .. 120 * Point
           /\ QuotaBonus(g.circuit[p]) \in 0 .. 50 * Point
<1> DEFINE d == g.descriptor[p]
           h == g.circuit[p]
           latency == IF h.latency \in {None, 0} THEN d.latency ELSE h.latency
<1>1. latency \in Optional(Nat) /\ h.quota \in Optional(Int)
  BY DEF ProviderSound
<1>2. /\ LatencyPenalty(d, h) = IF latency = None THEN 0 ELSE Smaller(120 * Point, 2 * latency)
      /\ QuotaBonus(h) = IF h.quota = None THEN 0 ELSE Point * Smaller(50, Larger(0, h.quota))
  BY Zenon DEF LatencyPenalty, QuotaBonus
<1> HIDE DEF latency, d, h
<1>3. \A n \in Nat : Smaller(120 * Point, 2 * n) \in 0 .. 120 * Point
  BY PointValue, SMT DEF Smaller
<1>4. \A n \in Int : Point * Smaller(50, Larger(0, n)) \in 0 .. 50 * Point
  BY PointValue, SMT DEF Smaller, Larger
<1>5. 0 \in 0 .. 120 * Point /\ 0 \in 0 .. 50 * Point
  BY PointValue, SMT
<1>6. LatencyPenalty(d, h) \in 0 .. 120 * Point
  BY <1>1, <1>2, <1>3, <1>5, Zenon DEF Optional
<1>7. QuotaBonus(h) \in 0 .. 50 * Point
  BY <1>1, <1>2, <1>4, <1>5, Zenon DEF Optional
<1> QED
  BY <1>6, <1>7 DEF d, h

\* So is what quality counts for.
LEMMA QualityBound ==
    ASSUME NEW g, NEW p, ProviderSound(g, p), NEW r, r.complexity \in 0 .. 100
    PROVE  Quality(g.descriptor[p], r) \in 0 .. 240 * Point
<1> DEFINE Weight(c) == 1200 + 12 * c
<1>1. \A a \in 0 .. 100, c \in 0 .. 100 : a * Weight(c) \in 0 .. 240 * Point
  <2> SUFFICES ASSUME NEW a \in 0 .. 100, NEW c \in 0 .. 100
               PROVE  a * Weight(c) \in 0 .. 240 * Point
    OBVIOUS
  <2> DEFINE b == Weight(c)
  <2>1. b \in 0 .. 2400
    BY SMT
  <2> HIDE DEF b
  <2>2. a * b \in Nat /\ (100 - a) * b \in Nat
    BY <2>1, SMT
  <2>3. (100 - a) * b = 100 * b - a * b
    BY <2>1, SMT
  <2>4. a * b \in 0 .. 240 * Point
    BY <2>1, <2>2, <2>3, PointValue, SMT
  <2> QED
    BY <2>4 DEF b
<1>2. g.descriptor[p].quality \in 0 .. 100
  BY Zenon DEF ProviderSound
<1>3. Quality(g.descriptor[p], r) = g.descriptor[p].quality * Weight(r.complexity)
  BY DEF Quality
<1> DEFINE quality == g.descriptor[p].quality
           complexity == r.complexity
<1>4. quality \in 0 .. 100 /\ complexity \in 0 .. 100
  BY <1>2
<1>5. Quality(g.descriptor[p], r) = quality * Weight(complexity)
  BY <1>3
<1> HIDE DEF Weight, quality, complexity
<1> QED
  BY <1>1, <1>4, <1>5, Zenon

\* And so is that of priority, which the pool keeps from being negative.
LEMMA PriorityBound ==
    ASSUME NEW g, NEW p, ProviderSound(g, p), g.pooled => g.entry[p] # None
    PROVE  PriorityBonus(g, p) \in 0 .. 100 * Point
<1> DEFINE priority == IF g.pooled THEN g.entry[p].priority ELSE g.descriptor[p].priority
<1>1. priority \in Nat
  BY Zenon DEF ProviderSound
<1>2. PriorityBonus(g, p) = Point * Larger(0, 100 - priority)
  BY Zenon DEF PriorityBonus
<1>3. \A n \in Nat : Point * Larger(0, 100 - n) \in 0 .. 100 * Point
  BY PointValue, SMT DEF Larger
<1> QED
  BY <1>1, <1>2, <1>3, Zenon

\* The score of a free provider, and of one that may cost something.
LEMMA FreeScore ==
    ASSUME NEW g, NEW p \in Providers, NEW r, ProviderSound(g, p),
           r.complexity \in 0 .. 100,
           PriorityBonus(g, p) \in 0 .. 100 * Point,
           r.policy.free_first, g.descriptor[p].cost = "free"
    PROVE  Score(g, p, r) \in Int /\ Score(g, p, r) >= 680 * Point
<1> DEFINE d == g.descriptor[p]
           h == g.circuit[p]
           quality == Quality(d, r)
           health == 600 * h.success
           latency == LatencyPenalty(d, h)
           quota == QuotaBonus(h)
           priority == PriorityBonus(g, p)
<1>1. FreeBonus(d, r) = 800 * Point
  BY Zenon DEF FreeBonus
<1>2. latency \in 0 .. 120 * Point /\ quota \in 0 .. 50 * Point
  BY PenaltyAndBonus, Zenon
<1>3. quality \in 0 .. 240 * Point
  BY QualityBound, Zenon
<1>4. d.error \in 0 .. 100 /\ health \in 0 .. 60 * Point
  <2>1. d.error \in 0 .. 100 /\ h.success \in 0 .. 100
    BY Zenon DEF ProviderSound
  <2>2. \A y \in 0 .. 100 : 600 * y \in 0 .. 60 * Point
    BY PointValue, SMT
  <2> QED
    BY <2>1, <2>2, SMT
<1>5. Score(g, p, r) = 100 * Point + FreeBonus(d, r) + quality + health
                         - latency - Point * d.error + priority + quota
  BY Zenon DEF Score
<1> HIDE DEF quality, health, latency, quota, priority
<1>6. Score(g, p, r) = 100 * Point + 800 * Point + quality + health
                         - latency - Point * d.error + priority + quota
  BY <1>1, <1>5, Zenon
<1>7. priority \in 0 .. 100 * Point
  BY Zenon DEF priority
<1> DEFINE error == d.error
<1>8. error \in 0 .. 100
  BY <1>4
<1>9. Score(g, p, r) = 100 * Point + 800 * Point + quality + health
                         - latency - Point * error + priority + quota
  BY <1>6
<1> DEFINE sum == 100 * Point + 800 * Point + quality + health
                         - latency - Point * error + priority + quota
<1> HIDE DEF error
<1>10. sum \in Int /\ sum >= 680 * Point
  <2> SUFFICES ASSUME quality \in 0 .. 240 * Point, health \in 0 .. 60 * Point,
                      latency \in 0 .. 120 * Point, error \in 0 .. 100,
                      priority \in 0 .. 100 * Point, quota \in 0 .. 50 * Point
               PROVE  sum \in Int /\ sum >= 680 * Point
    BY <1>2, <1>3, <1>4, <1>7, <1>8, Zenon
  <2> QED
    BY PointValue, SMT
<1> HIDE DEF sum
<1> QED
  BY <1>9, <1>10, Zenon DEF sum

LEMMA PaidScore ==
    ASSUME NEW g, NEW p \in Providers, NEW r, ProviderSound(g, p),
           r.complexity \in 0 .. 100,
           PriorityBonus(g, p) \in 0 .. 100 * Point,
           ~SpendSafe(g.descriptor[p])
    PROVE  Score(g, p, r) \in Int /\ Score(g, p, r) <= 550 * Point
<1> DEFINE d == g.descriptor[p]
           h == g.circuit[p]
           quality == Quality(d, r)
           health == 600 * h.success
           latency == LatencyPenalty(d, h)
           quota == QuotaBonus(h)
           priority == PriorityBonus(g, p)
<1>1. FreeBonus(d, r) = 0
  BY Zenon DEF FreeBonus, SpendSafe
<1>2. latency \in 0 .. 120 * Point /\ quota \in 0 .. 50 * Point
  BY PenaltyAndBonus, Zenon
<1>3. quality \in 0 .. 240 * Point
  BY QualityBound, Zenon
<1>4. d.error \in 0 .. 100 /\ health \in 0 .. 60 * Point
  <2>1. d.error \in 0 .. 100 /\ h.success \in 0 .. 100
    BY Zenon DEF ProviderSound
  <2>2. \A y \in 0 .. 100 : 600 * y \in 0 .. 60 * Point
    BY PointValue, SMT
  <2> QED
    BY <2>1, <2>2, SMT
<1>5. Score(g, p, r) = 100 * Point + FreeBonus(d, r) + quality + health
                         - latency - Point * d.error + priority + quota
  BY Zenon DEF Score
<1> HIDE DEF quality, health, latency, quota, priority
<1>6. Score(g, p, r) = 100 * Point + 0 + quality + health
                         - latency - Point * d.error + priority + quota
  BY <1>1, <1>5, Zenon
<1>7. priority \in 0 .. 100 * Point
  BY Zenon DEF priority
<1> DEFINE error == d.error
<1>8. error \in 0 .. 100
  BY <1>4
<1>9. Score(g, p, r) = 100 * Point + 0 + quality + health
                         - latency - Point * error + priority + quota
  BY <1>6
<1> DEFINE sum == 100 * Point + 0 + quality + health
                         - latency - Point * error + priority + quota
<1> HIDE DEF error
<1>10. sum \in Int /\ sum <= 550 * Point
  <2> SUFFICES ASSUME quality \in 0 .. 240 * Point, health \in 0 .. 60 * Point,
                      latency \in 0 .. 120 * Point, error \in 0 .. 100,
                      priority \in 0 .. 100 * Point, quota \in 0 .. 50 * Point
               PROVE  sum \in Int /\ sum <= 550 * Point
    BY <1>2, <1>3, <1>4, <1>7, <1>8, Zenon
  <2> QED
    BY PointValue, SMT
<1> HIDE DEF sum
<1> QED
  BY <1>9, <1>10, Zenon DEF sum

\* A free candidate is tried before any that may cost something.
THEOREM FreeComesFirst == Spec => []FreeFirst
<1>1. ExchangeInv => FreeFirst
  <2> SUFFICES ASSUME ExchangeInv, Routed, Route.policy.free_first,
                      NEW p \in Candidates(Gateway, Route),
                      NEW q \in Candidates(Gateway, Route),
                      Gateway.descriptor[p].cost = "free",
                      ~SpendSafe(Gateway.descriptor[q])
               PROVE  Before(Gateway, Route, p, q)
    BY DEF FreeFirst
  <2>1. Route.complexity \in 0 .. 100
    BY RoutedSound DEF ChatContent, Route, RouteOf
  <2>2. ASSUME NEW c \in Candidates(Gateway, Route)
        PROVE  /\ c \in Providers /\ ProviderSound(Gateway, c)
               /\ PriorityBonus(Gateway, c) \in 0 .. 100 * Point
    <3>1. c \in Providers /\ (Gateway.pooled => PoolReasons(Gateway.entry[c], Route) = {})
      BY CandidatesPass
    <3>2. ProviderSound(Gateway, c)
      BY <3>1, RoutedSound
    <3>3. Gateway.pooled => Gateway.entry[c] # None
      BY <3>1 DEF PoolReasons
    <3> QED
      BY <3>1, <3>2, <3>3, PriorityBound, Zenon
  <2> QED
    <3>1. Score(Gateway, p, Route) \in Int /\ Score(Gateway, p, Route) >= 680 * Point
      BY <2>1, <2>2, FreeScore, Zenon
    <3>2. Score(Gateway, q, Route) \in Int /\ Score(Gateway, q, Route) <= 550 * Point
      BY <2>1, <2>2, PaidScore, Zenon
    <3> QED
      BY <3>1, <3>2, SMT DEF Before, Point
<1> QED
  BY <1>1, ExchangesCome, PTL

-----------------------------------------------------------------------------
(***************************************************************************)
(* The servers.                                                            *)
(***************************************************************************)

\* An answer that asks nothing of the components.
Plain(r) == \E n \in {400, 401, 404, 501, 503} : r = Reply(n, {})

\* Reading the body, or the Worker's look at the token, may raise what nobody catches.
Raised(s, r) ==
    /\ r = Reply(None, {})
    /\ \/ Request.body = "deep"
       \/ s = "worker" /\ Incomparable

\* What a server that has the record m makes of the request.
Handled(s, r, m) ==
    \/ Plain(r)
    \/ Raised(s, r)
    \/ Request.path # "chat" /\ r = Reply(200, {})
    \/ Request.path = "tasks" /\ r = Building
    \/ Request.path = "chat" /\ r = Completing
    \/ Request.path = "write" /\ r = Writing
    \/ Request.path = "read" /\ r = Reading(m)
    \/ Request.path = "search" /\ r = Searching(m)

\* A plain answer is a way to handle any request.
LEMMA PlainIsHandled ==
    ASSUME NEW n \in {400, 401, 404, 501, 503}, NEW m, NEW s
    PROVE  Handled(s, Reply(n, {}), m)
BY DEF Plain, Handled

\* So is the answer to a body that cannot be read.
LEMMA UnreadIsHandled ==
    ASSUME NEW m, NEW s
    PROVE  Handled(s, Unread, m)
<1>1. CASE Request.body = "deep"
  <2>1. Unread = Reply(None, {})
    BY <1>1 DEF Unread
  <2>2. Raised(s, Unread)
    BY <1>1, <2>1 DEF Raised
  <2> QED
    BY <2>2, Zenon DEF Handled
<1>2. CASE Request.body # "deep"
  <2>1. Unread = Reply(400, {})
    BY <1>2 DEF Unread
  <2> QED
    BY <2>1, PlainIsHandled
<1> QED
  BY <1>1, <1>2

\* So is whatever the memory dispatch answers.
LEMMA MemoryHandles ==
    ASSUME NEW m, NEW s, NEW method, NEW path \in MemoryPaths,
           path # "memory_other" => Request.path = path
    PROVE  Handled(s, MemoryReply(method, path, m), m)
BY DEF MemoryReply, Plain, MemoryPaths, Handled

\* The loopback server handles every request that may come.
LEMMA LocalHandles ==
    ASSUME ExchangeInv, ~Idle
    PROVE  Handled("local", LocalReply, memory["local"])
<1>1. Request.path \in Paths
  BY ExchangesAssumption DEF ExchangeInv, Idle, Request
<1>2. /\ LocalPath \in Paths
      /\ LocalPath \notin {"other", "memory_other"} => Request.path = LocalPath
  BY <1>1 DEF LocalPath, Paths, MemoryPaths
<1>3. LocalPath \in MemoryPaths => Handled("local", LocalMemory, memory["local"])
  <2> SUFFICES ASSUME LocalPath \in MemoryPaths
               PROVE  Handled("local", LocalMemory, memory["local"])
    OBVIOUS
  <2> DEFINE path == LocalPath
  <2>1. Handled("local", MemoryReply(Request.method, path, memory["local"]),
                memory["local"])
    <3>1. path \in MemoryPaths /\ (path # "memory_other" => Request.path = path)
      BY <1>2 DEF MemoryPaths
    <3> HIDE DEF path
    <3> QED
      BY <3>1, MemoryHandles
  <2>2. \/ LocalMemory = Reply(503, {}) \/ LocalMemory = Unread
        \/ LocalMemory = MemoryReply(Request.method, path, memory["local"])
    BY DEF LocalMemory
  <2> HIDE DEF path
  <2> QED
    BY <2>1, <2>2, PlainIsHandled, UnreadIsHandled
<1>4. LocalPath \notin MemoryPaths => Handled("local", LocalGet, memory["local"])
  BY <1>2 DEF LocalGet, Handled, Plain, Paths, GatewayPaths
<1>5. LocalPath \notin MemoryPaths => Handled("local", LocalPost, memory["local"])
  BY <1>2, PlainIsHandled, UnreadIsHandled DEF LocalPost, Handled
<1> QED
  BY <1>3, <1>4, <1>5, PlainIsHandled DEF LocalReply

\* And so does the Worker.
LEMMA WorkerHandles ==
    ASSUME ExchangeInv, ~Idle
    PROVE  Handled("worker", WorkerReply, memory["worker"])
<1>1. Request.path \in Paths
  BY ExchangesAssumption DEF ExchangeInv, Idle, Request
<1>2. Request.path \in MemoryPaths => Handled("worker", WorkerMemory, memory["worker"])
  <2>1. Request.path \in MemoryPaths =>
          Handled("worker", MemoryReply(Request.method, Request.path, memory["worker"]),
                  memory["worker"])
    BY MemoryHandles
  <2> QED
    BY <2>1, PlainIsHandled, UnreadIsHandled DEF WorkerMemory
<1>3. Request.path \notin MemoryPaths => Handled("worker", WorkerGet, memory["worker"])
  BY <1>1 DEF WorkerGet, Handled, Plain, Paths, GatewayPaths
<1>4. Handled("worker", WorkerPost, memory["worker"])
  BY PlainIsHandled, UnreadIsHandled DEF WorkerPost, Handled
<1>5. Incomparable => Handled("worker", Reply(None, {}), memory["worker"])
  BY DEF Handled, Raised
<1> QED
  BY <1>2, <1>3, <1>4, <1>5, PlainIsHandled DEF WorkerReply

\* Whatever a server answers, it has not probed anybody.
LEMMA HandledShape ==
    ASSUME NEW s, NEW m, NEW r, Handled(s, r, m)
    PROVE  r = [status |-> r.status, did |-> r.did, shown |-> r.shown, build |-> r.build,
                probed |-> FALSE]
BY DEF Handled, Plain, Raised, Reply, Building, Completing, Writing, Reading, Searching

\* Noting the probes in an answer changes nothing else in it.
LEMMA OnlyProbed ==
    ASSUME NEW r, NEW probed,
           r = [status |-> r.status, did |-> r.did, shown |-> r.shown, build |-> r.build,
                probed |-> FALSE]
    PROVE  LET a == [r EXCEPT !.probed = probed]
           IN  /\ a.status = r.status /\ a.did = r.did /\ a.shown = r.shown
               /\ a.build = r.build /\ a.probed = probed
               /\ [a EXCEPT !.probed = FALSE] = r
<1> DEFINE Noted(status, did, shown, build, b) ==
             [status |-> status, did |-> did, shown |-> shown, build |-> build, probed |-> b]
           a == [r EXCEPT !.probed = probed]
<1>1. PICK p, d, w, u : r = Noted(p, d, w, u, FALSE)
  OBVIOUS
<1>2. \A b, c : [Noted(p, d, w, u, b) EXCEPT !.probed = c] = Noted(p, d, w, u, c)
  OBVIOUS
<1>3. \A b : /\ Noted(p, d, w, u, b).status = p /\ Noted(p, d, w, u, b).did = d
             /\ Noted(p, d, w, u, b).shown = w /\ Noted(p, d, w, u, b).build = u
             /\ Noted(p, d, w, u, b).probed = b
  OBVIOUS
<1> HIDE DEF Noted
<1>4. a = Noted(p, d, w, u, probed)
  BY <1>1, <1>2, Zenon
<1> HIDE DEF a
<1>5. [a EXCEPT !.probed = FALSE] = r
  BY <1>1, <1>2, <1>4, Zenon
<1> QED
  BY <1>1, <1>3, <1>4, <1>5, Zenon DEF a

\* The correlation Cantiere holds: the operation's identity, one of the attempts, the key.
OperationInv ==
    /\ operation = [f \in CorrelationFields |-> operation[f]]
    /\ \A f \in IdentityFields : operation[f] = Identity[f]
    /\ operation.attempt_id \in Attempts
    /\ operation.schema_version = 1
    /\ operation.checkpoint_id = None
    /\ operation.idempotency_key = [f \in IdentityFields |-> Identity[f]]

\* The answers are those the two servers would give in the present state.
AnswersInv ==
    /\ answer["local"] # None => Reaches("local") /\ answer["local"] = LocalReply
    /\ answer["worker"] # None =>
         /\ Outcome("worker") = WorkerReply
         /\ answer["worker"] = [WorkerReply EXCEPT !.probed = answer["worker"].probed]
         /\ answer["worker"].probed => Request.path \in GatewayPaths

\* The servers were started as main() lets them, and what they answered they would again.
ServersInv ==
    /\ ExchangeInv
    /\ config \in Configs /\ Starts(config)
    /\ answer = [s \in Servers |-> answer[s]]
    /\ memory = [s \in Servers |-> memory[s]]
    /\ Idle => \A s \in Servers : answer[s] = None
    /\ AnswersInv
    /\ \A s \in Servers :
         answer[s] # None /\ "write" \in answer[s].did => memory[s].privacy = Content.privacy

\* What a build, a write, a completion, a read and a search may be answered with.
LEMMA BuildingShape ==
    \/ /\ Building.status = 400 /\ Building.did = {} /\ Building.shown = {}
       /\ Building.build = None
    \/ /\ Building.status = 200 /\ Building.did = {"build"} /\ Building.shown = {}
       /\ ValidBuild(BuildOf(Content)) /\ Building.build = BuildOf(Content).correlation
BY DEF Building, Reply

LEMMA WritingShape ==
    /\ Writing.build = None
    /\ Writing.status = None => exchange.luck # "answered" \/ Content.overflow
    /\ \/ Writing.status # 200 /\ Writing.did = {} /\ Writing.shown = {}
       \/ /\ Writing.status = 200 /\ Writing.did = {"write"}
          /\ Writing.shown = {Content.privacy} /\ Content.privacy \notin RemoteForbidden
BY NoneAssumption DEF Writing, Reply

LEMMA CompletingShape ==
    /\ Completing.shown = {} /\ Completing.build = None
    /\ Completing.status = None =>
         \/ Content.overflow
         \/ /\ exchange.gateway.pooled
            /\ Completing.did = {"complete"} \/ exchange.luck = "barred"
    /\ \/ /\ Completing.did = {}
          /\ Completing.status \in {400, 503, None}
       \/ /\ Completing.did = {"complete"} /\ Content.wellformed
          /\ \/ Completing.status = 200
             \/ Completing.status = 400 /\ Content.blank
             \/ Completing.status = None /\ exchange.luck = "endless"
             \/ /\ Completing.status = 503
                /\ exchange.luck \notin {"answered", "refused", "barred"}
BY NoneAssumption DEF Completing, Reply

LEMMA ReadingShape ==
    ASSUME NEW m
    PROVE  /\ Reading(m).did = {} /\ Reading(m).build = None
           /\ Reading(m).shown \cap RemoteForbidden = {}
           /\ Reading(m).status = None => m.endless
BY NoneAssumption DEF Reading, Reply

LEMMA SearchingShape ==
    ASSUME NEW m
    PROVE  /\ Searching(m).did = {} /\ Searching(m).build = None
           /\ Searching(m).shown \cap RemoteForbidden = {}
           /\ Searching(m).status = None => Content.overflow
BY NoneAssumption DEF Searching, Reply

\* The answer to a write does not depend on what the memory holds.
LEMMA WriteSeesNoMemory ==
    ASSUME NEW m, NEW n, NEW method, NEW path \in {"write", "memory_other"}
    PROVE  MemoryReply(method, path, m) = MemoryReply(method, path, n)
BY DEF MemoryReply

\* A server that already answered would answer the same again: a write changes the memory,
\* but not the answer to a write.
LEMMA LocalFixed ==
    ASSUME exchange' = exchange, operation' = operation, config' = config,
           memory'["local"] = memory["local"] \/ Request.path = "write"
    PROVE  LocalReply' = LocalReply
<1>1. LocalGet' = LocalGet /\ LocalPost' = LocalPost /\ LocalPath' = LocalPath
  BY DEF LocalGet, LocalPost, LocalPath, LocalReads, Unread, Request, Content, Reply,
         Building, BuildOf, Tampered, Completing, Unroutable
<1>2. LocalMemory' = IF ~config.memory THEN Reply(503, {})
                     ELSE IF Request.method = "POST" /\ ~LocalReads THEN Unread
                     ELSE MemoryReply(Request.method, LocalPath, memory'["local"])
  BY DEF LocalMemory, LocalPath, LocalReads, Unread, Request, Content, Reply, MemoryReply,
         Writing, Reading, Searching, Found
<1>3. MemoryReply(Request.method, LocalPath, memory'["local"])
        = MemoryReply(Request.method, LocalPath, memory["local"])
  <2>1. CASE Request.path = "write"
    <3> DEFINE path == LocalPath
    <3>1. path \in {"write", "memory_other"}
      BY <2>1 DEF LocalPath, MemoryPaths
    <3> HIDE DEF path
    <3>2. MemoryReply(Request.method, path, memory'["local"])
            = MemoryReply(Request.method, path, memory["local"])
      BY <3>1, WriteSeesNoMemory
    <3> QED
      BY <3>2 DEF path
  <2> QED
    BY <2>1
<1>4. LocalMemory' = LocalMemory
  BY <1>2, <1>3 DEF LocalMemory
<1> QED
  BY <1>1, <1>4 DEF LocalReply, LocalAuthorized, Request, Reply

LEMMA WorkerFixed ==
    ASSUME exchange' = exchange, operation' = operation, config' = config,
           memory'["worker"] = memory["worker"] \/ Request.path = "write"
    PROVE  WorkerReply' = WorkerReply
<1>1. WorkerGet' = WorkerGet /\ WorkerPost' = WorkerPost
  BY DEF WorkerGet, WorkerPost, WorkerReads, Unread, Request, Content, Reply, Building,
         BuildOf, Tampered, Completing, Unroutable
<1>2. WorkerMemory' = IF ~config.memory THEN Reply(503, {})
                      ELSE IF Request.method = "POST" /\ ~WorkerReads THEN Unread
                      ELSE MemoryReply(Request.method, Request.path, memory'["worker"])
  BY DEF WorkerMemory, WorkerReads, Unread, Request, Content, Reply, MemoryReply, Writing,
         Reading, Searching, Found
<1>3. MemoryReply(Request.method, Request.path, memory'["worker"])
        = MemoryReply(Request.method, Request.path, memory["worker"])
  BY WriteSeesNoMemory
<1>4. WorkerMemory' = WorkerMemory
  BY <1>2, <1>3 DEF WorkerMemory
<1> QED
  BY <1>1, <1>4 DEF WorkerReply, WorkerAuthorized, Incomparable, Request, Reply

\* Only a write writes.
LEMMA OnlyWritingWrites ==
    ASSUME NEW s, NEW r, NEW m, Handled(s, r, m), "write" \in r.did
    PROVE  Request.path = "write"
BY BuildingShape, CompletingShape, ReadingShape, SearchingShape
DEF Handled, Plain, Raised, Reply

\* Both answers to an exchange are what the servers make of it in the present state.
THEOREM ServersHandle == Spec => []ServersInv
<1>1. Init => ServersInv
  BY DEF Init, ServersInv, ExchangeInv, Idle, AnswersInv, Servers
<1>2. ServersInv /\ [Next]_vars => ServersInv'
  <2> SUFFICES ASSUME ServersInv, [Next]_vars
               PROVE  ServersInv'
    OBVIOUS
  <2> USE DEF ServersInv
  <2>1. CASE Arrive
    BY <2>1 DEF Arrive, ExchangeInv, Idle, AnswersInv, Servers
  <2>2. CASE HandleLocal
    <3>1. /\ ~Idle /\ Reaches("local") /\ answer["local"] = None
          /\ exchange' = exchange /\ operation' = operation /\ config' = config
          /\ answer' = [answer EXCEPT !["local"] = LocalReply]
          /\ memory' = IF "write" \in LocalReply.did
                       THEN [memory EXCEPT !["local"] = [privacy |-> Content.privacy,
                                                         endless |-> Content.endless]]
                       ELSE memory
      BY <2>2 DEF HandleLocal, Handle
    <3>2. /\ answer'["local"] = LocalReply /\ answer'["worker"] = answer["worker"]
          /\ answer' = [s \in Servers |-> answer'[s]]
      BY <3>1 DEF Servers
    <3>3. /\ memory'["worker"] = memory["worker"]
          /\ memory' = [s \in Servers |-> memory'[s]]
          /\ "write" \in LocalReply.did => memory'["local"].privacy = Content.privacy
      BY <3>1 DEF Servers
    <3>4. memory'["local"] = memory["local"] \/ Request.path = "write"
      BY <3>1, LocalHandles, OnlyWritingWrites
    <3>5. LocalReply' = LocalReply /\ WorkerReply' = WorkerReply
      BY <3>1, <3>3, <3>4, LocalFixed, WorkerFixed
    <3>6. AnswersInv'
      <4>1. Outcome("worker")' = Outcome("worker")
        BY <3>2 DEF Outcome
      <4> QED
        BY <3>1, <3>2, <3>5, <4>1 DEF AnswersInv, Reaches, Request
    <3> QED
      BY <3>1, <3>2, <3>3, <3>6 DEF ExchangeInv, Idle, Starts, Content, Request, Servers
  <2>3. CASE HandleWorker
    <3>1. /\ ~Idle /\ answer["worker"] = None
          /\ exchange' = exchange /\ operation' = operation /\ config' = config
          /\ answer' = [answer EXCEPT !["worker"] =
                                     [WorkerReply EXCEPT !.probed = Composing]]
          /\ memory' = IF "write" \in [WorkerReply EXCEPT !.probed = Composing].did
                       THEN [memory EXCEPT !["worker"] = [privacy |-> Content.privacy,
                                                          endless |-> Content.endless]]
                       ELSE memory
      BY <2>3 DEF HandleWorker, Handle
    <3>7. WorkerReply = [status |-> WorkerReply.status, did |-> WorkerReply.did,
                         shown |-> WorkerReply.shown, build |-> WorkerReply.build,
                         probed |-> FALSE]
      BY <3>1, WorkerHandles, HandledShape
    <3>8. /\ answer'["worker"] = [WorkerReply EXCEPT !.probed = Composing]
          /\ answer'["local"] = answer["local"]
          /\ answer' = [s \in Servers |-> answer'[s]]
      BY <3>1 DEF Servers
    <3>9. /\ answer'["worker"].did = WorkerReply.did
          /\ answer'["worker"].probed = Composing
          /\ [answer'["worker"] EXCEPT !.probed = FALSE] = WorkerReply
      BY <3>7, <3>8, OnlyProbed
    <3>3. /\ memory'["local"] = memory["local"]
          /\ memory' = [s \in Servers |-> memory'[s]]
          /\ "write" \in answer'["worker"].did => memory'["worker"].privacy = Content.privacy
      BY <3>1, <3>8 DEF Servers
    <3>4. memory'["worker"] = memory["worker"] \/ Request.path = "write"
      BY <3>1, <3>8, <3>9, WorkerHandles, OnlyWritingWrites
    <3>5. LocalReply' = LocalReply /\ WorkerReply' = WorkerReply
      BY <3>1, <3>3, <3>4, LocalFixed, WorkerFixed
    <3>6. AnswersInv'
      <4>1. answer'["local"] # None => Reaches("local")' /\ answer'["local"] = LocalReply'
        BY <3>1, <3>5, <3>8 DEF AnswersInv, Reaches
      <4>2. Composing => Request.path \in GatewayPaths
        BY DEF Composing
      <4>3. /\ Outcome("worker")' = WorkerReply'
            /\ answer'["worker"] = [WorkerReply' EXCEPT !.probed = answer'["worker"].probed]
        BY <3>5, <3>8, <3>9 DEF Outcome
      <4>4. answer'["worker"].probed => Request'.path \in GatewayPaths
        BY <3>1, <3>9, <4>2 DEF Request
      <4> QED
        BY <4>1, <4>3, <4>4 DEF AnswersInv
    <3> QED
      BY <3>1, <3>8, <3>3, <3>6 DEF ExchangeInv, Idle, Starts, Content, Request, Servers
  <2>4. CASE Leave
    BY <2>4 DEF Leave, ExchangeInv, Idle, AnswersInv, Servers
  <2>5. CASE StoreElsewhere
    BY <2>5 DEF StoreElsewhere, ExchangeInv, Idle, AnswersInv, Servers
  <2>8. CASE StartAfresh
    BY <2>8 DEF StartAfresh, ExchangeInv, Idle, AnswersInv, Servers
  <2>6. CASE NextAttempt
    BY <2>6 DEF NextAttempt, ExchangeInv, Idle, AnswersInv, Servers
  <2>7. CASE UNCHANGED vars
    <3>1. /\ exchange' = exchange /\ operation' = operation /\ config' = config
          /\ memory' = memory /\ answer' = answer
      BY <2>7 DEF vars
    <3>2. LocalReply' = LocalReply /\ WorkerReply' = WorkerReply
      BY <3>1, LocalFixed, WorkerFixed
    <3> QED
      BY <3>1, <3>2 DEF ExchangeInv, Idle, AnswersInv, Outcome, Reaches, Content, Request
  <2> QED
    BY <2>1, <2>2, <2>3, <2>4, <2>5, <2>6, <2>7, <2>8 DEF Next
<1> QED
  BY <1>1, <1>2, PTL DEF Spec

\* So every answer is one of the cases of Handled.
LEMMA AnswersHandled ==
    ASSUME ServersInv, NEW s \in Servers, Answered(s)
    PROVE  /\ Handled(s, Outcome(s), memory[s])
           /\ Outcome(s).status = answer[s].status /\ Outcome(s).did = answer[s].did
           /\ Outcome(s).shown = answer[s].shown /\ Outcome(s).build = answer[s].build
           /\ answer[s].probed => s = "worker" /\ Request.path \in GatewayPaths
<1>1. CASE s = "local"
  <2> DEFINE r == LocalReply
  <2>1. answer[s] = r /\ Handled("local", r, memory["local"])
    BY <1>1, LocalHandles DEF ServersInv, AnswersInv, Answered
  <2>2. r = [status |-> r.status, did |-> r.did, shown |-> r.shown, build |-> r.build,
             probed |-> FALSE]
    BY <2>1, HandledShape
  <2> HIDE DEF r
  <2>3. Outcome(s) = r /\ answer[s].probed = FALSE
    BY <2>1, <2>2 DEF Outcome
  <2> QED
    BY <1>1, <2>1, <2>3
<1>2. CASE s = "worker"
  <2> DEFINE r == WorkerReply
             probed == answer[s].probed
  <2>1. /\ answer[s] = [r EXCEPT !.probed = probed] /\ Outcome(s) = r
        /\ Handled("worker", r, memory["worker"])
        /\ probed => Request.path \in GatewayPaths
    BY <1>2, WorkerHandles DEF ServersInv, AnswersInv, Answered
  <2>2. r = [status |-> r.status, did |-> r.did, shown |-> r.shown, build |-> r.build,
             probed |-> FALSE]
    BY <2>1, HandledShape
  <2> HIDE DEF r
  <2>3. /\ r.status = answer[s].status /\ r.did = answer[s].did
        /\ r.shown = answer[s].shown /\ r.build = answer[s].build
    <3> HIDE DEF probed
    <3>1. answer[s] = [status |-> r.status, did |-> r.did, shown |-> r.shown,
                       build |-> r.build, probed |-> probed]
      BY <2>1, <2>2
    <3> QED
      BY <3>1
  <2> QED
    BY <1>2, <2>1, <2>3
<1> QED
  BY <1>1, <1>2 DEF Servers

\* Clients on other hosts that do not have the token are shown nothing and get nothing
\* done but the Worker's probes: a server without a token only starts on the loopback
\* address.
THEOREM FarClientsAreRefused == Spec => []FarClientsNeedTheToken
<1>1. ServersInv => FarClientsNeedTheToken
  <2> SUFFICES ASSUME ServersInv, ~Idle, ~exchange.near,
                      Request.header \notin {"exact", "trimmed"},
                      NEW s \in Servers, answer[s] # None
               PROVE  LET a == answer[s]
                      IN  /\ a.status \in {401, 501, 503, None}
                          /\ a.did = {} /\ a.shown = {} /\ a.build = None
                          /\ a.probed => s = "worker" /\ Request.path \in GatewayPaths
    BY DEF FarClientsNeedTheToken
  <2>1. Answered(s)
    BY DEF Answered
  <2>2. CASE s = "local"
    <3>1. Outcome(s) = LocalReply
      BY <2>1, <2>2, LocalHandles, HandledShape DEF ServersInv, AnswersInv, Outcome
    <3>2. LocalReply \in {Reply(501, {}), Reply(401, {})}
      BY <2>2 DEF ServersInv, AnswersInv, Reaches, Starts, LocalReply, LocalAuthorized
    <3> QED
      BY <2>1, <3>1, <3>2, AnswersHandled DEF Reply
  <2>3. CASE s = "worker"
    <3>1. Outcome(s) = WorkerReply
      BY <2>3 DEF ServersInv, AnswersInv
    <3>2. WorkerReply \in {Reply(503, {}), Reply(None, {}), Reply(401, {})}
      BY DEF WorkerReply, WorkerAuthorized
    <3> QED
      BY <2>1, <3>1, <3>2, AnswersHandled DEF Reply
  <2> QED
    BY <2>2, <2>3 DEF Servers
<1> QED
  BY <1>1, ServersHandle, PTL

\* No answer shows, and no request stores, a record of a level that stays on the device.
THEOREM PrivateRecordsStay == Spec => []PrivateStaysHome
<1>1. ServersInv => PrivateStaysHome
  <2> SUFFICES ASSUME ServersInv, NEW s \in Servers, Answered(s)
               PROVE  /\ answer[s].shown \cap RemoteForbidden = {}
                      /\ "write" \in answer[s].did => memory[s].privacy \notin RemoteForbidden
    BY DEF PrivateStaysHome
  <2> DEFINE r == Outcome(s)
  <2>1. Handled(s, r, memory[s]) /\ r.did = answer[s].did /\ r.shown = answer[s].shown
    BY AnswersHandled
  <2>2. "write" \in answer[s].did => memory[s].privacy = Content.privacy
    BY DEF ServersInv, Answered
  <2> HIDE DEF r
  <2>3. r.shown \cap RemoteForbidden = {}
    BY <2>1, BuildingShape, CompletingShape, WritingShape, ReadingShape, SearchingShape
    DEF Handled, Plain, Raised, Reply
  <2>4. "write" \in r.did => Content.privacy \notin RemoteForbidden
    BY <2>1, BuildingShape, CompletingShape, WritingShape, ReadingShape, SearchingShape
    DEF Handled, Plain, Raised, Reply
  <2> QED
    BY <2>1, <2>2, <2>3, <2>4
<1> QED
  BY <1>1, ServersHandle, PTL

\* A status tells what was done, on every path of both servers.
THEOREM AnswersAreTrue == Spec => []AnswerTellsWhatWasDone
<1>1. ServersInv => AnswerTellsWhatWasDone
  <2> SUFFICES ASSUME ServersInv, NEW s \in Servers, Answered(s)
               PROVE  LET a == answer[s]
                      IN  /\ a.status = 200 /\ Request.path = "chat" => a.did = {"complete"}
                          /\ a.status # 200 /\ a.did # {} =>
                               /\ a.did = {"complete"}
                               /\ Content.wellformed
                               /\ Content.blank \/ exchange.luck \in {"failed", "endless"}
                          /\ a.status = None =>
                               \/ s = "worker" /\ Incomparable /\ a.did = {}
                               \/ Request.body = "deep" /\ a.did = {}
                               \/ /\ Request.path \in {"write", "search", "chat"}
                                  /\ Content.overflow
                               \/ /\ Request.path = "chat" /\ exchange.gateway.pooled
                                  /\ a.did = {"complete"} \/ exchange.luck = "barred"
                               \/ Request.path = "write" /\ exchange.luck # "answered"
                               \/ Request.path = "read" /\ memory[s].endless
    BY DEF AnswerTellsWhatWasDone
  <2> DEFINE a == Outcome(s)
             m == memory[s]
  <2>1. Handled(s, a, m) /\ a.status = answer[s].status /\ a.did = answer[s].did
    BY AnswersHandled
  <2>2. exchange.luck \in {"answered", "failed", "refused", "endless", "barred"}
    BY ExchangesAssumption DEF ServersInv, ExchangeInv, Answered, Idle
  <2> HIDE DEF a, m
  <2>3. a.status = 200 /\ Request.path = "chat" => a.did = {"complete"}
    BY <2>1, NoneAssumption, CompletingShape DEF Handled, Plain, Raised, Reply
  <2>4. a.status # 200 /\ a.did # {} =>
           /\ a.did = {"complete"}
           /\ Content.wellformed
           /\ Content.blank \/ exchange.luck \in {"failed", "endless"}
    BY <2>1, <2>2, BuildingShape, CompletingShape, WritingShape, ReadingShape, SearchingShape
    DEF Handled, Plain, Raised, Reply
  <2>5. a.status = None =>
           \/ s = "worker" /\ Incomparable /\ a.did = {}
           \/ Request.body = "deep" /\ a.did = {}
           \/ Request.path \in {"write", "search", "chat"} /\ Content.overflow
           \/ /\ Request.path = "chat" /\ exchange.gateway.pooled
              /\ a.did = {"complete"} \/ exchange.luck = "barred"
           \/ Request.path = "write" /\ exchange.luck # "answered"
           \/ Request.path = "read" /\ m.endless
    BY <2>1, NoneAssumption, BuildingShape, CompletingShape, WritingShape, ReadingShape,
       SearchingShape
    DEF Handled, Plain, Raised, Reply
  <2> QED
    BY <2>1, <2>3, <2>4, <2>5 DEF m
<1> QED
  BY <1>1, ServersHandle, PTL

\* With the query in it a path is none of the loopback server's.
LEMMA QueryIsRefused ==
    ASSUME Request.query, Request.method \in {"GET", "POST"}
    PROVE  LocalReply.status # 200 /\ LocalReply.did = {}
<1>1. LocalPath \in {"other", "memory_other"}
  BY DEF LocalPath
<1>2. /\ LocalGet = Reply(404, {}) \/ LocalPath # "other"
      /\ LocalPost = Reply(404, {})
  BY <1>1 DEF LocalGet, LocalPost
<1>3. LocalPath = "memory_other" => LocalMemory \in {Reply(503, {}), Reply(404, {}), Unread}
  BY DEF LocalMemory, MemoryReply
<1>4. LocalReply \in {Reply(401, {}), Reply(503, {}), Reply(404, {}), Unread}
  BY <1>1, <1>2, <1>3 DEF LocalReply, MemoryPaths
<1> QED
  BY <1>4, NoneAssumption DEF Unread, Reply

\* A method the loopback server does not know does nothing in the Worker.
LEMMA MethodIsRefused ==
    ASSUME Request.method \notin {"GET", "POST"}
    PROVE  LocalReply = Reply(501, {}) /\ WorkerReply.did = {}
<1>1. WorkerMemory \in {Reply(503, {}), Reply(404, {})}
  BY DEF WorkerMemory, MemoryReply
<1>2. WorkerReply \in {Reply(503, {}), Reply(None, {}), Reply(401, {}), Reply(404, {})}
  BY <1>1 DEF WorkerReply
<1> QED
  BY <1>2 DEF LocalReply, Reply

\* The two dispatchers give the same answer to the same request, the known differences
\* apart.
THEOREM DispatchersAgree == Spec => []TransportsAgree
<1>1. ServersInv => TransportsAgree
  <2> SUFFICES ASSUME ServersInv, Done, Reaches("local"),
                      memory["local"] = memory["worker"], ~KnownDifference
               PROVE  Outcome("local") = Outcome("worker")
    BY DEF TransportsAgree
  <2>1. Outcome("worker") = WorkerReply
    BY DEF ServersInv, AnswersInv, Done, Reaches, Servers
  <2>2. answer["local"] = LocalReply /\ Handled("local", LocalReply, memory["local"])
    BY LocalHandles DEF ServersInv, AnswersInv, Done, Servers
  <2>3. Outcome("local") = LocalReply
    BY <2>2, HandledShape DEF Outcome
  <2>4. /\ ~(config.token \in {"none", "blank"} /\ WorkerReply = Reply(503, {}))
        /\ ~(config.token = "padded" /\ 401 \in {LocalReply.status, WorkerReply.status})
        /\ ~(Incomparable /\ WorkerReply.status = None /\ WorkerReply.did = {})
        /\ ~(/\ Request.method \notin {"GET", "POST"}
             /\ LocalReply = Reply(501, {}) /\ WorkerReply.did = {})
        /\ ~(Request.query /\ LocalReply.status # 200 /\ LocalReply.did = {})
        /\ ~(Request.body = "loose" /\ LocalReply = Reply(400, {}))
    BY <2>1, <2>3 DEF KnownDifference
  <2>5. config.token \notin {"none", "blank"}
    BY <2>4 DEF WorkerReply
  <2>6. ~Incomparable
    BY <2>4, <2>5 DEF WorkerReply, Reply
  <2>7. Request.method \in {"GET", "POST"}
    BY <2>4, MethodIsRefused
  <2>8. ~Request.query
    BY <2>4, <2>7, QueryIsRefused
  <2>9. /\ config.token \in {"plain", "padded"}
        /\ Request.header \in {"exact", "trimmed", "other"}
    BY <2>5, <2>6, ExchangesAssumption, ConfigsAssumption
    DEF Incomparable, ServersInv, ExchangeInv, Done, Idle, Request, Tokens, Headers
  <2>10. config.token = "plain"
    <3>1. ~LocalAuthorized => LocalReply = Reply(401, {})
      BY <2>7 DEF LocalReply
    <3>2. ~WorkerAuthorized => WorkerReply = Reply(401, {})
      BY <2>5, <2>6 DEF WorkerReply
    <3>3. config.token = "padded" => ~LocalAuthorized \/ ~WorkerAuthorized
      BY <2>9 DEF LocalAuthorized, WorkerAuthorized
    <3> QED
      BY <2>4, <2>9, <3>1, <3>2, <3>3 DEF Reply
  <2>11. LocalAuthorized = WorkerAuthorized
    BY <2>10 DEF LocalAuthorized, WorkerAuthorized
  <2>12. LocalPath = Request.path
    BY <2>8 DEF LocalPath
  <2>13. LocalGet = WorkerGet
    BY <2>12 DEF LocalGet, WorkerGet
  <2>14. CASE LocalReads = WorkerReads
    <3>1. LocalPost = WorkerPost /\ LocalMemory = WorkerMemory
      BY <2>12, <2>14 DEF LocalPost, WorkerPost, LocalMemory, WorkerMemory
    <3> QED
      BY <2>1, <2>3, <2>5, <2>6, <2>7, <2>11, <2>12, <2>13, <3>1
      DEF LocalReply, WorkerReply
  <2>15. CASE LocalReads # WorkerReads
    <3>1. Request.body = "loose" /\ ~LocalReads /\ Unread = Reply(400, {})
      BY <2>15 DEF LocalReads, WorkerReads, Unread
    <3>2. \/ LocalReply = Reply(401, {}) /\ ~LocalAuthorized
          \/ LocalAuthorized /\ LocalPath \in MemoryPaths /\ LocalReply = LocalMemory
          \/ /\ LocalAuthorized /\ LocalPath \notin MemoryPaths /\ Request.method = "GET"
             /\ LocalReply = LocalGet
          \/ /\ LocalAuthorized /\ LocalPath \notin MemoryPaths /\ Request.method = "POST"
             /\ LocalReply = LocalPost
      BY <2>7 DEF LocalReply
    <3>3. LocalReply # Unread
      BY <2>4, <3>1
    <3>4. LocalReply = LocalMemory => LocalMemory = WorkerMemory
      BY <2>12, <3>1, <3>3 DEF LocalMemory, WorkerMemory
    <3>5. LocalReply = LocalPost => LocalPost = WorkerPost
      BY <2>12, <3>1, <3>3 DEF LocalPost, WorkerPost
    <3> QED
      BY <2>1, <2>3, <2>5, <2>6, <2>11, <2>12, <2>13, <3>2, <3>4, <3>5 DEF WorkerReply
  <2> QED
    BY <2>14, <2>15
<1> QED
  BY <1>1, ServersHandle, PTL

-----------------------------------------------------------------------------
\* Cantiere's correlation keeps its identity over all attempts.
THEOREM OperationIsOwn == Spec => []OperationInv
<1>1. Init => OperationInv
  BY DEF Init, OperationInv, Operation, Create, DeriveKey, CorrelationFields,
     RequiredFields, IdentityFields
<1>2. OperationInv /\ [Next]_vars => OperationInv'
  <2>1. ASSUME OperationInv, NextAttempt PROVE OperationInv'
    <3>1. PICK a \in Attempts : operation' = ForAttempt(operation, a, None)
      BY <2>1 DEF NextAttempt
    <3> QED
      BY <2>1, <3>1 DEF ForAttempt, OperationInv, CorrelationFields, RequiredFields,
         IdentityFields
  <2>2. ASSUME OperationInv, operation' = operation PROVE OperationInv'
    BY <2>2 DEF OperationInv
  <2> QED
    BY <2>1, <2>2 DEF Next, vars, Arrive, HandleLocal, HandleWorker, Handle, Leave,
       StartAfresh, StoreElsewhere
<1> QED
  BY <1>1, <1>2, PTL DEF Spec

\* Cantiere's own correlation is sound.
LEMMA OwnIsSound ==
    ASSUME OperationInv
    PROVE  Sound(operation) /\ operation.project_id = Identity.project_id
             /\ operation.operation_id = Identity.operation_id
BY IdentityAssumption DEF OperationInv, Sound, DeriveKey, RequiredFields, IdentityFields

\* A sound correlation made of Cantiere's own identifies the operation.
LEMMA TamperedIsKnown ==
    ASSUME OperationInv, NEW field \in CorrelationFields, Sound(Tampered(operation, field)),
           NEW f \in IdentityFields
    PROVE  Tampered(operation, field)[f] = Identity[f]
<1>1. CASE field \in IdentityFields
  BY <1>1 DEF OperationInv, Sound, DeriveKey, Tampered, IdentityFields, CorrelationFields,
     RequiredFields
<1>2. CASE field \notin IdentityFields
  BY <1>2 DEF OperationInv, Tampered, IdentityFields, CorrelationFields, RequiredFields
<1> QED
  BY <1>1, <1>2

\* The build in the request carries what its correlation says.
LEMMA BuildIdentified ==
    ASSUME ExchangeInv, OperationInv, ~Idle, Request.path = "tasks",
           ValidBuild(BuildOf(Content)), BuildOf(Content).correlation # None
    PROVE  LET c == BuildOf(Content).correlation
           IN  /\ \A f \in IdentityFields : c[f] = Identity[f]
               /\ Content.project_id = Identity.project_id
               /\ KindOf(Content) = Identity.operation_id
<1> DEFINE b == BuildOf(Content)
           c == b.correlation
<1>1. Content \in BuildContent
  BY ExchangesAssumption DEF ExchangeInv, Idle, Content, Request
<1>2. /\ b = [Content EXCEPT !.correlation = c]
      /\ c = IF Content.correlation = None THEN None
             ELSE IF Content.correlation = "own" THEN operation
             ELSE Tampered(operation, Content.correlation)
  BY <1>1 DEF BuildOf, BuildContent
<1>3. Content.correlation \in {None, "own"} \cup CorrelationFields
  BY <1>1 DEF BuildContent
<1>4. /\ b.project_id = Content.project_id
      /\ KindOf(b) = KindOf(Content)
  <2> HIDE DEF b
  <2> QED
    BY <1>1, <1>2 DEF BuildContent, KindOf
<1>5. Sound(c) /\ c.project_id = b.project_id /\ c.operation_id = KindOf(b)
  BY DEF ValidBuild
<1> HIDE DEF b, c
<1>6. \A f \in IdentityFields : c[f] = Identity[f]
  <2>1. CASE c = operation
    BY <2>1 DEF OperationInv
  <2>2. CASE /\ Content.correlation \in CorrelationFields
             /\ c = Tampered(operation, Content.correlation)
    BY <1>5, <2>2, TamperedIsKnown
  <2> QED
    BY <1>2, <1>3, <2>1, <2>2 DEF b, c
<1>7. Content.project_id = Identity.project_id /\ KindOf(Content) = Identity.operation_id
  BY <1>4, <1>5, <1>6 DEF IdentityFields
<1> QED
  BY <1>6, <1>7 DEF b, c

\* A build that runs under a correlation is about the operation Cantiere gave it to.
THEOREM NothingForgedIsBuilt == Spec => []NothingForgedRuns
<1>1. ServersInv /\ OperationInv => NothingForgedRuns
  <2> SUFFICES ASSUME ServersInv, OperationInv, NEW s \in Servers,
                      Answered(s), answer[s].build # None
               PROVE  /\ \A f \in IdentityFields : answer[s].build[f] = Identity[f]
                      /\ Content.project_id = Identity.project_id
                      /\ KindOf(Content) = Identity.operation_id
    BY DEF NothingForgedRuns
  <2>1. Handled(s, Outcome(s), memory[s]) /\ Outcome(s).build = answer[s].build
    BY AnswersHandled
  <2>2. Request.path = "tasks" /\ Outcome(s) = Building
    BY <2>1, CompletingShape, WritingShape, ReadingShape, SearchingShape
    DEF Handled, Plain, Raised, Reply
  <2>3. /\ ValidBuild(BuildOf(Content))
        /\ answer[s].build = BuildOf(Content).correlation
    BY <2>1, <2>2, BuildingShape
  <2> QED
    BY <2>2, <2>3, BuildIdentified DEF ServersInv, Answered
<1> QED
  BY <1>1, ServersHandle, OperationIsOwn, PTL

\* Every attempt at the operation is taken for what it is.
THEOREM OwnRetriesAreRun == Spec => []OwnRetriesRun
<1>1. ServersInv /\ OperationInv => OwnRetriesRun
  <2> SUFFICES ASSUME ServersInv, OperationInv, NEW s \in Servers,
                      Delivered(s), OwnBuild, Request.body = "object"
               PROVE  answer[s].status = 200 /\ answer[s].build = operation
    BY DEF OwnRetriesRun
  <2>0. /\ Outcome(s).status = answer[s].status /\ Outcome(s).build = answer[s].build
        /\ Outcome(s).status \notin {401, 404, 501, 503}
    BY AnswersHandled DEF Delivered
  <2>1. Outcome(s) = Building
    <3>1. Request.method = "POST" /\ Request.path = "tasks"
      BY DEF OwnBuild
    <3>2. CASE s = "local"
      <4>1. Outcome(s) = LocalReply
        BY <3>2, LocalHandles, HandledShape
        DEF ServersInv, AnswersInv, Delivered, Answered, Outcome
      <4>2. LocalPath \in {"tasks", "other"}
        BY <3>1 DEF LocalPath, MemoryPaths
      <4>3. LocalPost \in {Building, Reply(404, {})}
        BY <4>2 DEF LocalPost, LocalReads
      <4>4. LocalReply \in {Reply(401, {}), LocalPost}
        BY <3>1, <4>2 DEF LocalReply, MemoryPaths
      <4> QED
        BY <2>0, <4>1, <4>3, <4>4 DEF Reply
    <3>3. CASE s = "worker"
      <4>1. Outcome(s) = WorkerReply /\ ~Incomparable
        BY <3>3 DEF ServersInv, AnswersInv, Delivered, Answered
      <4>2. WorkerPost = Building
        BY <3>1 DEF WorkerPost, WorkerReads
      <4>3. WorkerReply \in {Reply(401, {}), Reply(503, {}), WorkerPost}
        BY <3>1, <4>1 DEF WorkerReply, MemoryPaths
      <4> QED
        BY <2>0, <4>1, <4>2, <4>3 DEF Reply
    <3> QED
      BY <3>2, <3>3 DEF Servers
  <2>2. Content \in BuildContent
    BY ExchangesAssumption DEF ServersInv, ExchangeInv, Delivered, Answered, Idle,
       OwnBuild, Content, Request
  <2>3. BuildOf(Content) = [Content EXCEPT !.correlation = operation]
    BY <2>2, IdentityAssumption DEF BuildOf, OwnBuild
  <2>4. ValidBuild(BuildOf(Content)) /\ BuildOf(Content).correlation = operation
    <3> DEFINE b == BuildOf(Content)
               unbound == [Content EXCEPT !.correlation = None]
    <3>1. /\ b.correlation = operation
          /\ \A f \in {"wellformed", "mode", "task_family", "task_kind", "project_id",
                       "artifacts", "profile"} : b[f] = Content[f] /\ unbound[f] = Content[f]
      BY <2>2, <2>3 DEF BuildContent
    <3> HIDE DEF b, unbound
    <3>2. KindOf(b) = KindOf(Content) /\ KindOf(unbound) = KindOf(Content)
      BY <3>1 DEF KindOf
    <3>3. ValidBuild(unbound) /\ KindOf(Content) = Identity.operation_id
          /\ Content.project_id = Identity.project_id
      BY DEF OwnBuild, unbound
    <3>4. ValidBuild(b)
      BY <3>1, <3>2, <3>3, OwnIsSound DEF ValidBuild
    <3> QED
      BY <3>1, <3>4 DEF b
  <2> QED
    BY <2>0, <2>1, <2>4 DEF Building, Reply
<1> QED
  BY <1>1, ServersHandle, OperationIsOwn, PTL
=============================================================================
