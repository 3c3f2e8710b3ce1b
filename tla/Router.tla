------------------------------- MODULE Router --------------------------------
(***************************************************************************)
(* Where a request runs (src/router.rs), and the trading strategy that     *)
(* steers it (src/trading_strategy.rs).  Pressures are hundredths and      *)
(* scores thousandths of the f32 values in the code.  Comparisons of one   *)
(* pressure with a constant are exact; a sum is compared as long as no     *)
(* input makes it exactly equal to the bound, where rounding would decide. *)
(***************************************************************************)
EXTENDS Integers, FiniteSetsExt, SequencesExt

RoutingPolicy == {"LocalOnly", "PreferLocal", "PressureAware"}

Local == [at |-> "Local"]
Remote(node) == [at |-> "Remote", node |-> node]

\* Hint, QosClass and RetryPlan, for what the strategies at hand use of them.
None == [hint |-> "none"]
Keep == [hint |-> "Keep"]
ForceLocal == [hint |-> "ForceLocal"]
ForceRemote(node) == [hint |-> "ForceRemote", node |-> node]

\* A strategy's standing hint and bias; those of trading depend on the request.
NoStrategy == [name |-> "none", hint |-> None, bias |-> 0]
Trading == [name |-> "trading", hint |-> None, bias |-> 0]

-----------------------------------------------------------------------------
(* Nodes.  A view lists the peers [node, queue, cpu] in its order.         *)

\* Of the least value by a measure, the first peer.
Least(peers, Measure(_)) ==
    LET least == Min({Measure(peers[i]) : i \in DOMAIN peers})
    IN  SelectInSeq(peers, LAMBDA p : Measure(p) = least)

Queue(peer) == 10 * peer.queue

NodeScore(peer) == 10 * peer.queue + 5 * peer.cpu

\* Mutant: the test for a peer's room is turned around.
FallbackRemoteFull(ctx) ==
    LET i == SelectInSeq(ctx.peers, LAMBDA p : p.queue > 70)
    IN  IF i = 0 THEN Local ELSE Remote(ctx.peers[i].node)

\* fallback_remote: the first peer with room.
FallbackRemote(ctx) ==
    LET i == SelectInSeq(ctx.peers, LAMBDA p : p.queue < 70)
    IN  IF i = 0 THEN Local ELSE Remote(ctx.peers[i].node)

\* Mutant: the comparison is turned around.
SelectBestNodeReversed(ctx) ==
    IF ctx.peers = <<>> THEN Local
    ELSE LET best == ctx.peers[Least(ctx.peers, NodeScore)]
         IN  IF NodeScore(best) > 10 * ctx.queue THEN Remote(best.node) ELSE Local

\* select_best_node: the peers' score counts their CPU, the local one does not.
SelectBestNode(ctx) ==
    IF ctx.peers = <<>> THEN Local
    ELSE LET best == ctx.peers[Least(ctx.peers, NodeScore)]
         IN  IF NodeScore(best) < 10 * ctx.queue THEN Remote(best.node) ELSE Local

\* base_pressure_score: memory pressure is 0.25 in this build.
BasePressureScore(ctx) == Min({10 * ctx.queue + 5 * ctx.cpu + 50, 1500})

\* select_target, the table without a view: node 0 stands for any.
SelectTarget(policy, queue) ==
    IF policy = "LocalOnly" \/ queue < 80 THEN Local ELSE Remote(0)

-----------------------------------------------------------------------------
(* Strategies answer for a request, or say nothing: the trait's defaults   *)
(* (src/strategy.rs) are no hint, no bias and no other opinion.            *)

IsTrade(query) == query.strategy = Trading /\ query.trade

\* TradingStrategy::select_route of a trade: every queue is below 1.1.
SelectRoute(ctx) ==
    IF ctx.queue < 95 THEN ForceLocal
    ELSE IF ctx.peers = <<>> THEN None
         ELSE ForceRemote(ctx.peers[Least(ctx.peers, Queue)].node)

HintOf(query) == IF IsTrade(query) THEN SelectRoute(query.ctx) ELSE query.strategy.hint

\* pressure_bias
BiasOf(query) == IF IsTrade(query) THEN -350 ELSE query.strategy.bias

QosPolicy(query) == IF IsTrade(query) THEN "LowLatency" ELSE "Standard"

RetryPolicy(query) == IF IsTrade(query) THEN "NoRetry" ELSE "Backoff"

IdempotencySalt(query) == IF IsTrade(query) THEN "domain:trading:v1" ELSE "none"

-----------------------------------------------------------------------------

ApplyHint(target, hint) == CASE hint.hint \in {"none", "Keep"} -> target
                             [] hint.hint = "ForceLocal" -> Local
                             [] hint.hint = "ForceRemote" -> Remote(hint.node)

\* Mutant: the local queue is not looked at.
RouteLegacyEager(ctx, policy) == CASE policy = "LocalOnly" -> Local
                                   [] policy = "PreferLocal" -> FallbackRemote(ctx)
                                   [] policy = "PressureAware" -> SelectBestNode(ctx)

\* route_legacy, the table as it was before strategies
RouteLegacy(ctx, policy) ==
    CASE policy = "LocalOnly" -> Local
      [] policy = "PreferLocal" -> IF ctx.queue < 80 THEN Local ELSE FallbackRemote(ctx)
      [] policy = "PressureAware" -> SelectBestNode(ctx)

\* The same table again, in route_with_strategy.
ByPolicy(ctx, policy) ==
    CASE policy = "LocalOnly" -> Local
      [] policy = "PreferLocal" -> IF ctx.queue < 80 THEN Local ELSE FallbackRemote(ctx)
      [] policy = "PressureAware" -> SelectBestNode(ctx)

PressureScore(query) == BasePressureScore(query.ctx) + BiasOf(query)

\* Mutant: overload has the last word.
RouteOverloadLast(query) ==
    LET first == ByPolicy(query.ctx, query.policy)
    IN  IF query.strategy = NoStrategy THEN first
        ELSE IF PressureScore(query) > 950 THEN FallbackRemote(query.ctx)
             ELSE ApplyHint(first, HintOf(query))

\* route_with_strategy: the policy, then overload, then the hint.
Route(query) ==
    LET first == ByPolicy(query.ctx, query.policy)
    IN  IF query.strategy = NoStrategy THEN first
        ELSE ApplyHint(IF PressureScore(query) > 950 THEN FallbackRemote(query.ctx)
                       ELSE first, HintOf(query))

\* What the caller gets.
Decision(query) == [target |-> Route(query), qos |-> QosPolicy(query),
                    retry |-> RetryPolicy(query),
                    idempotency_salt |-> IdempotencySalt(query)]

=============================================================================
